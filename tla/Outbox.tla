------------------------------- MODULE Outbox -------------------------------
(***************************************************************************)
(* The transactional outbox of the API server: the rows of the table       *)
(* deployment_outbox and the dispatchers (one per server process) that     *)
(* claim them, publish them on deploy.jobs and wait for the broker's       *)
(* confirmation.  The code is                                              *)
(*   server/internal/deployments/dispatcher/outbox_dispatcher.go   and     *)
(*   server/internal/deployments/repository/pgsql/pgsql_deployment.go.     *)
(*                                                                         *)
(* Clocks are abstracted to one bit per row, `elapsed`: the time on which  *)
(* the row's current state waits has run out.  It is available_at for a    *)
(* pending or failed row, updated_at plus the 30 s lease for a publishing  *)
(* one, sent_at plus the retention for a sent one.                         *)
(***************************************************************************)
EXTENDS Integers, FiniteSets

CONSTANTS
    Events,         \* outbox rows that may be inserted, one per accepted build
    Poison,         \* those whose stored payload is not a valid V1 job
    Dispatchers,    \* server processes, each running one dispatcher
    MaxAttempts,    \* maxOutboxPublishAttempts
    BatchSize,      \* rows claimed by one poll
    CallsFail,      \* whether calls fail too: a statement's error is returned, a
                    \* message is refused on an open channel
    MaxFaults,      \* bound of the model: process stops plus broker outages
    NoEvent         \* "no event is being dispatched"

ASSUME OutboxAssumption ==
    /\ Poison \subseteq Events
    /\ IsFiniteSet(Dispatchers)
    /\ MaxAttempts \in Nat \ {0}
    /\ BatchSize \in Nat \ {0}
    /\ CallsFail \in BOOLEAN
    /\ MaxFaults \in Nat
    /\ NoEvent \notin Events

VARIABLES
    row,            \* the table: one record per event
    phase,          \* where each dispatcher's Run loop is
    batch,          \* events of its claimed batch still to be dispatched
    current,        \* the event it is dispatching
    channel,        \* its AMQP channel is open
    brokerUp,       \* RabbitMQ accepts connections
    copies,         \* messages ever put on deploy.jobs for each event
    confirmed,      \* events for which some publish was ACKed
    faults          \* stops and outages so far

vars == <<row, phase, batch, current, channel, brokerUp, copies, confirmed,
          faults>>

Live == {"pending", "publishing", "failed"}
RowStates == Live \cup {"absent", "sent", "dead_letter", "deleted"}
Phases == {"down", "idle", "busy", "awaiting", "acked", "rejected",
           "reconciling"}

Rows == [state: RowStates, attempts: 0..MaxAttempts, elapsed: BOOLEAN]

TypeOK ==
    /\ row \in [Events -> Rows]
    /\ phase \in [Dispatchers -> Phases]
    /\ batch \in [Dispatchers -> SUBSET Events]
    /\ current \in [Dispatchers -> Events \cup {NoEvent}]
    /\ channel \in [Dispatchers -> BOOLEAN]
    /\ brokerUp \in BOOLEAN
    /\ copies \in [Events -> Nat]
    /\ confirmed \subseteq Events
    /\ faults \in 0..MaxFaults

Init ==
    /\ row = [e \in Events |-> [state |-> "absent", attempts |-> 0,
                                elapsed |-> FALSE]]
    /\ phase = [d \in Dispatchers |-> "down"]
    /\ batch = [d \in Dispatchers |-> {}]
    /\ current = [d \in Dispatchers |-> NoEvent]
    /\ channel = [d \in Dispatchers |-> FALSE]
    /\ brokerUp = TRUE
    /\ copies = [e \in Events |-> 0]
    /\ confirmed = {}
    /\ faults = 0

-----------------------------------------------------------------------------
(* The table.                                                              *)

\* The insert of the outbox row in the transaction that stores a build.
Accept(e) ==
    /\ row[e].state = "absent"
    /\ row' = [row EXCEPT ![e] = [state |-> "pending", attempts |-> 0,
                                  elapsed |-> TRUE]]
    /\ UNCHANGED <<phase, batch, current, channel, brokerUp, copies,
                   confirmed, faults>>

\* The backoff of a failed row, the lease of a claimed one or the retention
\* of a sent one runs out.
TimePasses(e) ==
    /\ row[e].state \in {"publishing", "failed", "sent"}
    /\ ~row[e].elapsed
    /\ row' = [row EXCEPT ![e].elapsed = TRUE]
    /\ UNCHANGED <<phase, batch, current, channel, brokerUp, copies,
                   confirmed, faults>>

\* Mistaken variant of Claimable: the attempt limit is forgotten.
ClaimableWithoutLimit(e) == row[e].state \in Live /\ row[e].elapsed

\* The WHERE clause of ClaimOutboxBatch.
Claimable(e) ==
    /\ row[e].state \in Live
    /\ row[e].attempts < MaxAttempts
    /\ row[e].elapsed

\* The row after the UPDATE of ClaimOutboxBatch.
Claimed(r) == [state |-> "publishing", attempts |-> r.attempts + 1,
               elapsed |-> FALSE]

\* Mistaken variant of AfterSent: the row's state is not looked at.
SentWhateverItWas(r) == [r EXCEPT !.state = "sent", !.elapsed = FALSE]

\* MarkOutboxSent: a row that is not publishing is left as it is.
AfterSent(r) ==
    IF r.state = "publishing"
    THEN [r EXCEPT !.state = "sent", !.elapsed = FALSE] ELSE r

\* Mistaken variants of AfterFailed: the limit is off by one, the row's state
\* is not looked at.
FailedOnceMore(r, now) ==
    IF r.state = "publishing"
    THEN [r EXCEPT !.state = IF r.attempts > MaxAttempts
                             THEN "dead_letter" ELSE "failed",
                   !.elapsed = now]
    ELSE r
FailedWhateverItWas(r, now) ==
    [r EXCEPT !.state = IF r.attempts >= MaxAttempts
                        THEN "dead_letter" ELSE "failed",
              !.elapsed = now]

\* MarkOutboxPublishFailed: the attempt limit decides between retry and
\* dead letter; `now` says that the row may be retried at once.
AfterFailed(r, now) ==
    IF r.state = "publishing"
    THEN [r EXCEPT !.state = IF r.attempts >= MaxAttempts
                             THEN "dead_letter" ELSE "failed",
                   !.elapsed = now]
    ELSE r

\* Mistaken variants of AfterReset: the attempts are forgotten, a row without
\* attempts left is not reset.
ResetForgetsAttempts(r) ==
    IF r.state = "publishing" /\ r.elapsed
    THEN [r EXCEPT !.state = "pending", !.attempts = 0] ELSE r
ResetSkipsExhausted(r) ==
    IF r.state = "publishing" /\ r.elapsed /\ r.attempts < MaxAttempts
    THEN [r EXCEPT !.state = "pending", !.elapsed = TRUE] ELSE r

\* ResetStuckPublishing on one row: attempt_count is preserved.
AfterReset(r) ==
    IF r.state = "publishing" /\ r.elapsed
    THEN [r EXCEPT !.state = "pending", !.elapsed = TRUE] ELSE r

\* DeleteSentOutboxOlderThan on one row.
AfterRetention(r) ==
    IF r.state = "sent" /\ r.elapsed
    THEN [r EXCEPT !.state = "deleted"] ELSE r

-----------------------------------------------------------------------------
(* The dispatcher d.                                                       *)

\* Run: a channel is opened in confirm mode; without a broker the process
\* does not come up.
Start(d) ==
    /\ phase[d] = "down"
    /\ brokerUp
    /\ phase' = [phase EXCEPT ![d] = "idle"]
    /\ channel' = [channel EXCEPT ![d] = TRUE]
    /\ UNCHANGED <<row, batch, current, brokerUp, copies, confirmed, faults>>

\* A poll: one atomic statement claims up to BatchSize rows.  Another poll
\* may hold row locks, which SKIP LOCKED passes over, so any non-empty part
\* of the claimable rows can come back.  The answer may be lost after the
\* statement has committed: the batch is then abandoned.
Claim(d) ==
    /\ phase[d] = "idle"
    /\ \E S \in SUBSET {e \in Events : Claimable(e)} :
        /\ S # {} /\ Cardinality(S) <= BatchSize
        /\ row' = [e \in Events |-> IF e \in S THEN Claimed(row[e])
                                               ELSE row[e]]
        /\ \/ /\ phase' = [phase EXCEPT ![d] = "busy"]
              /\ batch' = [batch EXCEPT ![d] = S]
           \/ CallsFail /\ UNCHANGED <<phase, batch>>
    /\ UNCHANGED <<current, channel, brokerUp, copies, confirmed, faults>>

\* dispatchEvent hands a valid payload to the broker, which enqueues it.
Send(d) ==
    /\ phase[d] = "busy"
    /\ channel[d]
    /\ \E e \in batch[d] \ Poison :
        /\ current' = [current EXCEPT ![d] = e]
        /\ batch' = [batch EXCEPT ![d] = @ \ {e}]
        /\ copies' = [copies EXCEPT ![e] = @ + 1]
    /\ phase' = [phase EXCEPT ![d] = "awaiting"]
    /\ UNCHANGED <<row, channel, brokerUp, confirmed, faults>>

\* The payload is poison, the channel is closed, or the broker refuses the
\* message: nothing is enqueued.
SendFails(d) ==
    /\ phase[d] = "busy"
    /\ \E e \in batch[d] :
        /\ e \in Poison \/ ~channel[d] \/ CallsFail
        /\ current' = [current EXCEPT ![d] = e]
        /\ batch' = [batch EXCEPT ![d] = @ \ {e}]
    /\ phase' = [phase EXCEPT ![d] = "rejected"]
    /\ UNCHANGED <<row, channel, brokerUp, copies, confirmed, faults>>

\* The confirmation of the published message arrives as an ACK.
Ack(d) ==
    /\ phase[d] = "awaiting"
    /\ channel[d]
    /\ phase' = [phase EXCEPT ![d] = "acked"]
    /\ confirmed' = confirmed \cup {current[d]}
    /\ UNCHANGED <<row, batch, current, channel, brokerUp, copies, faults>>

\* The channel closes before the confirmation: the client library reports
\* a negative confirmation although the message may have been enqueued.
ConfirmLost(d) ==
    /\ phase[d] = "awaiting"
    /\ ~channel[d]
    /\ phase' = [phase EXCEPT ![d] = "rejected"]
    /\ UNCHANGED <<row, batch, current, channel, brokerUp, copies, confirmed,
                   faults>>

\* dispatchEvent returns and dispatchBatch goes on to the next event; after
\* the last one it returns to Run (or claims again, which is Claim).
NextEvent(d) ==
    /\ phase' = [phase EXCEPT ![d] = IF batch[d] = {} THEN "idle" ELSE "busy"]
    /\ current' = [current EXCEPT ![d] = NoEvent]
    /\ UNCHANGED <<batch, channel, brokerUp, copies, confirmed, faults>>

\* Mistaken variant of MarkSent: the confirmation is not waited for.
MarkSentUnconfirmed(d) ==
    /\ phase[d] \in {"awaiting", "acked"}
    /\ row' = [row EXCEPT ![current[d]] = AfterSent(@)]
    /\ NextEvent(d)

\* ACK: MarkOutboxSent.
MarkSent(d) ==
    /\ phase[d] = "acked"
    /\ row' = [row EXCEPT ![current[d]] = AfterSent(@)]
    /\ NextEvent(d)

\* Error, NACK or poison: MarkOutboxPublishFailed, with the backoff of the
\* attempt, or with no delay for poison.
MarkFailed(d) ==
    /\ phase[d] = "rejected"
    /\ row' = [row EXCEPT ![current[d]] =
                    AfterFailed(@, current[d] \in Poison)]
    /\ NextEvent(d)

\* The UPDATE fails: the error is logged and the row stays publishing.
MarkError(d) ==
    /\ CallsFail
    /\ phase[d] \in {"acked", "rejected"}
    /\ UNCHANGED row
    /\ NextEvent(d)

\* The first half of reconcile: every claim whose lease ran out is undone.
ResetStuck(d) ==
    /\ phase[d] = "idle"
    /\ phase' = [phase EXCEPT ![d] = "reconciling"]
    /\ row' = [e \in Events |-> AfterReset(row[e])]
    /\ UNCHANGED <<batch, current, channel, brokerUp, copies, confirmed,
                   faults>>

\* That statement fails: the error is logged and the second half still runs.
ResetError(d) ==
    /\ CallsFail
    /\ phase[d] = "idle"
    /\ phase' = [phase EXCEPT ![d] = "reconciling"]
    /\ UNCHANGED <<row, batch, current, channel, brokerUp, copies, confirmed,
                   faults>>

\* The second half of reconcile; its statement may fail too.
DeleteSent(d) ==
    /\ phase[d] = "reconciling"
    /\ phase' = [phase EXCEPT ![d] = "idle"]
    /\ \/ row' = [e \in Events |-> AfterRetention(row[e])]
       \/ CallsFail /\ UNCHANGED row
    /\ UNCHANGED <<batch, current, channel, brokerUp, copies, confirmed,
                   faults>>

\* A crash, or a shutdown: once ctx is canceled every publish and every
\* statement fails with it, so the claims in memory are simply forgotten.
Stop(d) ==
    /\ phase[d] # "down"
    /\ faults < MaxFaults
    /\ faults' = faults + 1
    /\ phase' = [phase EXCEPT ![d] = "down"]
    /\ batch' = [batch EXCEPT ![d] = {}]
    /\ current' = [current EXCEPT ![d] = NoEvent]
    /\ channel' = [channel EXCEPT ![d] = FALSE]
    /\ UNCHANGED <<row, brokerUp, copies, confirmed>>

-----------------------------------------------------------------------------
(* RabbitMQ.  Its queues are durable; an outage closes every channel, and  *)
(* a running dispatcher never opens another one.                           *)

BrokerDown ==
    /\ brokerUp
    /\ faults < MaxFaults
    /\ faults' = faults + 1
    /\ brokerUp' = FALSE
    /\ channel' = [d \in Dispatchers |-> FALSE]
    /\ UNCHANGED <<row, phase, batch, current, copies, confirmed>>

BrokerUp ==
    /\ ~brokerUp
    /\ brokerUp' = TRUE
    /\ UNCHANGED <<row, phase, batch, current, channel, copies, confirmed,
                   faults>>

-----------------------------------------------------------------------------

Dispatch(d) == \/ Send(d) \/ SendFails(d) \/ Ack(d) \/ ConfirmLost(d)
               \/ MarkSent(d) \/ MarkFailed(d) \/ MarkError(d)
               \/ DeleteSent(d)

Next == \/ \E e \in Events : Accept(e) \/ TimePasses(e)
        \/ \E d \in Dispatchers :
              \/ Start(d) \/ Stop(d) \/ Claim(d) \/ Dispatch(d)
              \/ ResetStuck(d) \/ ResetError(d)
        \/ BrokerDown
        \/ BrokerUp

Spec == Init /\ [][Next]_vars

\* Time passes, the broker comes back, a stopped process is restarted, and a
\* dispatcher that started a batch or a reconciliation goes on with it.  Both
\* tickers of Run keep firing and select serves each, so a poll and a
\* reconciliation that stay possible whenever the loop is idle do happen.
Fairness ==
    /\ WF_vars(BrokerUp)
    /\ \A e \in Events : WF_vars(TimePasses(e))
    /\ \A d \in Dispatchers :
          /\ WF_vars(Start(d))
          /\ WF_vars(Dispatch(d))
          /\ SF_vars(Claim(d))
          /\ SF_vars(ResetStuck(d))

FairSpec == Spec /\ Fairness

-----------------------------------------------------------------------------
(* Properties.                                                             *)

\* The dispatchers that hold a claim on e they have not dispatched yet.
Holders(e) == {d \in Dispatchers : e \in batch[d]}

\* A row is marked sent, and later removed, only after the broker confirmed
\* a message for it: "the database is marked sent only after RabbitMQ has
\* confirmed receipt", whichever of several dispatchers marks it.
SentIsConfirmed ==
    \A e \in Events : row[e].state \in {"sent", "deleted"} =>
                          e \in confirmed /\ copies[e] > 0

\* However often a row is claimed, abandoned, reset and claimed again, by
\* overlapping dispatchers, each claim pays for at most one message: the
\* copies on deploy.jobs and the claims still to be published never exceed
\* the attempts counted on the row, so a job is published at most
\* maxOutboxPublishAttempts times.
CopiesArePaidFor ==
    \A e \in Events : copies[e] + Cardinality(Holders(e)) <= row[e].attempts

\* The attempt limit alone decides between retry and dead letter: no failed
\* row is out of attempts and no row is buried with attempts left, also when
\* the dispatcher that records the failure is not the last one that claimed.
RetryBudget ==
    \A e \in Events :
        /\ row[e].state = "failed" => row[e].attempts < MaxAttempts
        /\ row[e].state = "dead_letter" => row[e].attempts = MaxAttempts

\* A dispatcher that reports late, after its lease was lost and the row
\* settled by another, cannot reopen it: sent rows are only ever deleted,
\* dead-lettered and deleted ones never change.
SettledStaysSettled ==
    [][\A e \in Events :
        /\ row[e].state = "sent" => row'[e].state \in {"sent", "deleted"}
        /\ row[e].state \in {"dead_letter", "deleted"} =>
               row'[e].state = row[e].state]_row

\* Whatever the dispatchers do, the outbox behaves as a relay of jobs that
\* owes each accepted build, settles it once, only after publishing it, and
\* publishes it at most maxOutboxPublishAttempts times.
RelayStatus ==
    [e \in Events |-> IF row[e].state \in Live THEN "owed" ELSE row[e].state]
R == INSTANCE Relay WITH Jobs <- Events, MaxCopies <- MaxAttempts,
                         status <- RelayStatus, published <- copies
ImplementsRelay == R!Spec

\* An accepted row does not stay claimed or waiting for ever: it is sent,
\* dead-lettered, or it has used every attempt.  This is what the poll, the
\* lease and the reconciliation owe to each accepted build.
Exhausted(e) == row[e].state = "pending" /\ row[e].attempts = MaxAttempts
EventuallySettled ==
    \A e \in Events :
        row[e].state \in Live ~>
            (Exhausted(e) \/ row[e].state \in {"sent", "deleted", "dead_letter"})

\* The comment on ResetStuckPublishing: after a reset "the normal
\* retry/dead-letter policy still applies", so a pending row can be claimed.
ResetKeepsRetryPolicy ==
    \A e \in Events : row[e].state = "pending" => row[e].attempts < MaxAttempts

=============================================================================
