---------------------------- MODULE StatusProofs ----------------------------
(***************************************************************************)
(* Proofs about StatusConsumer for any deployments, servers, prefetch and  *)
(* number of attempts.  The invariant says what a server knows about the   *)
(* report in its hand: it is the oldest one its channel has not answered,  *)
(* and the verdict on it is backed by the table.                           *)
(***************************************************************************)
EXTENDS StatusConsumer, SequenceTheorems, TLAPS

USE StatusConsumerAssumption

HandInv ==
    \A s \in Servers :
        /\ session[s] # "open" => unacked[s] = <<>>
        /\ message[s] # 0 /\ session[s] = "open" => unacked[s] # <<>>
        /\ message[s] # 0 /\ unacked[s] # <<>> => message[s] = Head(unacked[s])
        /\ message[s] = 0 => result[s] = "none"
        /\ result[s] = "none" => tries[s] < MaxApplyAttempts

\* A verdict once reached stays justified.
VerdictInv ==
    \A s \in Servers :
        /\ result[s] = "applied" => message[s] \in applied
        /\ result[s] = "failed" => message[s] \in exhausted
        /\ result[s] = "refused" => ~Applicable(log[message[s]])

IInv == /\ TypeOK /\ HandInv /\ VerdictInv
        /\ NothingIsLost /\ DeadLettersAreUnfit

-----------------------------------------------------------------------------
(* Types.                                                                  *)

LEMMA Actions ==
    ASSUME Next
    PROVE  \/ \E d \in Deployments \cup Unknown, st \in Reportable :
                  Publish(d, st)
           \/ \E s \in Servers :
                  \/ OpenSession(s) \/ Deliver(s) \/ Take(s) \/ Apply(s)
                  \/ Refuse(s) \/ ApplyError(s) \/ Ack(s) \/ DeadLetter(s)
                  \/ ChannelLost(s) \/ ConnectionLost(s) \/ Stop(s)
                  \/ Restart(s)
BY DEF Next, Consumer, Handle

\* Only a publication changes the log, and it changes no status.
LEMMA LogSteps ==
    ASSUME [Next]_vars
    PROVE  \/ log' = log
           \/ /\ UNCHANGED status
              /\ \E d \in Deployments \cup Unknown, st \in Reportable :
                    Publish(d, st)
<1>1. CASE UNCHANGED vars
    BY <1>1 DEF vars, brokerVars
<1>2. CASE Next
    BY <1>2, Actions DEF Publish, OpenSession, Deliver, Take, Apply, Refuse,
       ApplyError, Ack, DeadLetter, Settle, ChannelLost, ConnectionLost, Stop,
       Restart, brokerVars, tableVars
<1> QED BY <1>1, <1>2

\* Published reports stay where they are in the log.
LEMMA LogGrows ==
    ASSUME TypeOK, [Next]_vars
    PROVE  /\ Len(log) \in Nat /\ Len(log') \in Nat
           /\ Indices \subseteq Indices'
           /\ \A i \in Indices : log'[i] = log[i] /\ log[i] \in Reports
<1>1. Len(log) \in Nat /\ \A i \in Indices : log[i] \in Reports
    BY LenProperties, ElementOfSeq DEF TypeOK, Indices
<1>2. ASSUME NEW d \in Deployments \cup Unknown, NEW st \in Reportable,
             Publish(d, st)
      PROVE  /\ Len(log') = Len(log) + 1
             /\ \A i \in Indices : log'[i] = log[i]
    <2>1. [deployment |-> d, status |-> st] \in Reports
        BY DEF Reports
    <2> QED BY <1>2, <2>1, AppendProperties DEF Publish, TypeOK, Indices
<1>3. CASE log' = log
    BY <1>1, <1>3 DEF Indices
<1> QED BY <1>1, <1>2, <1>3, LogSteps DEF Indices

LEMMA TypeInit == Init => TypeOK
<1> SUFFICES ASSUME Init PROVE TypeOK
    OBVIOUS
<1>1. log \in Seq(Reports) /\ queue \in Seq(Indices)
    BY EmptySeq DEF Init
<1>2. unacked \in [Servers -> Seq(Indices)]
    BY EmptySeq DEF Init
<1> QED BY <1>1, <1>2 DEF Init, TypeOK, Outcomes

\* The end of a session is well typed.
LEMMA SessionEnds ==
    ASSUME TypeOK, NEW s \in Servers, NEW to \in {"stopped", "closed", "disconnected"},
           EndSession(s, to), log' = log
    PROVE  /\ queue' \in Seq(Indices')
           /\ unacked' \in [Servers -> Seq(Indices')]
           /\ session' \in [Servers -> {"stopped", "closed", "open", "disconnected"}]
<1>1. Indices' = Indices
    BY DEF Indices
<1>2. unacked[s] \o queue \in Seq(Indices)
    BY ConcatProperties DEF TypeOK
<1>3. [unacked EXCEPT ![s] = <<>>] \in [Servers -> Seq(Indices)]
    BY EmptySeq DEF TypeOK
<1> QED BY <1>1, <1>2, <1>3 DEF EndSession, TypeOK

\* So is the answer to the broker.
LEMMA Settles ==
    ASSUME TypeOK, NEW s \in Servers, Settle(s)
    PROVE  /\ unacked' \in [Servers -> Seq(Indices)]
           /\ message' \in [Servers -> Indices \cup {0}]
           /\ tries' \in [Servers -> 0..MaxApplyAttempts]
           /\ result' \in [Servers -> {"none", "applied", "refused", "failed"}]
<1>1. (IF unacked[s] = <<>> THEN unacked[s] ELSE Tail(unacked[s]))
          \in Seq(Indices)
    BY HeadTailProperties DEF TypeOK
<1> QED BY <1>1 DEF Settle, NothingInHand, TypeOK

LEMMA TypeStep == TypeOK /\ HandInv /\ [Next]_vars => TypeOK'
<1> SUFFICES ASSUME TypeOK, HandInv, [Next]_vars PROVE TypeOK'
    OBVIOUS
<1> USE DEF brokerVars, handlerVars, tableVars, Fault
<1>1. CASE UNCHANGED vars
    BY <1>1 DEF TypeOK, vars, Indices
<1>2. ASSUME NEW d \in Deployments \cup Unknown, NEW st \in Reportable,
             Publish(d, st)
      PROVE  TypeOK'
    <2>1. log' \in Seq(Reports) /\ Len(log') = Len(log) + 1
        <3>1. [deployment |-> d, status |-> st] \in Reports
            BY DEF Reports
        <3> QED BY <1>2, <3>1, AppendProperties DEF Publish, TypeOK
    <2>2. Indices \subseteq Indices' /\ Len(log) + 1 \in Indices'
        BY <2>1, LogGrows DEF Indices
    <2>3. queue' \in Seq(Indices')
        <3>1. queue \in Seq(Indices')
            BY <2>2, SeqMonotonic DEF TypeOK
        <3> QED BY <1>2, <2>2, <3>1, AppendProperties DEF Publish
    <2>4. unacked' \in [Servers -> Seq(Indices')]
        <3>1. \A s \in Servers : unacked[s] \in Seq(Indices')
            BY <2>2, SeqMonotonic DEF TypeOK
        <3> QED BY <1>2, <3>1 DEF Publish, TypeOK
    <2> QED BY <1>2, <2>1, <2>2, <2>3, <2>4 DEF Publish, TypeOK
<1> SUFFICES ASSUME NEW s \in Servers,
                    \/ OpenSession(s) \/ Deliver(s) \/ Take(s) \/ Apply(s)
                    \/ Refuse(s) \/ ApplyError(s) \/ Ack(s) \/ DeadLetter(s)
                    \/ ChannelLost(s) \/ ConnectionLost(s) \/ Stop(s)
                    \/ Restart(s),
                    log' = log, Indices' = Indices
             PROVE  TypeOK'
    BY <1>1, <1>2, Actions DEF OpenSession, Deliver, Take, Apply, Refuse,
       ApplyError, Ack, DeadLetter, Settle, ChannelLost, ConnectionLost, Stop,
       Restart, Indices
<1>3. CASE OpenSession(s) \/ Restart(s)
    BY <1>3 DEF OpenSession, Restart, TypeOK
<1>4. CASE Deliver(s)
    <2>1. /\ Tail(queue) \in Seq(Indices)
          /\ Append(unacked[s], Head(queue)) \in Seq(Indices)
        BY <1>4, HeadTailProperties, AppendProperties DEF Deliver, TypeOK
    <2>2. unacked' \in [Servers -> Seq(Indices)]
        BY <1>4, <2>1 DEF Deliver, TypeOK
    <2> QED BY <1>4, <2>1, <2>2 DEF Deliver, TypeOK
<1>5. CASE Take(s)
    <2>1. Head(unacked[s]) \in Indices
        BY <1>5, HeadTailProperties DEF Take, TypeOK
    <2> QED BY <1>5, <2>1 DEF Take, TypeOK
<1>6. ASSUME Handling(s), Commit(s)
      PROVE  /\ status' \in [Deployments -> {"pending", "building"} \cup Outcomes]
             /\ applied' \subseteq Indices
    <2>1. message[s] \in Indices /\ log[message[s]] \in Reports
        BY <1>6, LogGrows DEF Handling, TypeOK
    <2>2. log[message[s]].status \in {"building"} \cup Outcomes
        BY <1>6, <2>1 DEF Commit, Applicable, Reports, Reportable, Outcomes
    <2> QED BY <1>6, <2>1, <2>2 DEF Commit, TypeOK
<1>7. CASE Apply(s)
    BY <1>6, <1>7 DEF Apply, TypeOK
<1>8. CASE Refuse(s)
    BY <1>8 DEF Refuse, TypeOK
<1>9. CASE ApplyError(s)
    <2>1. /\ status' \in [Deployments -> {"pending", "building"} \cup Outcomes]
          /\ applied' \subseteq Indices
        BY <1>6, <1>9 DEF ApplyError, TypeOK
    <2>2. tries[s] < MaxApplyAttempts /\ message[s] \in Indices
        BY <1>9 DEF ApplyError, Handling, HandInv, TypeOK
    <2>3. tries' \in [Servers -> 0..MaxApplyAttempts]
        BY <1>9, <2>2 DEF ApplyError, TypeOK
    <2>4. /\ result' \in [Servers -> {"none", "applied", "refused", "failed"}]
          /\ exhausted' \subseteq Indices
        BY <1>9, <2>2 DEF ApplyError, TypeOK
    <2> QED BY <1>9, <2>1, <2>3, <2>4 DEF ApplyError, TypeOK
<1>10. CASE Ack(s)
    BY <1>10, Settles DEF Ack, Settle, TypeOK
<1>11. CASE DeadLetter(s)
    <2>1. message[s] \in Indices
        BY <1>11 DEF DeadLetter, HandInv, TypeOK
    <2> QED BY <1>11, <2>1, Settles DEF DeadLetter, Settle, TypeOK
<1>12. CASE ChannelLost(s) \/ ConnectionLost(s)
    BY <1>12, SessionEnds DEF ChannelLost, ConnectionLost, TypeOK
<1>13. CASE Stop(s)
    BY <1>13, SessionEnds DEF Stop, NothingInHand, TypeOK
<1> QED
    BY <1>3, <1>4, <1>5, <1>7, <1>8, <1>9, <1>10, <1>11, <1>12, <1>13

-----------------------------------------------------------------------------
(* What a server knows of the report in its hand.                          *)

LEMMA HandStep == TypeOK /\ HandInv /\ [Next]_vars => HandInv'
<1> SUFFICES ASSUME TypeOK, HandInv, [Next]_vars, NEW c \in Servers
             PROVE
               /\ session'[c] # "open" => unacked'[c] = <<>>
               /\ message'[c] # 0 /\ session'[c] = "open" =>
                      unacked'[c] # <<>>
               /\ message'[c] # 0 /\ unacked'[c] # <<>> =>
                      message'[c] = Head(unacked'[c])
               /\ message'[c] = 0 => result'[c] = "none"
               /\ result'[c] = "none" => tries'[c] < MaxApplyAttempts
    BY DEF HandInv
<1> USE DEF brokerVars, handlerVars, tableVars
<1>1. CASE UNCHANGED <<session, unacked, message, result, tries>>
    BY <1>1 DEF HandInv
<1>2. CASE UNCHANGED vars
    BY <1>1, <1>2 DEF vars
<1>3. ASSUME NEW d \in Deployments \cup Unknown, NEW st \in Reportable,
             Publish(d, st)
      PROVE  UNCHANGED <<session, unacked, message, result, tries>>
    BY <1>3 DEF Publish
<1> SUFFICES ASSUME NEW s \in Servers,
                    \/ OpenSession(s) \/ Deliver(s) \/ Take(s) \/ Apply(s)
                    \/ Refuse(s) \/ ApplyError(s) \/ Ack(s) \/ DeadLetter(s)
                    \/ ChannelLost(s) \/ ConnectionLost(s) \/ Stop(s)
                    \/ Restart(s)
             PROVE
               /\ session'[c] # "open" => unacked'[c] = <<>>
               /\ message'[c] # 0 /\ session'[c] = "open" =>
                      unacked'[c] # <<>>
               /\ message'[c] # 0 /\ unacked'[c] # <<>> =>
                      message'[c] = Head(unacked'[c])
               /\ message'[c] = 0 => result'[c] = "none"
               /\ result'[c] = "none" => tries'[c] < MaxApplyAttempts
    BY <1>1, <1>2, <1>3, Actions
<1>4. CASE OpenSession(s) \/ Restart(s)
    BY <1>4 DEF OpenSession, Restart, TypeOK, HandInv
<1>5. CASE Deliver(s)
    <2>1. queue # <<>> /\ Head(queue) \in Indices
        BY <1>5, HeadTailProperties DEF Deliver, TypeOK
    <2>2. unacked[s] # <<>> =>
              Head(Append(unacked[s], Head(queue))) = Head(unacked[s])
        BY <2>1, HeadTailAppend DEF TypeOK
    <2>3. CASE message[s] = 0 \/ c # s
        BY <1>5, <2>3 DEF Deliver, TypeOK, HandInv
    <2>4. CASE message[s] # 0 /\ unacked[s] # <<>>
        <3>1. unacked'[s] # <<>>
            BY <1>5, <2>1, AppendProperties DEF Deliver, TypeOK
        <3> QED BY <1>5, <2>2, <2>4, <3>1 DEF Deliver, TypeOK, HandInv
    <2>5. message[s] # 0 => unacked[s] # <<>>
        BY <1>5 DEF Deliver, HandInv
    <2> QED BY <2>3, <2>4, <2>5
<1>6. CASE Take(s)
    BY <1>6 DEF Take, TypeOK, HandInv
<1>7. CASE Apply(s) \/ Refuse(s)
    BY <1>7 DEF Apply, Refuse, Commit, Handling, TypeOK, HandInv
<1>8. CASE ApplyError(s)
    BY <1>8 DEF ApplyError, Handling, TypeOK, HandInv
<1>9. CASE Ack(s) \/ DeadLetter(s)
    BY <1>9 DEF Ack, DeadLetter, Settle, NothingInHand, TypeOK, HandInv
<1>10. CASE ChannelLost(s) \/ ConnectionLost(s)
    BY <1>10 DEF ChannelLost, ConnectionLost, EndSession, TypeOK, HandInv
<1>11. CASE Stop(s)
    BY <1>11 DEF Stop, EndSession, NothingInHand, TypeOK, HandInv
<1> QED BY <1>4, <1>5, <1>6, <1>7, <1>8, <1>9, <1>10, <1>11

-----------------------------------------------------------------------------
(* Outcomes are final, and so are verdicts.                                *)

\* Every change of the table is a commit.
LEMMA TableSteps ==
    ASSUME [Next]_vars
    PROVE  \/ UNCHANGED <<status, applied>>
           \/ \E s \in Servers : Handling(s) /\ Commit(s) /\ log' = log
<1> USE DEF vars, brokerVars, handlerVars, tableVars
<1>1. CASE UNCHANGED vars
    BY <1>1
<1>2. ASSUME NEW s \in Servers, Apply(s)
      PROVE  Handling(s) /\ Commit(s) /\ log' = log
    BY <1>2 DEF Apply
<1>3. ASSUME NEW s \in Servers, ApplyError(s)
      PROVE  \/ UNCHANGED <<status, applied>>
             \/ Handling(s) /\ Commit(s) /\ log' = log
    BY <1>3 DEF ApplyError
<1>4. CASE Next
    BY <1>2, <1>3, <1>4, Actions DEF Publish, OpenSession, Deliver, Take,
       Refuse, Ack, DeadLetter, Settle, ChannelLost, ConnectionLost, Stop,
       Restart
<1> QED BY <1>1, <1>4

LEMMA OutcomesStay ==
    ASSUME TypeOK, [Next]_vars, NEW d \in Deployments, status[d] \in Outcomes
    PROVE  status'[d] = status[d]
<1>1. ASSUME NEW s \in Servers, Commit(s)
      PROVE  status'[d] = status[d]
    BY <1>1 DEF Commit, Applicable, TypeOK
<1> QED BY <1>1, TableSteps

LEMMA UnfitStays ==
    ASSUME TypeOK, [Next]_vars, NEW i \in Indices, ~Applicable(log[i])
    PROVE  ~Applicable(log[i])'
<1>1. log'[i] = log[i]
    BY LogGrows
<1> QED BY <1>1, OutcomesStay DEF Applicable

LEMMA VerdictStep ==
    TypeOK /\ HandInv /\ VerdictInv /\ [Next]_vars => VerdictInv'
<1> SUFFICES ASSUME TypeOK, HandInv, VerdictInv, [Next]_vars,
                    NEW c \in Servers
             PROVE  /\ result'[c] = "applied" => message'[c] \in applied'
                    /\ result'[c] = "failed" => message'[c] \in exhausted'
                    /\ result'[c] = "refused" =>
                           ~Applicable(log[message[c]])'
    BY DEF VerdictInv
<1> USE DEF brokerVars, handlerVars, tableVars
<1>1. applied \subseteq applied' /\ exhausted \subseteq exhausted'
    <2>1. applied \subseteq applied'
        BY TableSteps DEF Commit
    <2>2. CASE UNCHANGED vars
        BY <2>2 DEF vars
    <2>3. CASE Next
        BY <2>3, Actions DEF Publish, OpenSession, Deliver, Take, Apply, Refuse,
           ApplyError, Ack, DeadLetter, Settle, ChannelLost, ConnectionLost,
           Stop, Restart, Commit
    <2> QED BY <2>1, <2>2, <2>3
<1>2. CASE message'[c] = message[c] /\ result'[c] = result[c]
    <2>1. CASE result[c] = "refused"
        <3>1. message[c] \in Indices
            BY <2>1 DEF HandInv, TypeOK
        <3> QED BY <1>2, <2>1, <3>1, UnfitStays DEF VerdictInv
    <2>2. CASE result[c] # "refused"
        BY <1>1, <1>2, <2>2 DEF VerdictInv
    <2> QED BY <2>1, <2>2
<1>3. CASE ~(message'[c] = message[c] /\ result'[c] = result[c])
    <2>1. \/ Take(c) \/ Apply(c) \/ Refuse(c) \/ ApplyError(c)
          \/ Ack(c) \/ DeadLetter(c) \/ Stop(c)
        <3>1. ~UNCHANGED <<message, result>>
            BY <1>3
        <3>2. Next
            BY <3>1 DEF vars
        <3>3. PICK s \in Servers :
                  \/ Take(s) \/ Apply(s) \/ Refuse(s) \/ ApplyError(s)
                  \/ Ack(s) \/ DeadLetter(s) \/ Stop(s)
            BY <3>1, <3>2, Actions DEF Publish, OpenSession, Deliver,
               ChannelLost, ConnectionLost, Restart
        <3>4. s = c
            BY <1>3, <3>3 DEF TypeOK, Take, Apply, Refuse, ApplyError, Ack,
               DeadLetter, Settle, NothingInHand, Stop
        <3> QED BY <3>3, <3>4
    <2>2. CASE Take(c)
        BY <2>2 DEF Take, HandInv, TypeOK
    <2>3. CASE Apply(c)
        BY <2>3 DEF Apply, Commit, Handling, TypeOK
    <2>4. CASE Refuse(c)
        <3>1. message[c] \in Indices
            BY <2>4 DEF Refuse, Handling, TypeOK
        <3> QED BY <2>4, <3>1, UnfitStays DEF Refuse, TypeOK
    <2>5. CASE ApplyError(c)
        BY <1>3, <2>5 DEF ApplyError, Handling, TypeOK
    <2>6. CASE Ack(c) \/ DeadLetter(c) \/ Stop(c)
        BY <2>6 DEF Ack, DeadLetter, Settle, Stop, NothingInHand, TypeOK
    <2> QED BY <2>1, <2>2, <2>3, <2>4, <2>5, <2>6
<1> QED BY <1>2, <1>3

\* The broker dead-letters what was refused or given up.
LEMMA DeadLetterStep ==
    TypeOK /\ HandInv /\ VerdictInv /\ DeadLettersAreUnfit /\ [Next]_vars
        => DeadLettersAreUnfit'
<1> SUFFICES ASSUME TypeOK, HandInv, VerdictInv, DeadLettersAreUnfit,
                    [Next]_vars, NEW i \in dlq' \ exhausted'
             PROVE  ~Applicable(log[i])'
    BY DEF DeadLettersAreUnfit
<1> USE DEF brokerVars, handlerVars, tableVars
<1>1. exhausted \subseteq exhausted'
      /\ (dlq' = dlq \/ \E s \in Servers : DeadLetter(s))
    <2>1. CASE UNCHANGED vars
        BY <2>1 DEF vars
    <2>2. CASE Next
        BY <2>2, Actions DEF Publish, OpenSession, Deliver, Take, Apply, Refuse,
           ApplyError, Ack, DeadLetter, Settle, ChannelLost, ConnectionLost,
           Stop, Restart
    <2> QED BY <2>1, <2>2
<1>2. CASE i \in dlq
    BY <1>1, <1>2, UnfitStays DEF DeadLettersAreUnfit, TypeOK
<1>3. CASE i \notin dlq
    <2>1. PICK s \in Servers : DeadLetter(s) /\ i = message[s]
        BY <1>1, <1>3 DEF DeadLetter
    <2>2. i \in Indices /\ ~Applicable(log[i])
        BY <1>1, <2>1 DEF DeadLetter, VerdictInv, HandInv, TypeOK
    <2> QED BY <2>2, UnfitStays
<1> QED BY <1>2, <1>3

-----------------------------------------------------------------------------
(* Where the broker keeps a report.                                        *)

\* Three moves of the broker lose nothing.
LEMMA DeliverKeeps ==
    ASSUME TypeOK, NEW s \in Servers, Deliver(s), NEW i, OnBroker(i)
    PROVE  OnBroker(i)'
<1>1. /\ Len(queue) \in Nat /\ Len(unacked[s]) \in Nat
      /\ Len(queue') = Len(queue) - 1
      /\ Len(unacked'[s]) = Len(unacked[s]) + 1
      /\ DOMAIN queue = 1..Len(queue) /\ DOMAIN queue' = 1..Len(queue')
      /\ DOMAIN unacked[s] = 1..Len(unacked[s])
      /\ DOMAIN unacked'[s] = 1..Len(unacked'[s])
      /\ \A k \in 1..Len(queue') : queue'[k] = queue[k + 1]
      /\ \A k \in 1..Len(unacked[s]) : unacked'[s][k] = unacked[s][k]
      /\ unacked'[s][Len(unacked[s]) + 1] = queue[1]
    <2>1. /\ queue \in Seq(Indices) /\ queue # <<>>
          /\ unacked[s] \in Seq(Indices)
          /\ queue' = Tail(queue)
          /\ unacked'[s] = Append(unacked[s], Head(queue))
        BY DEF Deliver, TypeOK
    <2>2. Head(queue) \in Indices /\ Tail(queue) \in Seq(Indices)
        BY <2>1, HeadTailProperties
    <2>3. Append(unacked[s], Head(queue)) \in Seq(Indices)
        BY <2>1, <2>2, AppendProperties
    <2>4. Head(queue) = queue[1]
        BY <2>1
    <2> QED BY <2>1, <2>2, <2>3, <2>4, LenProperties, HeadTailProperties,
            AppendProperties
<1>2. CASE \E k \in DOMAIN queue : queue[k] = i
    <2>1. PICK k \in 1..Len(queue) : queue[k] = i
        BY <1>1, <1>2
    <2>2. CASE k = 1
        <3>1. Len(unacked[s]) + 1 \in DOMAIN unacked'[s]
            BY <1>1
        <3> QED BY <1>1, <2>1, <2>2, <3>1 DEF OnBroker
    <2>3. CASE k # 1
        <3>1. k - 1 \in 1..Len(queue') /\ queue'[k - 1] = i
            BY <1>1, <2>1, <2>3
        <3> QED BY <1>1, <3>1 DEF OnBroker
    <2> QED BY <2>2, <2>3
<1>3. ASSUME NEW t \in Servers, NEW k \in DOMAIN unacked[t], unacked[t][k] = i
      PROVE  OnBroker(i)'
    <2>1. CASE t = s
        BY <1>1, <1>3, <2>1 DEF OnBroker
    <2>2. CASE t # s
        <3>1. unacked'[t] = unacked[t]
            BY <2>2 DEF Deliver, TypeOK
        <3> QED BY <1>3, <3>1 DEF OnBroker
    <2> QED BY <2>1, <2>2
<1> QED BY <1>2, <1>3 DEF OnBroker

LEMMA EndSessionKeeps ==
    ASSUME TypeOK, NEW s \in Servers, NEW to, EndSession(s, to),
           NEW i, OnBroker(i)
    PROVE  OnBroker(i)'
<1>1. /\ Len(queue) \in Nat /\ Len(unacked[s]) \in Nat
      /\ DOMAIN queue = 1..Len(queue)
      /\ DOMAIN unacked[s] = 1..Len(unacked[s])
      /\ DOMAIN queue' = 1..(Len(unacked[s]) + Len(queue))
      /\ \A k \in DOMAIN queue' :
             queue'[k] = IF k <= Len(unacked[s]) THEN unacked[s][k]
                         ELSE queue[k - Len(unacked[s])]
    <2>1. /\ queue \in Seq(Indices) /\ unacked[s] \in Seq(Indices)
          /\ queue' = unacked[s] \o queue
        BY DEF EndSession, TypeOK
    <2>2. queue' \in Seq(Indices)
        BY <2>1, ConcatProperties
    <2> QED BY <2>1, <2>2, LenProperties, ConcatProperties
<1>2. ASSUME NEW k \in DOMAIN queue, queue[k] = i
      PROVE  OnBroker(i)'
    <2>1. /\ k + Len(unacked[s]) \in DOMAIN queue'
          /\ queue'[k + Len(unacked[s])] = i
        <3>1. k \in 1..Len(queue) /\ k + Len(unacked[s]) \in DOMAIN queue'
            BY <1>1, <1>2
        <3>2. ~(k + Len(unacked[s]) <= Len(unacked[s]))
              /\ (k + Len(unacked[s])) - Len(unacked[s]) = k
            BY <1>1, <3>1
        <3> QED BY <1>1, <1>2, <3>1, <3>2
    <2> QED BY <2>1 DEF OnBroker
<1>3. ASSUME NEW t \in Servers, NEW k \in DOMAIN unacked[t], unacked[t][k] = i
      PROVE  OnBroker(i)'
    <2>1. CASE t = s
        <3>1. k \in DOMAIN queue' /\ queue'[k] = i
            BY <1>1, <1>3, <2>1
        <3> QED BY <3>1 DEF OnBroker
    <2>2. CASE t # s
        <3>1. unacked'[t] = unacked[t]
            BY <2>2 DEF EndSession, TypeOK
        <3> QED BY <1>3, <3>1 DEF OnBroker
    <2> QED BY <2>1, <2>2
<1> QED BY <1>2, <1>3 DEF OnBroker

\* An answer removes the report in hand and no other.
LEMMA SettleRemovesOne ==
    ASSUME TypeOK, HandInv, NEW s \in Servers, message[s] # 0, Settle(s),
           NEW i, OnBroker(i)
    PROVE  OnBroker(i)' \/ (i = message[s] /\ session[s] = "open")
<1>1. queue' = queue
    BY DEF Settle
<1>2. CASE \E k \in DOMAIN queue : queue[k] = i
    BY <1>1, <1>2 DEF OnBroker
<1>3. ASSUME NEW t \in Servers, NEW k \in DOMAIN unacked[t], unacked[t][k] = i
      PROVE  OnBroker(i)' \/ (i = message[s] /\ session[s] = "open")
    <2>1. CASE t = s
        <3>1. unacked[s] \in Seq(Indices)
            BY DEF TypeOK
        <3>2. Len(unacked[s]) \in Nat /\ k \in 1..Len(unacked[s])
            BY <1>3, <2>1, <3>1, LenProperties
        <3>3. unacked[s] # <<>>
            BY <3>2
        <3>4. unacked'[s] = Tail(unacked[s])
            BY <3>3 DEF Settle, TypeOK
        <3>5. CASE k = 1
            BY <1>3, <2>1, <3>1, <3>3, <3>5 DEF HandInv
        <3>6. CASE k # 1
            <4>1. /\ Tail(unacked[s]) \in Seq(Indices)
                  /\ Len(Tail(unacked[s])) = Len(unacked[s]) - 1
                  /\ Tail(unacked[s])[k - 1] = unacked[s][k]
                BY <3>1, <3>2, <3>3, <3>6, HeadTailProperties
            <4>2. k - 1 \in DOMAIN unacked'[s]
                BY <3>2, <3>4, <3>6, <4>1, LenProperties
            <4> QED BY <1>3, <2>1, <3>4, <4>1, <4>2 DEF OnBroker
        <3> QED BY <3>5, <3>6
    <2>2. CASE t # s
        <3>1. unacked'[t] = unacked[t]
            BY <2>2 DEF Settle, TypeOK
        <3> QED BY <1>3, <3>1 DEF OnBroker
    <2> QED BY <2>1, <2>2
<1> QED BY <1>2, <1>3 DEF OnBroker

LEMMA LostStep ==
    TypeOK /\ HandInv /\ VerdictInv /\ NothingIsLost /\ [Next]_vars
        => NothingIsLost'
<1> SUFFICES ASSUME TypeOK, HandInv, VerdictInv, NothingIsLost, [Next]_vars,
                    NEW i \in Indices'
             PROVE  OnBroker(i)' \/ i \in applied' \/ i \in dlq'
    BY DEF NothingIsLost
<1> USE DEF brokerVars, handlerVars, tableVars
<1>1. applied \subseteq applied'
    BY TableSteps DEF Commit
<1>2. dlq \subseteq dlq'
    <2>1. CASE UNCHANGED vars
        BY <2>1 DEF vars
    <2>2. CASE Next
        BY <2>2, Actions DEF Publish, OpenSession, Deliver, Take, Apply, Refuse,
           ApplyError, Ack, DeadLetter, Settle, ChannelLost, ConnectionLost,
           Stop, Restart
    <2> QED BY <2>1, <2>2
<1>3. ASSUME NEW d \in Deployments \cup Unknown, NEW st \in Reportable,
             Publish(d, st)
      PROVE  OnBroker(i)' \/ i \in applied' \/ i \in dlq'
    <2>1. /\ Len(queue) \in Nat /\ DOMAIN queue = 1..Len(queue)
          /\ DOMAIN queue' = 1..(Len(queue) + 1)
          /\ queue'[Len(queue) + 1] = Len(log) + 1
          /\ \A k \in DOMAIN queue : queue'[k] = queue[k]
        <3>1. queue \in Seq(Nat) /\ Len(log) + 1 \in Nat
            BY LogGrows, SeqMonotonic DEF TypeOK, Indices
        <3>2. queue' = Append(queue, Len(log) + 1)
            BY <1>3 DEF Publish
        <3>3. queue' \in Seq(Nat)
            BY <3>1, <3>2, AppendProperties
        <3> QED BY <3>1, <3>2, <3>3, LenProperties, AppendProperties
    <2>2. \A j : OnBroker(j) => OnBroker(j)'
        BY <1>3, <2>1 DEF OnBroker, Publish
    <2>3. CASE i \in Indices
        BY <1>1, <1>2, <2>2, <2>3 DEF NothingIsLost
    <2>4. CASE i \notin Indices
        <3>1. Len(log') = Len(log) + 1
            <4>1. [deployment |-> d, status |-> st] \in Reports
                BY DEF Reports
            <4> QED BY <1>3, <4>1, AppendProperties DEF Publish, TypeOK
        <3>2. i = Len(log) + 1
            BY <2>4, <3>1, LogGrows DEF Indices
        <3>3. Len(queue) + 1 \in DOMAIN queue'
            BY <2>1
        <3> QED BY <2>1, <3>2, <3>3 DEF OnBroker
    <2> QED BY <2>3, <2>4
<1>4. CASE UNCHANGED <<log, queue, unacked>>
    BY <1>1, <1>2, <1>4 DEF NothingIsLost, OnBroker, Indices
<1>5. ASSUME NEW s \in Servers, log' = log,
             \/ Deliver(s) \/ ChannelLost(s) \/ ConnectionLost(s) \/ Stop(s)
      PROVE  OnBroker(i)' \/ i \in applied' \/ i \in dlq'
    <2>1. \A j : OnBroker(j) => OnBroker(j)'
        BY <1>5, DeliverKeeps, EndSessionKeeps
        DEF ChannelLost, ConnectionLost, Stop
    <2> QED BY <1>1, <1>2, <1>5, <2>1 DEF NothingIsLost, Indices
<1>6. ASSUME NEW s \in Servers, log' = log, Ack(s) \/ DeadLetter(s)
      PROVE  OnBroker(i)' \/ i \in applied' \/ i \in dlq'
    <2>1. message[s] # 0 /\ Settle(s)
        BY <1>6 DEF Ack, DeadLetter, HandInv
    <2>2. session[s] = "open" =>
              message[s] \in applied \/ message[s] \in dlq'
        BY <1>6 DEF Ack, DeadLetter, VerdictInv
    <2>3. OnBroker(i) => \/ OnBroker(i)'
                         \/ i = message[s] /\ session[s] = "open"
        BY <2>1, SettleRemovesOne
    <2> QED BY <1>1, <1>2, <1>6, <2>2, <2>3 DEF NothingIsLost, Indices
<1>7. CASE UNCHANGED vars
    BY <1>4, <1>7 DEF vars
<1>8. ASSUME NEW s \in Servers,
             \/ OpenSession(s) \/ Take(s) \/ Apply(s) \/ Refuse(s)
             \/ ApplyError(s) \/ Restart(s)
      PROVE  UNCHANGED <<log, queue, unacked>>
    BY <1>8 DEF OpenSession, Take, Apply, Refuse, ApplyError, Restart
<1>9. ASSUME NEW s \in Servers,
             \/ Deliver(s) \/ Ack(s) \/ DeadLetter(s) \/ ChannelLost(s)
             \/ ConnectionLost(s) \/ Stop(s)
      PROVE  log' = log
    BY <1>9 DEF Deliver, Ack, DeadLetter, Settle, ChannelLost, ConnectionLost,
       Stop
<1> QED
    BY <1>3, <1>4, <1>5, <1>6, <1>7, <1>8, <1>9, Actions

-----------------------------------------------------------------------------
(* The refinement.                                                         *)

\* A published report is reported for its deployment.
LEMMA PublishReports ==
    ASSUME TypeOK, NEW d \in Deployments \cup Unknown, NEW st \in Reportable,
           Publish(d, st)
    PROVE  Reported' = [e \in Deployments |->
               IF e = d /\ st # "malformed" THEN Reported[e] \cup {st}
                                            ELSE Reported[e]]
<1> DEFINE r == [deployment |-> d, status |-> st]
<1>1. r \in Reports /\ log \in Seq(Reports) /\ log' = Append(log, r)
    BY DEF Reports, TypeOK, Publish
<1>2. /\ Len(log) \in Nat /\ Len(log') = Len(log) + 1
      /\ log'[Len(log) + 1] = r
      /\ \A i \in Indices : log'[i] = log[i]
    BY <1>1, LenProperties, AppendProperties DEF Indices
<1>3. Indices' = Indices \cup {Len(log) + 1} /\ Len(log) + 1 \notin Indices
    BY <1>2 DEF Indices
<1>4. ASSUME NEW e \in Deployments
      PROVE  Reported'[e] = IF e = d /\ st # "malformed"
                            THEN Reported[e] \cup {st} ELSE Reported[e]
    <2> DEFINE Of(e1) == {j \in Indices : /\ log[j].deployment = e1
                                          /\ log[j].status # "malformed"}
               New == {j \in Indices' : /\ log'[j].deployment = e
                                        /\ log'[j].status # "malformed"}
    <2>1. /\ Reported[e] = {log[i].status : i \in Of(e)}
          /\ Reported'[e] = {log'[i].status : i \in New}
        BY DEF Reported
    <2>2. New = Of(e) \cup IF e = d /\ st # "malformed" THEN {Len(log) + 1}
                                                       ELSE {}
        BY <1>2, <1>3
    <2>3. \A i \in Of(e) : log'[i].status = log[i].status
        BY <1>2
    <2>4. log'[Len(log) + 1].status = st
        BY <1>2
    <2> HIDE DEF Of, New
    <2> QED BY <2>1, <2>2, <2>3, <2>4
<1>5. Reported' = [e \in Deployments |-> Reported'[e]]
    BY DEF Reported
<1> QED BY <1>4, <1>5

\* A step of the consumer is a report, the showing of a reported status, or
\* nothing that the life cycle sees.
LEMMA RefinementStep ==
    TypeOK /\ [Next]_vars => [L!Next]_(L!vars)
<1> SUFFICES ASSUME TypeOK, [Next]_vars PROVE [L!Next]_(L!vars)
    OBVIOUS
<1>1. log' = log => Reported' = Reported
    BY DEF Reported, Indices
<1>2. ASSUME NEW d \in Deployments \cup Unknown, NEW st \in Reportable,
             Publish(d, st), UNCHANGED status
      PROVE  [L!Next]_(L!vars)
    <2>1. CASE d \in Deployments /\ st # "malformed"
        <3>1. st \in {"building"} \cup Outcomes
            BY <2>1 DEF Reportable, Outcomes
        <3>2. Reported' = [Reported EXCEPT ![d] = @ \cup {st}]
            <4>1. Reported = [e \in Deployments |-> Reported[e]]
                BY DEF Reported
            <4> QED BY <1>2, <2>1, <4>1, PublishReports
        <3>3. L!Report(d, st)
            BY <1>2, <3>2 DEF L!Report
        <3> QED BY <2>1, <3>1, <3>3 DEF L!Next
    <2>2. CASE ~(d \in Deployments /\ st # "malformed")
        <3>1. Reported' = [e \in Deployments |-> Reported[e]]
            BY <1>2, <2>2, PublishReports
        <3>2. Reported' = Reported
            BY <3>1 DEF Reported
        <3> QED BY <1>2, <3>2 DEF L!vars
    <2> QED BY <2>1, <2>2
<1>3. ASSUME NEW s \in Servers, Handling(s), Commit(s), log' = log
      PROVE  [L!Next]_(L!vars)
    <2> DEFINE d == log[message[s]].deployment
               st == log[message[s]].status
    <2>1. /\ message[s] \in Indices /\ log[message[s]] \in Reports
          /\ d \in Deployments /\ st # "malformed"
        BY <1>3, LogGrows DEF Handling, TypeOK, Commit, Applicable
    <2>2. st \in {"building"} \cup Outcomes
        BY <2>1 DEF Reports, Reportable, Outcomes
    <2>3. st \in Reported[d]
        BY <2>1 DEF Reported
    <2>4. status' = [status EXCEPT ![d] = st] /\ Reported' = Reported
        BY <1>1, <1>3 DEF Commit
    <2>5. CASE status[d] \in Outcomes
        <3>1. status[d] = st
            BY <1>3, <2>5 DEF Commit, Applicable
        <3>2. status' = status
            BY <2>1, <2>4, <3>1 DEF TypeOK
        <3> QED BY <2>4, <3>2 DEF L!vars
    <2>6. CASE status[d] \notin Outcomes
        <3>1. L!Show(d, st)
            BY <2>3, <2>4, <2>6 DEF L!Show
        <3> QED BY <2>1, <2>2, <3>1 DEF L!Next
    <2> QED BY <2>5, <2>6
<1>4. CASE log' = log /\ UNCHANGED status
    BY <1>1, <1>4 DEF L!vars
<1> QED BY <1>2, <1>3, <1>4, LogSteps, TableSteps

LEMMA InitIInv == Init => IInv
<1> SUFFICES ASSUME Init PROVE IInv
    OBVIOUS
<1>1. Indices = {}
    BY DEF Init, Indices
<1>2. HandInv /\ VerdictInv
    BY DEF Init, HandInv, VerdictInv
<1>3. NothingIsLost /\ DeadLettersAreUnfit
    BY <1>1 DEF Init, NothingIsLost, DeadLettersAreUnfit
<1> QED BY <1>2, <1>3, TypeInit DEF IInv

LEMMA StepIInv == IInv /\ [Next]_vars => IInv'
BY TypeStep, HandStep, VerdictStep, LostStep, DeadLetterStep DEF IInv

-----------------------------------------------------------------------------

\* The inductive invariant of the status consumer, for any deployments,
\* servers and limits.
THEOREM Inductive == Spec => []IInv
BY InitIInv, StepIInv, PTL DEF Spec

\* Every reachable state is well typed.
THEOREM TypeCorrect == Spec => []TypeOK
BY Inductive, PTL DEF IInv

\* handleStatusMessage acknowledges only after the commit: a report is on the
\* broker, applied or dead-lettered, whatever sessions are lost.
THEOREM ReportsAreKept == Spec => []NothingIsLost
BY Inductive, PTL DEF IInv

\* What is on deploy.status.dlq can never be applied any more, apart from
\* reports given up after repeated errors.
THEOREM RefusalsStand == Spec => []DeadLettersAreUnfit
BY Inductive, PTL DEF IInv

\* ApplyStatusUpdate never changes an outcome.
THEOREM OutcomesAreFinal == Spec => OutcomeIsFinal
<1>1. IInv /\ [Next]_vars =>
          [\A d \in Deployments :
              status[d] \in Outcomes => status'[d] = status[d]]_status
    BY OutcomesStay DEF IInv
<1> QED BY <1>1, Inductive, PTL DEF Spec, OutcomeIsFinal

\* The status consumer implements the abstract life cycle.
THEOREM ConsumerImplementsLifecycle == Spec => ImplementsLifecycle
<1>1. Init => L!Init
    BY DEF Init, L!Init, Reported, Indices
<1>2. IInv /\ [Next]_vars => [L!Next]_(L!vars)
    BY RefinementStep DEF IInv
<1> QED BY <1>1, <1>2, Inductive, PTL DEF Spec, ImplementsLifecycle, L!Spec

=============================================================================
