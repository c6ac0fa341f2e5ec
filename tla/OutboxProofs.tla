---------------------------- MODULE OutboxProofs ----------------------------
(***************************************************************************)
(* Proofs about Outbox for any number of events and dispatchers and any    *)
(* attempt limit.  The argument is one inductive invariant, IInv: what a   *)
(* dispatcher remembers agrees with what was published and confirmed       *)
(* (LoopInv), and each claim pays for one message (CopiesArePaidFor).      *)
(***************************************************************************)
EXTENDS Outbox, FiniteSetTheorems, TLAPS

USE OutboxAssumption

\* What a dispatcher knows in each phase of its loop.
LoopInv ==
    \A d \in Dispatchers :
        /\ phase[d] \in {"down", "idle", "reconciling"} => batch[d] = {}
        /\ phase[d] \in {"awaiting", "acked", "rejected"} =>
               current[d] \in Events
        /\ phase[d] = "acked" => current[d] \in confirmed
        /\ phase[d] = "awaiting" => copies[current[d]] > 0

\* Only a published message is confirmed, and only an accepted row claimed.
PublishedInv ==
    /\ \A e \in confirmed : copies[e] > 0
    /\ \A e \in Events : row[e].state = "absent" => row[e].attempts = 0

IInv == /\ TypeOK /\ LoopInv /\ PublishedInv
        /\ SentIsConfirmed /\ CopiesArePaidFor /\ RetryBudget

-----------------------------------------------------------------------------

\* The statements of the repository keep rows well-formed; all but the claim
\* keep the attempt count, and settle only rows that are publishing.
LEMMA RowUpdates ==
    ASSUME NEW r \in Rows, NEW now \in BOOLEAN
    PROVE  /\ r.attempts < MaxAttempts => Claimed(r) \in Rows
           /\ \A s \in {AfterSent(r), AfterFailed(r, now), AfterReset(r),
                        AfterRetention(r)} :
                  s \in Rows /\ s.attempts = r.attempts
<1> USE DEF Rows, RowStates, Live
<1>1. r.attempts < MaxAttempts => Claimed(r) \in Rows
    BY DEF Claimed
<1>2. AfterSent(r) \in Rows /\ AfterSent(r).attempts = r.attempts
    BY DEF AfterSent
<1>3. AfterFailed(r, now) \in Rows /\ AfterFailed(r, now).attempts = r.attempts
    BY DEF AfterFailed
<1>4. AfterReset(r) \in Rows /\ AfterReset(r).attempts = r.attempts
    BY DEF AfterReset
<1>5. AfterRetention(r) \in Rows /\ AfterRetention(r).attempts = r.attempts
    BY DEF AfterRetention
<1> QED BY <1>1, <1>2, <1>3, <1>4, <1>5

LEMMA HoldersFinite ==
    \A e : IsFiniteSet(Holders(e)) /\ Cardinality(Holders(e)) \in Nat
<1> TAKE e
<1>1. Holders(e) \subseteq Dispatchers  BY DEF Holders
<1> QED BY <1>1, FS_Subset, FS_CardinalityType

LEMMA TypeInit == Init => TypeOK
BY DEF Init, TypeOK, Rows, RowStates, Live, Phases

LEMMA TypeStep == TypeOK /\ LoopInv /\ [Next]_vars => TypeOK'
<1> SUFFICES ASSUME TypeOK, LoopInv, [Next]_vars PROVE TypeOK'
    OBVIOUS
<1> USE DEF TypeOK
<1>1. ASSUME NEW e \in Events, Accept(e) PROVE TypeOK'
    BY <1>1 DEF Accept, Rows, RowStates, Live
<1>2. ASSUME NEW e \in Events, TimePasses(e) PROVE TypeOK'
    <2>1. [row[e] EXCEPT !.elapsed = TRUE] \in Rows
        BY DEF Rows
    <2> QED BY <1>2, <2>1 DEF TimePasses
<1>3. ASSUME NEW d \in Dispatchers, Start(d) PROVE TypeOK'
    BY <1>3 DEF Start, Phases
<1>4. ASSUME NEW d \in Dispatchers, Stop(d) PROVE TypeOK'
    BY <1>4 DEF Stop, Phases
<1>5. ASSUME NEW d \in Dispatchers, Claim(d) PROVE TypeOK'
    <2>1. PICK S \in SUBSET {e \in Events : Claimable(e)} :
            /\ row' = [e \in Events |-> IF e \in S THEN Claimed(row[e])
                                                   ELSE row[e]]
            /\ \/ /\ phase' = [phase EXCEPT ![d] = "busy"]
                  /\ batch' = [batch EXCEPT ![d] = S]
               \/ UNCHANGED <<phase, batch>>
        BY <1>5 DEF Claim
    <2>2. \A e \in S : row[e].attempts < MaxAttempts
        BY DEF Claimable
    <2>3. row' \in [Events -> Rows]
        BY <2>1, <2>2, RowUpdates
    <2>4. phase' \in [Dispatchers -> Phases]
        BY <2>1 DEF Phases
    <2>5. batch' \in [Dispatchers -> SUBSET Events]
        BY <2>1
    <2> QED BY <1>5, <2>3, <2>4, <2>5 DEF Claim
<1>6. ASSUME NEW d \in Dispatchers, Send(d) PROVE TypeOK'
    BY <1>6 DEF Send, Phases
<1>7. ASSUME NEW d \in Dispatchers, SendFails(d) PROVE TypeOK'
    BY <1>7 DEF SendFails, Phases
<1>8. ASSUME NEW d \in Dispatchers, Ack(d) PROVE TypeOK'
    <2>1. current[d] \in Events
        BY <1>8 DEF Ack, LoopInv
    <2> QED BY <1>8, <2>1 DEF Ack, Phases
<1>9. ASSUME NEW d \in Dispatchers, ConfirmLost(d) PROVE TypeOK'
    BY <1>9 DEF ConfirmLost, Phases
<1>10. ASSUME NEW d \in Dispatchers, MarkSent(d) PROVE TypeOK'
    BY <1>10, RowUpdates DEF MarkSent, NextEvent, Phases
<1>11. ASSUME NEW d \in Dispatchers, MarkFailed(d) PROVE TypeOK'
    <2>1. \A r \in Rows : AfterFailed(r, current[d] \in Poison) \in Rows
        <3>1. (current[d] \in Poison) \in BOOLEAN
            OBVIOUS
        <3> QED BY <3>1, RowUpdates
    <2>2. row' \in [Events -> Rows]
        BY <1>11, <2>1 DEF MarkFailed
    <2> QED BY <1>11, <2>2 DEF MarkFailed, NextEvent, Phases
<1>12. ASSUME NEW d \in Dispatchers, MarkError(d) PROVE TypeOK'
    BY <1>12 DEF MarkError, NextEvent, Phases
<1>13. ASSUME NEW d \in Dispatchers, ResetStuck(d) \/ ResetError(d)
       PROVE TypeOK'
    BY <1>13, RowUpdates DEF ResetStuck, ResetError, Phases
<1>14. ASSUME NEW d \in Dispatchers, DeleteSent(d) PROVE TypeOK'
    BY <1>14, RowUpdates DEF DeleteSent, Phases
<1>15. CASE BrokerDown \/ BrokerUp
    <2>1. channel' \in [Dispatchers -> BOOLEAN]
        BY <1>15 DEF BrokerDown, BrokerUp
    <2>2. faults' \in 0..MaxFaults
        BY <1>15 DEF BrokerDown, BrokerUp
    <2> QED BY <1>15, <2>1, <2>2 DEF BrokerDown, BrokerUp
<1>16. CASE UNCHANGED vars
    BY <1>16 DEF vars
<1> QED
    BY <1>1, <1>2, <1>3, <1>4, <1>5, <1>6, <1>7, <1>8, <1>9, <1>10, <1>11,
       <1>12, <1>13, <1>14, <1>15, <1>16 DEF Next, Dispatch

-----------------------------------------------------------------------------

LEMMA LoopStep == TypeOK /\ LoopInv /\ [Next]_vars => LoopInv'
<1> SUFFICES ASSUME TypeOK, LoopInv, [Next]_vars, NEW c \in Dispatchers
             PROVE  /\ phase'[c] \in {"down", "idle", "reconciling"} =>
                           batch'[c] = {}
                    /\ phase'[c] \in {"awaiting", "acked", "rejected"} =>
                           current'[c] \in Events
                    /\ phase'[c] = "acked" => current'[c] \in confirmed'
                    /\ phase'[c] = "awaiting" => copies'[current'[c]] > 0
    BY DEF LoopInv
<1> USE DEF TypeOK, LoopInv
<1>1. CASE \E e \in Events : Accept(e) \/ TimePasses(e)
    BY <1>1 DEF Accept, TimePasses
<1>2. ASSUME NEW d \in Dispatchers, Start(d) \/ Stop(d) PROVE LoopInv'
    BY <1>2 DEF Start, Stop
<1>3. ASSUME NEW d \in Dispatchers, Claim(d) PROVE LoopInv'
    BY <1>3 DEF Claim
<1>4. ASSUME NEW d \in Dispatchers, Send(d) PROVE LoopInv'
    <2>1. PICK e \in batch[d] \ Poison :
            /\ current' = [current EXCEPT ![d] = e]
            /\ batch' = [batch EXCEPT ![d] = @ \ {e}]
            /\ copies' = [copies EXCEPT ![e] = @ + 1]
        BY <1>4 DEF Send
    <2>2. e \in Events
        OBVIOUS
    <2>3. \A x \in Events : copies'[x] >= copies[x] /\ copies'[e] > 0
        BY <2>1, <2>2
    <2> QED BY <1>4, <2>1, <2>2, <2>3 DEF Send
<1>5. ASSUME NEW d \in Dispatchers, SendFails(d) PROVE LoopInv'
    BY <1>5 DEF SendFails
<1>6. ASSUME NEW d \in Dispatchers, Ack(d) \/ ConfirmLost(d) PROVE LoopInv'
    BY <1>6 DEF Ack, ConfirmLost
<1>7. ASSUME NEW d \in Dispatchers, MarkSent(d) \/ MarkFailed(d) \/ MarkError(d)
      PROVE  LoopInv'
    BY <1>7 DEF MarkSent, MarkFailed, MarkError, NextEvent
<1>8. ASSUME NEW d \in Dispatchers,
             ResetStuck(d) \/ ResetError(d) \/ DeleteSent(d)
      PROVE  LoopInv'
    BY <1>8 DEF ResetStuck, ResetError, DeleteSent
<1>9. CASE BrokerDown \/ BrokerUp
    BY <1>9 DEF BrokerDown, BrokerUp
<1>10. CASE UNCHANGED vars
    BY <1>10 DEF vars
<1> QED
    BY <1>1, <1>2, <1>3, <1>4, <1>5, <1>6, <1>7, <1>8, <1>9, <1>10
    DEF Next, Dispatch

\* What one step can do to one row.
RowStep(e) ==
    \/ row'[e] = row[e]
    \/ row[e].state = "absent" /\ row'[e] = [state |-> "pending", attempts |-> 0,
                                             elapsed |-> TRUE]
    \/ row'[e] = [row[e] EXCEPT !.elapsed = TRUE]
    \/ Claimable(e) /\ row'[e] = Claimed(row[e])
    \/ e \in confirmed /\ row'[e] = AfterSent(row[e])
    \/ \E now \in BOOLEAN : row'[e] = AfterFailed(row[e], now)
    \/ row'[e] = AfterReset(row[e])
    \/ row'[e] = AfterRetention(row[e])

LEMMA RowSteps ==
    TypeOK /\ LoopInv /\ [Next]_vars => \A e \in Events : RowStep(e)
<1> SUFFICES ASSUME TypeOK, LoopInv, [Next]_vars, NEW e \in Events
             PROVE  RowStep(e)
    OBVIOUS
<1> USE DEF TypeOK
<1>1. CASE \E x \in Events : Accept(x) \/ TimePasses(x)
    BY <1>1 DEF Accept, TimePasses, RowStep
<1>2. ASSUME NEW d \in Dispatchers, Claim(d) PROVE RowStep(e)
    BY <1>2 DEF Claim, RowStep
<1>3. ASSUME NEW d \in Dispatchers, MarkSent(d) PROVE RowStep(e)
    BY <1>3 DEF MarkSent, RowStep, LoopInv
<1>4. ASSUME NEW d \in Dispatchers, MarkFailed(d) PROVE RowStep(e)
    <2>1. (current[d] \in Poison) \in BOOLEAN
        OBVIOUS
    <2> QED BY <1>4, <2>1 DEF MarkFailed, RowStep
<1>5. ASSUME NEW d \in Dispatchers, ResetStuck(d) \/ DeleteSent(d)
      PROVE  RowStep(e)
    BY <1>5 DEF ResetStuck, DeleteSent, RowStep
<1>6. ASSUME UNCHANGED row PROVE RowStep(e)
    BY <1>6 DEF RowStep
<1> QED
    BY <1>1, <1>2, <1>3, <1>4, <1>5, <1>6
    DEF Next, Dispatch, vars, Start, Stop, Send, SendFails, Ack, ConfirmLost,
        MarkError, ResetError, BrokerDown, BrokerUp

\* What those updates mean for the states and the counts: how a row becomes
\* settled, which rows fail or are buried, and that settled rows stay so.
LEMMA RowEffects ==
    ASSUME NEW e \in Events, row[e] \in Rows, RowStep(e)
    PROVE  /\ row'[e].state = "absent" =>
                  row[e].state = "absent" /\ row'[e].attempts = row[e].attempts
           /\ row'[e].state \in {"sent", "deleted"} =>
                  e \in confirmed \/ row[e].state \in {"sent", "deleted"}
           /\ row'[e].state = "failed" =>
                  \/ row[e].state = "failed"
                     /\ row'[e].attempts = row[e].attempts
                  \/ row'[e].attempts < MaxAttempts
           /\ row'[e].state = "dead_letter" =>
                  \/ row[e].state = "dead_letter"
                     /\ row'[e].attempts = row[e].attempts
                  \/ row'[e].attempts = MaxAttempts
           /\ row[e].state = "sent" => row'[e].state \in {"sent", "deleted"}
           /\ row[e].state \in {"dead_letter", "deleted"} =>
                  row'[e].state = row[e].state
<1> USE DEF Rows
<1>1. CASE row'[e] = row[e]
    BY <1>1
<1>2. CASE row[e].state = "absent" /\ row'[e] = [state |-> "pending",
                                        attempts |-> 0, elapsed |-> TRUE]
    BY <1>2
<1>3. CASE row'[e] = [row[e] EXCEPT !.elapsed = TRUE]
    BY <1>3
<1>4. CASE Claimable(e) /\ row'[e] = Claimed(row[e])
    BY <1>4 DEF Claimable, Claimed, Live
<1>5. CASE e \in confirmed /\ row'[e] = AfterSent(row[e])
    BY <1>5 DEF AfterSent
<1>6. ASSUME NEW now \in BOOLEAN, row'[e] = AfterFailed(row[e], now)
      PROVE  /\ row[e].state = "publishing" =>
                    /\ row'[e].attempts = row[e].attempts
                    /\ row'[e].state = IF row[e].attempts >= MaxAttempts
                                       THEN "dead_letter" ELSE "failed"
             /\ row[e].state # "publishing" => row'[e] = row[e]
    BY <1>6 DEF AfterFailed
<1>7. CASE row'[e] = AfterReset(row[e])
    BY <1>7 DEF AfterReset
<1>8. CASE row'[e] = AfterRetention(row[e])
    BY <1>8 DEF AfterRetention
<1> QED
    BY <1>1, <1>2, <1>3, <1>4, <1>5, <1>6, <1>7, <1>8 DEF RowStep

\* Messages and confirmations are never taken back.
LEMMA PublishedGrows ==
    TypeOK /\ [Next]_vars =>
        /\ \A e \in Events : copies'[e] = copies[e] \/ copies'[e] = copies[e] + 1
        /\ confirmed \subseteq confirmed'
<1> SUFFICES ASSUME TypeOK, [Next]_vars
             PROVE  /\ \A e \in Events : copies'[e] = copies[e]
                                         \/ copies'[e] = copies[e] + 1
                    /\ confirmed \subseteq confirmed'
    OBVIOUS
<1> USE DEF TypeOK
<1>1. ASSUME NEW d \in Dispatchers, Send(d)
      PROVE  /\ \A e \in Events : copies'[e] = copies[e]
                                         \/ copies'[e] = copies[e] + 1
             /\ confirmed \subseteq confirmed'
    BY <1>1 DEF Send
<1>2. ASSUME NEW d \in Dispatchers, Ack(d)
      PROVE  UNCHANGED copies /\ confirmed \subseteq confirmed'
    BY <1>2 DEF Ack
<1>3. ASSUME UNCHANGED <<copies, confirmed>>
      PROVE  UNCHANGED copies /\ confirmed \subseteq confirmed'
    BY <1>3
<1> QED
    BY <1>1, <1>2, <1>3
    DEF Next, Dispatch, vars, Accept, TimePasses, Start, Stop, Claim, SendFails,
        ConfirmLost, MarkSent, MarkFailed, MarkError, NextEvent, ResetStuck,
        ResetError, DeleteSent, BrokerDown, BrokerUp

LEMMA PublishedStep ==
    TypeOK /\ LoopInv /\ PublishedInv /\ [Next]_vars => PublishedInv'
<1> SUFFICES ASSUME TypeOK, LoopInv, PublishedInv, [Next]_vars
             PROVE  PublishedInv'
    OBVIOUS
<1>1. \A e \in Events : row'[e].state = "absent" => row'[e].attempts = 0
    BY RowSteps, RowEffects DEF PublishedInv, TypeOK
<1>2. \A e \in confirmed : copies'[e] > 0
    BY PublishedGrows DEF PublishedInv, TypeOK
<1>3. ASSUME NEW d \in Dispatchers, Ack(d)
      PROVE  \A e \in confirmed' : copies'[e] > 0
    BY <1>2, <1>3 DEF Ack, LoopInv
<1>4. CASE UNCHANGED confirmed
    BY <1>1, <1>2, <1>4 DEF PublishedInv
<1> QED
    BY <1>1, <1>3, <1>4
    DEF PublishedInv, Next, Dispatch, vars, Accept, TimePasses, Start, Stop,
        Claim, Send, SendFails, ConfirmLost, MarkSent, MarkFailed, MarkError,
        NextEvent, ResetStuck, ResetError, DeleteSent, BrokerDown, BrokerUp

LEMMA SentStep ==
    TypeOK /\ LoopInv /\ PublishedInv /\ SentIsConfirmed /\ [Next]_vars =>
        SentIsConfirmed'
<1> SUFFICES ASSUME TypeOK, LoopInv, PublishedInv, SentIsConfirmed, [Next]_vars,
                    NEW e \in Events, row'[e].state \in {"sent", "deleted"}
             PROVE  e \in confirmed' /\ copies'[e] > 0
    BY DEF SentIsConfirmed
<1>1. e \in confirmed
    BY RowSteps, RowEffects DEF SentIsConfirmed, TypeOK
<1> QED BY <1>1, PublishedGrows DEF PublishedInv, TypeOK

LEMMA BudgetStep ==
    TypeOK /\ LoopInv /\ RetryBudget /\ [Next]_vars => RetryBudget'
<1> SUFFICES ASSUME TypeOK, LoopInv, RetryBudget, [Next]_vars, NEW e \in Events
             PROVE  /\ row'[e].state = "failed" => row'[e].attempts < MaxAttempts
                    /\ row'[e].state = "dead_letter" =>
                           row'[e].attempts = MaxAttempts
    BY DEF RetryBudget
<1>1. RowStep(e) /\ row[e] \in Rows
    BY RowSteps DEF TypeOK
<1> QED BY <1>1, RowEffects DEF RetryBudget

\* A step that publishes nothing, gives no dispatcher a new claim on e and
\* takes no attempt back keeps the account of e.
LEMMA AccountKept ==
    ASSUME NEW e \in Events, TypeOK, TypeOK', CopiesArePaidFor,
           copies'[e] = copies[e], Holders(e)' \subseteq Holders(e),
           row'[e].attempts >= row[e].attempts
    PROVE  copies'[e] + Cardinality(Holders(e)') <= row'[e].attempts
<1>1. IsFiniteSet(Holders(e)) /\ Cardinality(Holders(e)) \in Nat
    BY HoldersFinite
<1>2. /\ Cardinality(Holders(e)') <= Cardinality(Holders(e))
      /\ Cardinality(Holders(e)') \in Nat
    BY <1>1, FS_Subset, FS_CardinalityType
<1>3. copies[e] + Cardinality(Holders(e)) <= row[e].attempts
    BY DEF CopiesArePaidFor
<1>4. copies[e] \in Nat /\ row[e].attempts \in Nat /\ row'[e].attempts \in Nat
    BY DEF TypeOK, Rows
<1> QED BY <1>1, <1>2, <1>3, <1>4

LEMMA CopiesStep ==
    TypeOK /\ LoopInv /\ PublishedInv /\ CopiesArePaidFor /\ [Next]_vars =>
        CopiesArePaidFor'
<1> SUFFICES ASSUME TypeOK, LoopInv, PublishedInv, CopiesArePaidFor,
                    [Next]_vars, NEW e \in Events
             PROVE  copies'[e] + Cardinality(Holders(e)') <= row'[e].attempts
    BY DEF CopiesArePaidFor
<1>0. TypeOK'
    BY TypeStep
<1>1. ASSUME UNCHANGED <<copies, batch>>, row'[e].attempts >= row[e].attempts
      PROVE  copies'[e] + Cardinality(Holders(e)') <= row'[e].attempts
    BY <1>0, <1>1, AccountKept DEF Holders
<1>2. row[e] \in Rows /\ row[e].attempts \in Nat
    BY DEF TypeOK, Rows
<1>3. ASSUME NEW x \in Events, Accept(x)
      PROVE  UNCHANGED <<copies, batch>> /\ row'[e].attempts >= row[e].attempts
    BY <1>2, <1>3 DEF Accept, PublishedInv, TypeOK
<1>4. ASSUME NEW x \in Events, TimePasses(x)
      PROVE  UNCHANGED <<copies, batch>> /\ row'[e].attempts >= row[e].attempts
    BY <1>2, <1>4 DEF TimePasses, TypeOK, Rows
<1>5. ASSUME NEW d \in Dispatchers, Start(d) \/ MarkError(d) \/ ResetError(d)
                                    \/ Ack(d) \/ ConfirmLost(d)
      PROVE  UNCHANGED <<copies, batch>> /\ row'[e].attempts >= row[e].attempts
    BY <1>2, <1>5 DEF Start, MarkError, NextEvent, ResetError, Ack, ConfirmLost
<1>6. ASSUME NEW d \in Dispatchers,
             MarkSent(d) \/ MarkFailed(d) \/ ResetStuck(d) \/ DeleteSent(d)
      PROVE  UNCHANGED <<copies, batch>> /\ row'[e].attempts >= row[e].attempts
    <2>1. \A now \in BOOLEAN :
             \A s \in {AfterSent(row[e]), AfterFailed(row[e], now),
                      AfterReset(row[e]), AfterRetention(row[e])} :
                 s.attempts = row[e].attempts
        BY <1>2, RowUpdates
    <2>2. (current[d] \in Poison) \in BOOLEAN
        OBVIOUS
    <2>3. row'[e].attempts = row[e].attempts
        BY <1>6, <2>1, <2>2
        DEF MarkSent, MarkFailed, ResetStuck, DeleteSent, TypeOK
    <2> QED BY <1>2, <1>6, <2>3
            DEF MarkSent, MarkFailed, NextEvent, ResetStuck, DeleteSent
<1>7. ASSUME NEW d \in Dispatchers, Stop(d) \/ SendFails(d)
      PROVE  copies'[e] + Cardinality(Holders(e)') <= row'[e].attempts
    <2>1. UNCHANGED <<copies, row>> /\ Holders(e)' \subseteq Holders(e)
        BY <1>7 DEF Stop, SendFails, Holders, TypeOK
    <2> QED BY <1>0, <1>2, <2>1, AccountKept
<1>8. ASSUME NEW d \in Dispatchers, Claim(d)
      PROVE  copies'[e] + Cardinality(Holders(e)') <= row'[e].attempts
    <2>1. PICK S \in SUBSET {x \in Events : Claimable(x)} :
            /\ row' = [x \in Events |-> IF x \in S THEN Claimed(row[x])
                                                   ELSE row[x]]
            /\ batch' = [batch EXCEPT ![d] = S] \/ UNCHANGED batch
        BY <1>8 DEF Claim
    <2>2. UNCHANGED copies /\ batch[d] = {} /\ copies[e] \in Nat
        BY <1>8 DEF Claim, LoopInv, TypeOK
    <2>3. CASE e \in S
        <3>1. row'[e].attempts = row[e].attempts + 1
            BY <2>1, <2>3 DEF Claimed
        <3>2. Holders(e)' \subseteq Holders(e) \cup {d}
            BY <2>1 DEF Holders, TypeOK
        <3>3. /\ IsFiniteSet(Holders(e) \cup {d})
              /\ Cardinality(Holders(e) \cup {d}) \in Nat
              /\ Cardinality(Holders(e) \cup {d}) <= Cardinality(Holders(e)) + 1
            <4>1. IsFiniteSet(Holders(e)) /\ Cardinality(Holders(e)) \in Nat
                BY HoldersFinite
            <4>2. /\ IsFiniteSet(Holders(e) \cup {d})
                  /\ Cardinality(Holders(e) \cup {d}) =
                        IF d \in Holders(e) THEN Cardinality(Holders(e))
                                           ELSE Cardinality(Holders(e)) + 1
                BY <4>1, FS_AddElement
            <4> QED BY <4>1, <4>2
        <3>4. /\ Cardinality(Holders(e)') <= Cardinality(Holders(e)) + 1
              /\ Cardinality(Holders(e)') \in Nat
            <4>1. Cardinality(Holders(e)') <= Cardinality(Holders(e) \cup {d})
                BY <3>2, <3>3, FS_Subset
            <4>2. Cardinality(Holders(e)') \in Nat
                BY <3>2, <3>3, FS_Subset, FS_CardinalityType
            <4> QED BY <3>3, <4>1, <4>2, HoldersFinite
        <3>5. copies[e] + Cardinality(Holders(e)) <= row[e].attempts
            BY DEF CopiesArePaidFor
        <3>6. Cardinality(Holders(e)) \in Nat
            BY HoldersFinite
        <3> QED BY <1>2, <2>2, <3>1, <3>4, <3>5, <3>6
    <2>4. CASE e \notin S
        <3>1. row'[e] = row[e] /\ Holders(e)' \subseteq Holders(e)
            BY <2>1, <2>2, <2>4 DEF Holders, TypeOK
        <3> QED BY <1>0, <1>2, <2>2, <3>1, AccountKept
    <2> QED BY <2>3, <2>4
<1>9. ASSUME NEW d \in Dispatchers, Send(d)
      PROVE  copies'[e] + Cardinality(Holders(e)') <= row'[e].attempts
    <2>1. PICK x \in batch[d] \ Poison :
            /\ batch' = [batch EXCEPT ![d] = @ \ {x}]
            /\ copies' = [copies EXCEPT ![x] = @ + 1]
        BY <1>9 DEF Send
    <2>2. UNCHANGED row /\ copies[e] \in Nat
        BY <1>9 DEF Send, TypeOK
    <2>3. CASE e = x
        <3>1. d \in Holders(e) /\ Holders(e)' = Holders(e) \ {d}
            BY <2>1, <2>3 DEF Holders, TypeOK
        <3>2. Cardinality(Holders(e)') = Cardinality(Holders(e)) - 1
            BY <3>1, HoldersFinite, FS_RemoveElement
        <3>3. copies'[e] = copies[e] + 1
            BY <2>1, <2>3 DEF TypeOK
        <3>4. copies[e] + Cardinality(Holders(e)) <= row[e].attempts
            BY DEF CopiesArePaidFor
        <3>5. Cardinality(Holders(e)) \in Nat
            BY HoldersFinite
        <3> QED BY <1>2, <2>2, <3>2, <3>3, <3>4, <3>5
    <2>4. CASE e # x
        <3>1. copies'[e] = copies[e] /\ Holders(e)' \subseteq Holders(e)
            BY <2>1, <2>4 DEF Holders, TypeOK
        <3> QED BY <1>0, <1>2, <2>2, <3>1, AccountKept
    <2> QED BY <2>3, <2>4
<1>10. ASSUME BrokerDown \/ BrokerUp \/ UNCHANGED vars
       PROVE  UNCHANGED <<copies, batch>> /\ row'[e].attempts >= row[e].attempts
    BY <1>2, <1>10 DEF BrokerDown, BrokerUp, vars
<1> QED
    BY <1>1, <1>3, <1>4, <1>5, <1>6, <1>7, <1>8, <1>9, <1>10
    DEF Next, Dispatch

-----------------------------------------------------------------------------

LEMMA IInvInit == Init => IInv
<1> SUFFICES ASSUME Init PROVE IInv
    OBVIOUS
<1>1. TypeOK
    BY TypeInit
<1>2. \A e \in Events : Holders(e) = {}
    BY DEF Init, Holders
<1>3. CopiesArePaidFor
    <2>1. \A e \in Events : Cardinality(Holders(e)) = 0
        BY <1>2, FS_EmptySet
    <2>2. \A e \in Events : copies[e] = 0 /\ row[e].attempts = 0
        BY DEF Init
    <2> QED BY <2>1, <2>2 DEF CopiesArePaidFor
<1> QED BY <1>1, <1>3 DEF IInv, Init, LoopInv, PublishedInv, SentIsConfirmed,
                          RetryBudget

LEMMA IInvStep == IInv /\ [Next]_vars => IInv'
BY TypeStep, LoopStep, PublishedStep, SentStep, CopiesStep, BudgetStep DEF IInv

THEOREM Inductive == Spec => []IInv
BY IInvInit, IInvStep, PTL DEF Spec

\* The tables, the dispatchers and the broker always hold values of their
\* types; in particular no row is ever claimed past the attempt limit.
THEOREM TypeCorrect == Spec => []TypeOK
<1>1. IInv => TypeOK
    BY DEF IInv
<1> QED BY <1>1, Inductive, PTL

\* The critical invariant of the dispatcher: a row is marked sent, by whatever
\* dispatcher, only after the broker confirmed a message for it.
THEOREM SentRowsAreConfirmed == Spec => []SentIsConfirmed
<1>1. IInv => SentIsConfirmed
    BY DEF IInv
<1> QED BY <1>1, Inductive, PTL

\* Every message on deploy.jobs is paid for by an attempt of its row, so a
\* job is published at most maxOutboxPublishAttempts times.
THEOREM PublicationsAreBounded == Spec => []CopiesArePaidFor
<1>1. IInv => CopiesArePaidFor
    BY DEF IInv
<1> QED BY <1>1, Inductive, PTL

\* A failed row can be retried and a buried one has had every attempt.
THEOREM BudgetRespected == Spec => []RetryBudget
<1>1. IInv => RetryBudget
    BY DEF IInv
<1> QED BY <1>1, Inductive, PTL

\* A late dispatcher never reopens a row that another one settled.
THEOREM SettledForGood == Spec => SettledStaysSettled
<1>1. IInv /\ [Next]_vars =>
        [\A e \in Events :
            /\ row[e].state = "sent" => row'[e].state \in {"sent", "deleted"}
            /\ row[e].state \in {"dead_letter", "deleted"} =>
                   row'[e].state = row[e].state]_row
    BY RowSteps, RowEffects DEF IInv, TypeOK
<1> QED BY <1>1, Inductive, PTL DEF Spec, SettledStaysSettled

-----------------------------------------------------------------------------
(* The refinement of Relay.                                                *)

\* The status a row shows to the outside, and how the updates change it.
Shown(r) == IF r.state \in Live THEN "owed" ELSE r.state

LEMMA ShownUpdates ==
    ASSUME NEW r \in Rows
    PROVE  /\ Shown([r EXCEPT !.elapsed = TRUE]) = Shown(r)
           /\ r.state \in Live => Shown(Claimed(r)) = Shown(r)
           /\ Shown(AfterReset(r)) = Shown(r)
           /\ \/ Shown(AfterSent(r)) = Shown(r)
              \/ Shown(r) = "owed" /\ Shown(AfterSent(r)) = "sent"
           /\ \A now \in BOOLEAN :
                 \/ Shown(AfterFailed(r, now)) = Shown(r)
                 \/ /\ Shown(r) = "owed"
                    /\ Shown(AfterFailed(r, now)) = "dead_letter"
           /\ \/ AfterRetention(r) = r
              \/ Shown(r) = "sent" /\ Shown(AfterRetention(r)) = "deleted"
<1> USE DEF Rows, RowStates, Live
<1>1. /\ Shown([r EXCEPT !.elapsed = TRUE]) = Shown(r)
      /\ r.state \in Live => Shown(Claimed(r)) = Shown(r)
    BY DEF Shown, Claimed
<1>2. Shown(AfterReset(r)) = Shown(r)
    BY DEF Shown, AfterReset
<1>3. \/ Shown(AfterSent(r)) = Shown(r)
      \/ Shown(r) = "owed" /\ Shown(AfterSent(r)) = "sent"
    BY DEF Shown, AfterSent
<1>4. ASSUME NEW now \in BOOLEAN
      PROVE  \/ Shown(AfterFailed(r, now)) = Shown(r)
             \/ Shown(r) = "owed" /\ Shown(AfterFailed(r, now)) = "dead_letter"
    BY DEF Shown, AfterFailed
<1>5. \/ AfterRetention(r) = r
      \/ Shown(r) = "sent" /\ Shown(AfterRetention(r)) = "deleted"
    BY DEF Shown, AfterRetention
<1> QED BY <1>1, <1>2, <1>3, <1>4, <1>5

LEMMA StatusIsShown ==
    /\ RelayStatus = [e \in Events |-> Shown(row[e])]
    /\ RelayStatus' = [e \in Events |-> Shown(row'[e])]
BY DEF RelayStatus, Shown

LEMMA RelayStutters ==
    ASSUME \A e \in Events : Shown(row'[e]) = Shown(row[e]), UNCHANGED copies
    PROVE  UNCHANGED R!vars
BY StatusIsShown DEF R!vars

LEMMA RelayStep == IInv /\ [Next]_vars => [R!Next]_(R!vars)
<1> SUFFICES ASSUME IInv, [Next]_vars PROVE R!Next \/ UNCHANGED R!vars
    OBVIOUS
<1> USE DEF IInv
<1>0. /\ row \in [Events -> Rows] /\ copies \in [Events -> Nat]
      /\ RelayStatus = [e \in Events |-> Shown(row[e])]
      /\ RelayStatus' = [e \in Events |-> Shown(row'[e])]
    BY StatusIsShown DEF TypeOK
<1>1. ASSUME NEW e \in Events, Accept(e) PROVE R!Accept(e)
    <2>1. Shown(row[e]) = "absent"
        BY <1>1 DEF Accept, Shown, Live
    <2>2. RelayStatus' = [RelayStatus EXCEPT ![e] = "owed"]
        BY <1>0, <1>1 DEF Accept, Shown, Live
    <2> QED BY <1>0, <1>1, <2>1, <2>2 DEF R!Accept, Accept
<1>2. ASSUME NEW e \in Events, TimePasses(e) PROVE UNCHANGED R!vars
    BY <1>0, <1>2, ShownUpdates, RelayStutters DEF TimePasses
<1>3. ASSUME NEW d \in Dispatchers, Claim(d) PROVE UNCHANGED R!vars
    <2>1. \A e \in Events :
             row'[e] = row[e] \/ (row[e].state \in Live /\ row'[e] = Claimed(row[e]))
        BY <1>0, <1>3 DEF Claim, Claimable
    <2>2. \A e \in Events : Shown(row'[e]) = Shown(row[e])
        BY <1>0, <2>1, ShownUpdates
    <2> QED BY <1>3, <2>2, RelayStutters DEF Claim
<1>4. ASSUME NEW d \in Dispatchers, Send(d) PROVE \E e \in Events : R!Publish(e)
    <2>1. PICK e \in batch[d] \ Poison : copies' = [copies EXCEPT ![e] = @ + 1]
        BY <1>4 DEF Send
    <2>2. e \in Events /\ UNCHANGED row
        BY <1>4 DEF TypeOK, Send
    <2>3. d \in Holders(e)
        BY <2>1 DEF Holders
    <2>4. Cardinality(Holders(e)) \in Nat /\ Cardinality(Holders(e)) # 0
        BY <2>3, HoldersFinite, FS_EmptySet
    <2>5. copies[e] + Cardinality(Holders(e)) <= row[e].attempts
        BY <2>2 DEF CopiesArePaidFor
    <2>6. copies[e] \in Nat /\ row[e].attempts \in 0..MaxAttempts
        BY <1>0, <2>2 DEF Rows
    <2>7. copies[e] < MaxAttempts /\ row[e].attempts # 0
        BY <2>4, <2>5, <2>6
    <2>8. Shown(row[e]) # "absent"
        BY <2>2, <2>7 DEF PublishedInv, Shown
    <2> QED BY <1>0, <2>1, <2>2, <2>7, <2>8 DEF R!Publish
<1>5. ASSUME NEW d \in Dispatchers, MarkSent(d)
      PROVE  R!Next \/ UNCHANGED R!vars
    <2> DEFINE e == current[d]
    <2>1. e \in Events /\ copies[e] > 0
        BY <1>5 DEF MarkSent, LoopInv, PublishedInv
    <2>2. row' = [row EXCEPT ![e] = AfterSent(@)] /\ UNCHANGED copies
        BY <1>5 DEF MarkSent, NextEvent
    <2>3. CASE Shown(AfterSent(row[e])) = Shown(row[e])
        BY <1>0, <2>1, <2>2, <2>3, RelayStutters
    <2>4. CASE Shown(row[e]) = "owed" /\ Shown(AfterSent(row[e])) = "sent"
        <3>1. RelayStatus' = [RelayStatus EXCEPT ![e] = "sent"]
            BY <1>0, <2>1, <2>2, <2>4
        <3>2. R!Settle(e)
            BY <1>0, <2>1, <2>2, <2>4, <3>1 DEF R!Settle
        <3> QED BY <2>1, <3>2 DEF R!Next
    <2> QED BY <1>0, <2>1, <2>3, <2>4, ShownUpdates
<1>6. ASSUME NEW d \in Dispatchers, MarkFailed(d)
      PROVE  R!Next \/ UNCHANGED R!vars
    <2> DEFINE e == current[d]
               now == e \in Poison
    <2>1. e \in Events /\ now \in BOOLEAN
        BY <1>6 DEF MarkFailed, LoopInv
    <2>2. row' = [row EXCEPT ![e] = AfterFailed(@, now)] /\ UNCHANGED copies
        BY <1>6 DEF MarkFailed, NextEvent
    <2> HIDE DEF now
    <2>3. CASE Shown(AfterFailed(row[e], now)) = Shown(row[e])
        BY <1>0, <2>1, <2>2, <2>3, RelayStutters
    <2>4. CASE Shown(row[e]) = "owed"
               /\ Shown(AfterFailed(row[e], now)) = "dead_letter"
        <3>1. RelayStatus' = [RelayStatus EXCEPT ![e] = "dead_letter"]
            BY <1>0, <2>1, <2>2, <2>4
        <3>2. R!GiveUp(e)
            BY <1>0, <2>1, <2>2, <2>4, <3>1 DEF R!GiveUp
        <3> QED BY <2>1, <3>2 DEF R!Next
    <2> QED BY <1>0, <2>1, <2>3, <2>4, ShownUpdates
<1>7. ASSUME NEW d \in Dispatchers, ResetStuck(d) PROVE UNCHANGED R!vars
    <2>1. \A e \in Events : Shown(row'[e]) = Shown(row[e])
        BY <1>0, <1>7, ShownUpdates DEF ResetStuck
    <2> QED BY <1>7, <2>1, RelayStutters DEF ResetStuck
<1>8. ASSUME NEW d \in Dispatchers, DeleteSent(d)
      PROVE  R!Next \/ UNCHANGED R!vars
    <2>1. UNCHANGED copies
        BY <1>8 DEF DeleteSent
    <2>2. CASE UNCHANGED row
        BY <2>1, <2>2, RelayStutters
    <2>3. CASE row' = [e \in Events |-> AfterRetention(row[e])]
        <3> DEFINE S == {e \in Events : AfterRetention(row[e]) # row[e]}
        <3>1. \A e \in Events :
                 /\ e \in S => Shown(row[e]) = "sent" /\ Shown(row'[e]) = "deleted"
                 /\ e \notin S => Shown(row'[e]) = Shown(row[e])
            <4>1. \A r \in Rows :
                    \/ AfterRetention(r) = r
                    \/ Shown(r) = "sent" /\ Shown(AfterRetention(r)) = "deleted"
                BY ShownUpdates
            <4>2. \A e \in Events : row[e] \in Rows
                                    /\ row'[e] = AfterRetention(row[e])
                BY <1>0, <2>3
            <4>3. \A e \in Events : e \in S <=> AfterRetention(row[e]) # row[e]
                OBVIOUS
            <4> HIDE DEF S
            <4> QED BY <4>1, <4>2, <4>3
        <3>2. S \in SUBSET {e \in Events : RelayStatus[e] = "sent"}
            BY <1>0, <3>1
        <3>3. RelayStatus' = [e \in Events |-> IF e \in S THEN "deleted"
                                                          ELSE RelayStatus[e]]
            BY <1>0, <3>1
        <3>4. R!Forget
            BY <2>1, <3>2, <3>3 DEF R!Forget
        <3> QED BY <3>4 DEF R!Next
    <2> QED BY <1>8, <2>2, <2>3 DEF DeleteSent
<1>9. ASSUME UNCHANGED <<row, copies>> PROVE UNCHANGED R!vars
    BY <1>9, RelayStutters
<1> QED
    BY <1>1, <1>2, <1>3, <1>4, <1>5, <1>6, <1>7, <1>8, <1>9
    DEF Next, Dispatch, vars, R!Next, Start, Stop, SendFails, Ack, ConfirmLost,
        MarkError, NextEvent, ResetError, BrokerDown, BrokerUp

\* However many dispatchers run and however they fail, the outbox is a relay:
\* it owes every accepted build, settles each once and only after publishing
\* it, and publishes it at most maxOutboxPublishAttempts times.
THEOREM OutboxImplementsRelay == Spec => ImplementsRelay
<1>1. Init => R!Init
    BY DEF Init, R!Init, RelayStatus, Live
<1>2. IInv /\ [Next]_vars => [R!Next]_(R!vars)
    BY RelayStep
<1> QED BY <1>1, <1>2, Inductive, PTL DEF Spec, ImplementsRelay, R!Spec

=============================================================================
