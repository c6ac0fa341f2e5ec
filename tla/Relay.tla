------------------------------- MODULE Relay --------------------------------
(***************************************************************************)
(* What the outbox promises about the jobs of accepted builds, whatever    *)
(* the number of dispatchers and however they fail: a job is owed until it *)
(* is settled, it is settled as sent only if it was published, a settled   *)
(* job is never owed again, and it is published at most MaxCopies times.   *)
(***************************************************************************)
EXTENDS Integers

CONSTANTS Jobs, MaxCopies

VARIABLES
    status,     \* "absent", "owed", "sent", "dead_letter" or "deleted"
    published   \* how often the job was put on the queue

vars == <<status, published>>

Init == /\ status = [j \in Jobs |-> "absent"]
        /\ published = [j \in Jobs |-> 0]

Accept(j) == /\ status[j] = "absent"
             /\ status' = [status EXCEPT ![j] = "owed"]
             /\ UNCHANGED published

\* Mistaken variant of Publish: without a limit.
PublishWithoutLimit(j) == /\ status[j] # "absent"
                          /\ published' = [published EXCEPT ![j] = @ + 1]
                          /\ UNCHANGED status

\* A slow dispatcher may publish a job that another has settled already.
Publish(j) == /\ status[j] # "absent"
              /\ published[j] < MaxCopies
              /\ published' = [published EXCEPT ![j] = @ + 1]
              /\ UNCHANGED status

Settle(j) == /\ status[j] = "owed"
             /\ published[j] > 0
             /\ status' = [status EXCEPT ![j] = "sent"]
             /\ UNCHANGED published

GiveUp(j) == /\ status[j] = "owed"
             /\ status' = [status EXCEPT ![j] = "dead_letter"]
             /\ UNCHANGED published

Forget == /\ \E S \in SUBSET {j \in Jobs : status[j] = "sent"} :
                status' = [j \in Jobs |-> IF j \in S THEN "deleted"
                                                     ELSE status[j]]
          /\ UNCHANGED published

Next == \/ \E j \in Jobs : Accept(j) \/ Publish(j) \/ Settle(j) \/ GiveUp(j)
        \/ Forget

Spec == Init /\ [][Next]_vars

=============================================================================
