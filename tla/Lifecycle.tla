----------------------------- MODULE Lifecycle -----------------------------
(***************************************************************************)
(* What the API server promises about the status of a deployment: it only  *)
(* shows what a worker reported, and the first outcome it shows is final,  *)
(* however reports are repeated, delayed or reordered on the way.          *)
(***************************************************************************)
CONSTANTS Deployments,  \* recorded deployments
          Outcomes      \* statuses that end a deployment

VARIABLES status,       \* the status shown for each deployment
          reported      \* statuses reported for each deployment so far

vars == <<status, reported>>

Init == /\ status = [d \in Deployments |-> "pending"]
        /\ reported = [d \in Deployments |-> {}]

Report(d, s) == /\ reported' = [reported EXCEPT ![d] = @ \cup {s}]
                /\ UNCHANGED status

Show(d, s) == /\ s \in reported[d]
              /\ status[d] \notin Outcomes
              /\ status' = [status EXCEPT ![d] = s]
              /\ UNCHANGED reported

Next == \E d \in Deployments, s \in {"building"} \cup Outcomes :
            Report(d, s) \/ Show(d, s)

Spec == Init /\ [][Next]_vars
=============================================================================
