------------------------------ MODULE Service ------------------------------
(***************************************************************************)
(* What the service promises the owner of a deployment, whatever queues,   *)
(* workers and the server do on the way.  Only an accepted build is        *)
(* tried, and an attempt is let in only while no outcome is shown (it may  *)
(* fetch the repository and finish later); what an attempt finishes, or    *)
(* that it failed, is remembered; success is shown of a build that was     *)
(* finished, cancellation of one that failed MaxRetries times, and the     *)
(* first outcome shown is the last.                                        *)
(* Module Pipeline is shown to implement it.                               *)
(***************************************************************************)
EXTENDS Integers

CONSTANTS Deployments, Workers, MaxRetries

VARIABLES
    accepted,       \* deployments somebody asked for
    trying,         \* workers let in to fetch and build each deployment
    built,          \* deployments some attempt finished
    failures,       \* failed attempts, counted to MaxRetries
    status          \* what the owner is shown

vars == <<accepted, trying, built, failures, status>>

Outcomes == {"success", "canceled"}

Init ==
    /\ accepted = {}
    /\ trying = [d \in Deployments |-> {}]
    /\ built = {}
    /\ failures = [d \in Deployments |-> 0]
    /\ status = [d \in Deployments |-> "pending"]

Accept(d) ==
    /\ accepted' = accepted \cup {d}
    /\ UNCHANGED <<trying, built, failures, status>>

\* The attempt is let in.
Try(d, w) ==
    /\ d \in accepted
    /\ status[d] \notin Outcomes
    /\ trying' = [trying EXCEPT ![d] = @ \cup {w}]
    /\ UNCHANGED <<accepted, built, failures, status>>

Leaves(d, w) == trying' = [trying EXCEPT ![d] = @ \ {w}]

\* An attempt is over: its image is built and stored, ...
Finish(d, w) ==
    /\ w \in trying[d]
    /\ Leaves(d, w)
    /\ built' = built \cup {d}
    /\ UNCHANGED <<accepted, failures, status>>

\* ... or it failed, perhaps before it could try or after it was finished ...
Fail(d, w) ==
    /\ d \in accepted
    /\ Leaves(d, w)
    /\ failures' = [failures EXCEPT ![d] = IF @ = MaxRetries THEN @ ELSE @ + 1]
    /\ UNCHANGED <<accepted, built, status>>

\* ... or it was broken off, and counts for nothing.
BreakOff(d, w) ==
    /\ w \in trying[d]
    /\ Leaves(d, w)
    /\ UNCHANGED <<accepted, built, failures, status>>

Earned(d, s) ==
    CASE s = "building" -> d \in accepted
      [] s = "success"  -> d \in built
      [] s = "canceled" -> failures[d] = MaxRetries

Show(d, s) ==
    /\ status[d] \notin Outcomes
    /\ Earned(d, s)
    /\ status' = [status EXCEPT ![d] = s]
    /\ UNCHANGED <<accepted, trying, built, failures>>

Next ==
    \E d \in Deployments :
        \/ Accept(d)
        \/ \E w \in Workers :
              Try(d, w) \/ Finish(d, w) \/ Fail(d, w) \/ BreakOff(d, w)
        \/ \E s \in {"building"} \cup Outcomes : Show(d, s)

Spec == Init /\ [][Next]_vars
=============================================================================
