---------------------------- MODULE Connections ----------------------------
(***************************************************************************)
(* What the table of GitHub installations promises: an installation has    *)
(* one owner until the owner gives all installations up, and every user    *)
(* works with at most one installation, one of the user's own.  Module     *)
(* Installations is shown to implement it.                                 *)
(***************************************************************************)
CONSTANTS Users, Installations, None

VARIABLES
    owner,          \* user each installation belongs to, or None
    current         \* installations each user works with: one or none

Init ==
    /\ owner = [i \in Installations |-> None]
    /\ current = [u \in Users |-> {}]

\* A user claims an installation nobody else has, and works with it.
Claim(u, i) ==
    /\ owner[i] \in {None, u}
    /\ owner' = [owner EXCEPT ![i] = u]
    /\ current' = [current EXCEPT ![u] = {i}]

Choose(u, i) ==
    /\ owner[i] = u
    /\ current' = [current EXCEPT ![u] = {i}]
    /\ UNCHANGED owner

Disconnect(u) ==
    /\ current' = [current EXCEPT ![u] = {}]
    /\ UNCHANGED owner

Release(u) ==
    /\ owner' = [i \in Installations |-> IF owner[i] = u THEN None
                                                         ELSE owner[i]]
    /\ current' = [current EXCEPT ![u] = {}]

Next ==
    \E u \in Users :
        \/ Disconnect(u) \/ Release(u)
        \/ \E i \in Installations : Claim(u, i) \/ Choose(u, i)

Spec == Init /\ [][Next]_<<owner, current>>
=============================================================================
