------------------------------- MODULE Ledger -------------------------------
(***************************************************************************)
(* What the build tables promise: the builds of a project are a sequence   *)
(* to which a push or a manual request appends at most one entry, ever,    *)
(* and from which nothing is taken until the project is deleted.  A push   *)
(* starts the next revision, a manual build one there was.  A delivery     *)
(* appends only while it is open, to projects listed for it once, and it   *)
(* is opened once.  Module Builds is shown to implement it.                *)
(***************************************************************************)
EXTENDS Integers, Sequences

CONSTANTS Projects, Deliveries, Keys

VARIABLES
    kept,           \* projects that are not deleted
    ledger,         \* the builds of each project, in the order of their numbers
    revision,       \* pushes each project has had
    phase,          \* deliveries: "new", "open" or "closed"
    listed          \* projects each delivery is to build

vars == <<kept, ledger, revision, phase, listed>>

Init ==
    /\ kept = Projects
    /\ ledger = [p \in Projects |-> <<>>]
    /\ revision = [p \in Projects |-> 0]
    /\ phase = [dl \in Deliveries |-> "new"]
    /\ listed = [dl \in Deliveries |-> {}]

Open(dl) ==
    /\ phase[dl] = "new"
    /\ phase' = [phase EXCEPT ![dl] = "open"]
    /\ UNCHANGED <<kept, ledger, revision, listed>>

List(dl) ==
    /\ phase[dl] = "open"
    /\ listed[dl] = {}
    /\ \E S \in SUBSET kept : listed' = [listed EXCEPT ![dl] = S]
    /\ UNCHANGED <<kept, ledger, revision, phase>>

\* Everything is built, something failed, or the delivery was lost.
Close(dl) ==
    /\ phase[dl] # "closed"
    /\ phase' = [phase EXCEPT ![dl] = "closed"]
    /\ UNCHANGED <<kept, ledger, revision, listed>>

\* A build nobody has recorded for this origin yet.
Record(p, origin, generation) ==
    LET entries == ledger[p]
        entry == [origin |-> origin, generation |-> generation]
    IN  /\ p \in kept
        /\ \A n \in 1..Len(entries) : entries[n].origin # origin
        /\ ledger' = [ledger EXCEPT ![p] = Append(entries, entry)]

Push(p, dl) ==
    /\ phase[dl] = "open"
    /\ p \in listed[dl]
    /\ revision' = [revision EXCEPT ![p] = @ + 1]
    /\ UNCHANGED <<kept, phase, listed>>
    /\ Record(p, dl, revision[p] + 1)

Click(p, k) ==
    /\ UNCHANGED <<kept, revision, phase, listed>>
    /\ \E g \in 0..revision[p] : Record(p, k, g)

Delete(p) ==
    /\ kept' = kept \ {p}
    /\ UNCHANGED <<revision, phase, listed>>
    /\ ledger' = [ledger EXCEPT ![p] = <<>>]

Next ==
    \/ \E dl \in Deliveries : Open(dl) \/ List(dl) \/ Close(dl)
    \/ \E p \in Projects :
          \/ \E dl \in Deliveries : Push(p, dl)
          \/ \E k \in Keys : Click(p, k)
          \/ Delete(p)

Spec == Init /\ [][Next]_vars
=============================================================================
