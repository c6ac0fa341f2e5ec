----------------------------- MODULE MCTopology -----------------------------
(***************************************************************************)
(* An instance of Topology for TLC, with the two queues of the system.     *)
(***************************************************************************)
EXTENDS Topology

CONSTANTS Jobs, Status

TwoQueues == <<Jobs, Status>>
=============================================================================
