-------------------------- MODULE MCMeshSimulator ---------------------------
(***************************************************************************)
(* MeshSimulator for TLC: the sender's phone, a stranger's and the bridge, *)
(* with two rounds of gossip and a reset at once, and the stranger's phone *)
(* killed at any moment.  The flushes run in MCMeshPayments.               *)
(***************************************************************************)
EXTENDS MeshSimulator

CONSTANTS alice, stranger, bridge

MCSeeded == <<alice, stranger, bridge>>
=============================================================================
