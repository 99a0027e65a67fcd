--------------------------- MODULE MCEventStream ----------------------------
(***************************************************************************)
(* EventStream for TLC.  The list and an answer hold two of three events,  *)
(* so that the third displaces the first, in the list, in an answer, or    *)
(* from the list that a read goes on with.                                 *)
(***************************************************************************)
EXTENDS EventStream
=============================================================================
