------------------------- MODULE MCPhoneConnections -------------------------
(***************************************************************************)
(* PhoneConnections for TLC: two devices and two scans at once, so that    *)
(* attempts to one device overlap, and a source that replaces another.     *)
(***************************************************************************)
EXTENDS PhoneConnections
=============================================================================
