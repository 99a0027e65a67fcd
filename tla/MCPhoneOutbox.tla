--------------------------- MODULE MCPhoneOutbox ----------------------------
(***************************************************************************)
(* PhoneOutbox for TLC.                                                    *)
(***************************************************************************)
EXTENDS PhoneOutbox
=============================================================================
