-------------------------- MODULE MCResetIngestion --------------------------
(***************************************************************************)
(* ResetIngestion for TLC.  Time hardly matters here, so it runs for two   *)
(* ticks only.  Bob has nothing: his payment is rejected before Alice's    *)
(* and could be paid after it, on a repeat.                                *)
(***************************************************************************)
EXTENDS ResetIngestion, TLC

CONSTANTS alice, bob, first, back

MCAccounts == {alice, bob}

Pay(s, r, a, t, k) == [kind |-> "payment", sender |-> s, receiver |-> r,
                       amount |-> a, signedAt |-> t, ackKey |-> k]

MCInstruction ==
    first :> Pay(alice, bob, 2, 0, "bad") @@
    back  :> Pay(bob, alice, 1, 1, "good")

MCInitBalance == alice :> 5 @@ bob :> 0
=============================================================================
