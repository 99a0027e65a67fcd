--------------------------- MODULE MCGoSettlement ---------------------------
(***************************************************************************)
(* GoSettlement for TLC: payments in opposite directions, so that their    *)
(* transactions may deadlock, of amounts with paise, and one that Bob can  *)
(* afford only after Alice's; or two payments of which Alice can afford    *)
(* one.                                                                    *)
(***************************************************************************)
EXTENDS GoSettlement, TLC

CONSTANTS alice, bob, there, back, dear, again, stray, short

MCAccounts == {alice, bob}

Pay(s, r, a) == [kind |-> "payment", sender |-> s, receiver |-> r,
                 amount |-> a, signedAt |-> 0, ackKey |-> "none"]

MCOpposite ==
    there :> Pay(alice, bob, 250) @@
    back  :> Pay(bob, alice, 150) @@
    dear  :> Pay(bob, alice, 300) @@
    stray :> Pay(alice, "nobody", 100) @@
    short :> [Pay(alice, bob, 100) EXCEPT !.kind = "malformed"]

MCTwice ==
    there :> Pay(alice, bob, 200) @@
    again :> Pay(alice, bob, 200)

MCInitBalance == alice :> 300 @@ bob :> 250
=============================================================================
