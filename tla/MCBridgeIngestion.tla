------------------------- MODULE MCBridgeIngestion --------------------------
(***************************************************************************)
(* BridgeIngestion for TLC.  Alice can pay for one of the two payments and *)
(* not for both.  The late one is signed at time 2, so it can be delivered *)
(* from time 1 (Skew) to time 3 (MaxAge): the packet whose validity comes  *)
(* nearest to the eviction of its claim.                                   *)
(***************************************************************************)
EXTENDS BridgeIngestion, TLC

CONSTANTS alice, bob, first, late, junk, stray, broken

MCAccounts == {alice, bob}

Pay(s, r, a, t, k) == [kind |-> "payment", sender |-> s, receiver |-> r,
                       amount |-> a, signedAt |-> t, ackKey |-> k]

\* A body with nothing to settle in it.
Opaque(k) == [kind |-> k, sender |-> alice, receiver |-> bob,
              amount |-> 1, signedAt |-> 0, ackKey |-> "none"]

MCInstruction ==
    first  :> Pay(alice, bob, 2, 0, "good") @@
    late   :> Pay(alice, bob, 2, 2, "bad") @@
    stray  :> Pay(alice, "nobody", 1, 1, "good") @@
    junk   :> Opaque("junk") @@
    broken :> Opaque("malformed")

MCInitBalance == alice :> 3 @@ bob :> 0
=============================================================================
