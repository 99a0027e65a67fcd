--------------------------- MODULE MCMeshPayments ---------------------------
(***************************************************************************)
(* MeshPayments for TLC: payments sent at either of two devices that both  *)
(* have internet, so that a flush uploads them twice, in parallel; one of  *)
(* the devices may be killed, and the mesh reset, at any moment.  There is *)
(* a payment to an account nobody has, and one that its sender cannot      *)
(* afford before the other payment has arrived.                            *)
(***************************************************************************)
EXTENDS MeshPayments, TLC

CONSTANTS bridge, phone, alice, bob, pay, back, stray

MCSeeded == <<bridge, phone>>

MCMessages == Packets \union Acks

Pay(from, to, amount) ==
    [kind |-> "payment", sender |-> from, receiver |-> to, amount |-> amount,
     signedAt |-> 0, ackKey |-> "good"]

MCInstruction ==
    pay :> Pay(alice, bob, 2) @@ back :> Pay(bob, alice, 1)
    @@ stray :> Pay(alice, "nobody", 1)

MCInitBalance == alice :> 5 @@ bob :> 0
=============================================================================
