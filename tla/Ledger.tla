------------------------------- MODULE Ledger -------------------------------
(***************************************************************************)
(* What settlement promises, with no cache, threads, lock or clock: every  *)
(* packet gets at most one transaction, a SETTLED one moves exactly its    *)
(* amount in the same step, and it is REJECTED only for want of funds.     *)
(* BridgeIngestion implements this specification.                          *)
(***************************************************************************)
EXTENDS Payments

VARIABLES
    balance,  \* balance of each account
    tx        \* status of each packet's transaction, or "NONE"

TypeOK ==
    /\ balance \in [Accounts -> Nat]
    /\ tx \in [Packets -> {"NONE", "SETTLED", "REJECTED"}]

Init ==
    /\ balance = InitBalance
    /\ tx = [p \in Packets |-> "NONE"]

Settle(p) ==
    /\ Payable(p)
    /\ tx[p] = "NONE"
    /\ balance[Sender(p)] >= Amount(p)
    /\ balance' = CreditReceiver(DebitSender(balance, p), p)
    /\ tx' = [tx EXCEPT ![p] = "SETTLED"]

Reject(p) ==
    /\ Payable(p)
    /\ tx[p] = "NONE"
    /\ balance[Sender(p)] < Amount(p)
    /\ tx' = [tx EXCEPT ![p] = "REJECTED"]
    /\ UNCHANGED balance

Next == \E p \in Packets : Settle(p) \/ Reject(p)

Spec == Init /\ [][Next]_<<balance, tx>>
=============================================================================
