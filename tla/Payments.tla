------------------------------ MODULE Payments ------------------------------
(***************************************************************************)
(* The data of the payment backend (app/): what a packet decrypts to, and  *)
(* what moving its amount does to the account balances.                    *)
(*                                                                         *)
(* A packet is identified by its ciphertext.  The idempotency key and the  *)
(* key of the transaction store are both the SHA-256 of the ciphertext, so *)
(* distinct packets have distinct keys and one packet has one key however  *)
(* many bridges deliver it; the packetId, which intermediates may rewrite, *)
(* plays no part in settlement.                                            *)
(***************************************************************************)
EXTENDS Integers, FiniteSetsExt

CONSTANTS
    Packets,      \* ciphertexts that bridges may deliver
    Accounts,     \* the VPAs that have an account
    Instruction,  \* what each ciphertext decrypts to
    InitBalance   \* balance of each account when the server starts

(***************************************************************************)
(* kind "malformed": a body with no ciphertext, which raises before it can *)
(* be hashed; "junk": a ciphertext the server's key does not open (another *)
(* server's packet, a damaged one, an ack); "payment": an instruction.     *)
(* An instruction that lacks a field raises as one with an unknown VPA     *)
(* does: after the claim, before anything else changes.                    *)
(***************************************************************************)
Kinds == {"malformed", "junk", "payment"}

\* "none": no ackKey in the instruction; "bad": one that is not an AES key.
AckKeys == {"none", "bad", "good"}

ASSUME InstructionAssumption ==
    \A p \in Packets :
        /\ Instruction[p].kind \in Kinds
        /\ Instruction[p].amount \in Int
        /\ Instruction[p].signedAt \in Int
        /\ Instruction[p].ackKey \in AckKeys

ASSUME BalanceAssumption == InitBalance \in [Accounts -> Nat]

ASSUME AccountsAssumption == IsFiniteSet(Accounts)

Amount(p)   == Instruction[p].amount
Sender(p)   == Instruction[p].sender
Receiver(p) == Instruction[p].receiver

\* settle() raises for any other instruction.
Payable(p) ==
    /\ Sender(p) \in Accounts
    /\ Receiver(p) \in Accounts
    /\ Amount(p) > 0

\* The two assignments of a transfer, each on the balances it finds.
DebitSender(bal, p)    == [bal EXCEPT ![Sender(p)] = @ - Amount(p)]
CreditReceiver(bal, p) == [bal EXCEPT ![Receiver(p)] = @ + Amount(p)]

\* What a set of settled packets makes of the balance of account a.
NetOf(settled, a) ==
      MapThenSumSet(Amount, {p \in settled : Receiver(p) = a})
    - MapThenSumSet(Amount, {p \in settled : Sender(p) = a})
=============================================================================
