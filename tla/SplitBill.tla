----------------------------- MODULE SplitBill ------------------------------
(***************************************************************************)
(* SplitPage.tsx: a bill split between the user and some contacts.         *)
(*                                                                         *)
(* Amounts are in paise.  The page computes with floating-point rupees and *)
(* toFixed(2): which half of an odd total is rounded up, and whether a     *)
(* difference of one paisa is more than 0.01, depend on the binary digits. *)
(***************************************************************************)
EXTENDS AuthStore, FiniteSetsExt, SequencesExt

CONSTANTS
    Friends,    \* the contacts one can add
    Me,         \* the counterparty of one's own share
    Totals,     \* what one can type as the total
    RoundedUp,  \* those of them whose half toFixed(2) rounds up
    Typed,      \* what one can type as a share
    MaxSplits   \* bound of the model: bills that are confirmed

ASSUME BillAssumption ==
    /\ Totals \subseteq Nat /\ Typed \subseteq Nat
    /\ MaxSplits \in Nat

VARIABLES
    bill,   \* the state of the page
    splits  \* bound: how many bills have been confirmed

splitVars == <<bill, splits>>

\* A field without a number in it, which parseFloat() takes for NaN.
Cleared == -1

EmptyBill == [step |-> "input", total |-> Cleared, shares |-> <<>>]

\* The nearest paisa to a part of the total: (total / parts).toFixed(2).
Rounded(total, parts) ==
    LET down == total \div parts
        rest == 2 * (total % parts)
    IN  IF rest > parts \/ (rest = parts /\ total \in RoundedUp)
        THEN down + 1 ELSE down

\* participantAmount, before the render that shows one more participant.
ShareShown ==
    IF bill.total # Cleared /\ bill.shares # <<>>
    THEN Rounded(bill.total, Len(bill.shares) + 1) ELSE 0

MyShare == ShareShown

SplitTypeOK ==
    /\ bill.step \in {"input", "confirm", "success"}
    /\ bill.total \in Totals \union {Cleared}
    /\ bill.shares \in Seq([who : Friends, amount : Nat \union {Cleared}])
    /\ Cardinality({bill.shares[i].who : i \in DOMAIN bill.shares})
         = Len(bill.shares)
    /\ splits \in 0..MaxSplits

SplitInit ==
    /\ bill = EmptyBill
    /\ splits = 0

-----------------------------------------------------------------------------

EditTotal ==
    /\ bill.step = "input"
    /\ \E total \in Totals \union {Cleared} : bill' = [bill EXCEPT !.total = total]
    /\ UNCHANGED <<authVars, splits>>

\* addParticipant(), of a contact that is not one yet.
AddParticipant(friend) ==
    /\ bill.step = "input"
    /\ \A i \in DOMAIN bill.shares : bill.shares[i].who # friend
    /\ bill' = [bill EXCEPT !.shares =
                    Append(@, [who |-> friend, amount |-> ShareShown])]
    /\ UNCHANGED <<authVars, splits>>

RemoveParticipant(i) ==
    /\ bill.step = "input"
    /\ i \in DOMAIN bill.shares
    /\ bill' = [bill EXCEPT !.shares = RemoveAt(@, i)]
    /\ UNCHANGED <<authVars, splits>>

EditShare(i) ==
    /\ bill.step = "input"
    /\ i \in DOMAIN bill.shares
    /\ \E a \in Typed \union {Cleared} : bill' = [bill EXCEPT !.shares[i].amount = a]
    /\ UNCHANGED <<authVars, splits>>

\* handleEqualSplit().
EqualSplit ==
    /\ bill.step = "input"
    /\ bill.total # Cleared /\ bill.shares # <<>>
    /\ bill' = [bill EXCEPT !.shares =
                    [i \in DOMAIN @ |-> [@[i] EXCEPT !.amount = ShareShown]]]
    /\ UNCHANGED <<authVars, splits>>

HasCleared(shares) == \E i \in DOMAIN shares : shares[i].amount = Cleared

SumOf(shares) == MapThenSumSet(LAMBDA i : shares[i].amount, DOMAIN shares)

Distance(a, b) == IF a < b THEN b - a ELSE a - b

\* Mutant of AddsUp: one's own share is forgotten.
OthersAddUp == Distance(SumOf(bill.shares), bill.total) <= 1

\* The comparison of handleSubmit().  NaN is not greater than 0.01.
AddsUp ==
    \/ HasCleared(bill.shares)
    \/ Distance(SumOf(bill.shares) + MyShare, bill.total) <= 1

\* handleSubmit() may accept: the browser has refused shares below 0.01.
SubmitBill ==
    /\ bill.step = "input"
    /\ bill.total # Cleared /\ bill.shares # <<>>
    /\ \A i \in DOMAIN bill.shares : bill.shares[i].amount # 0
    /\ AddsUp
    /\ bill' = [bill EXCEPT !.step = "confirm"]
    /\ UNCHANGED <<authVars, splits>>

BackToBill ==
    /\ bill.step = "confirm"
    /\ bill' = [bill EXCEPT !.step = "input"]
    /\ UNCHANGED <<authVars, splits>>

Share(who, amount) ==
    [type |-> "SPLIT", id |-> "none", to |-> who, amount |-> amount]

\* handleConfirm(), which never waits: one entry for each participant, and
\* one's own last.
ConfirmBill ==
    /\ bill.step = "confirm"
    /\ splits < MaxSplits
    /\ splits' = splits + 1
    /\ transactions' = WithTransactions(Append(
           [i \in DOMAIN bill.shares |->
               Share(bill.shares[i].who, bill.shares[i].amount)],
           Share(Me, MyShare)))
    /\ bill' = [bill EXCEPT !.step = "success"]
    /\ UNCHANGED <<pinHash, biometricEnabled, settings>>

\* resetForm(), by "Done".
AnotherBill ==
    /\ bill.step = "success"
    /\ bill' = EmptyBill
    /\ UNCHANGED <<authVars, splits>>

SplitStep ==
    \/ EditTotal \/ EqualSplit \/ SubmitBill \/ BackToBill
    \/ \E friend \in Friends : AddParticipant(friend)
    \/ \E i \in DOMAIN bill.shares : RemoveParticipant(i) \/ EditShare(i)
    \/ ConfirmBill \/ AnotherBill

LeaveSplit ==
    /\ bill' = EmptyBill
    /\ UNCHANGED splits

-----------------------------------------------------------------------------
(* Properties.                                                             *)

\* Whatever participants and shares came, went and were edited in which
\* order, what a confirmed bill adds to the history makes up its total to a
\* paisa, one's own share included, unless a share was left empty.
SharesAddUp ==
    [][bill.step = "confirm" /\ bill'.step = "success" =>
        LET added == SubSeq(transactions', 1, Len(bill.shares) + 1) IN
        HasCleared(added) \/ Distance(SumOf(added), bill.total) <= 1
      ]_<<authVars, splitVars>>
=============================================================================
