--------------------------- MODULE AppPagesProofs ---------------------------
(***************************************************************************)
(* What the app's pages guarantee for any people, PINs, amounts, bills and *)
(* bounds: the types of the store and of the pages, that a packet leaves   *)
(* with the PIN only, that the history tells the payments, and that the    *)
(* PIN becomes what was confirmed.                                         *)
(***************************************************************************)
EXTENDS AppPages, TLAPS, FiniteSetTheorems, SequenceTheorems

-----------------------------------------------------------------------------
(* The history.                                                            *)

\* Cutting the history keeps its newest entries, and nothing else.
LEMMA NewestKeeps ==
    ASSUME NEW S, NEW h \in Seq(S)
    PROVE  /\ Newest(h) \in Seq(S)
           /\ Len(Newest(h)) = IF Len(h) < HistoryMax THEN Len(h) ELSE HistoryMax
           /\ \A i \in 1..Len(Newest(h)) : i \in 1..Len(h) /\ Newest(h)[i] = h[i]
<1> DEFINE n == IF Len(h) < HistoryMax THEN Len(h) ELSE HistoryMax
<1>1. n \in Nat /\ n <= Len(h) /\ Len(h) \in Nat
  BY StoreAssumption
<1>2. \A i \in 1..n : h[i] \in S
  BY <1>1, ElementOfSeq
<1>3. Newest(h) = SubSeq(h, 1, n)
  BY DEF Newest
<1> HIDE DEF n
<1>4. SubSeq(h, 1, n) = [i \in 1..n |-> h[i]]
  BY <1>1
<1>5. [i \in 1..n |-> h[i]] \in Seq(S) /\ Len([i \in 1..n |-> h[i]]) = n
  BY <1>1, <1>2, IsASeq
<1> QED
  BY <1>1, <1>3, <1>4, <1>5 DEF n

\* What becomes of the history when entries are added to it, one by one.
LEMMA HistoryGrows ==
    ASSUME NEW S, transactions \in Seq(S), NEW added \in Seq(S)
    PROVE  /\ WithTransactions(added) \in Seq(S)
           /\ Len(WithTransactions(added)) =
                 IF Len(added) + Len(transactions) < HistoryMax
                 THEN Len(added) + Len(transactions) ELSE HistoryMax
           /\ \A i \in 1..Len(WithTransactions(added)) :
                 WithTransactions(added)[i] =
                    IF i <= Len(added) THEN added[Len(added) + 1 - i]
                                       ELSE transactions[i - Len(added)]
<1> DEFINE turned == [i \in 1..Len(added) |-> added[Len(added) + 1 - i]]
           all    == turned \o transactions
<1>1. Len(added) \in Nat /\ \A i \in 1..Len(added) : added[i] \in S
  BY ElementOfSeq
<1>2. turned \in Seq(S) /\ Len(turned) = Len(added)
  BY <1>1, IsASeq
<1> HIDE DEF turned
<1>3. /\ all \in Seq(S)
      /\ Len(all) = Len(added) + Len(transactions)
      /\ \A i \in 1..Len(all) : all[i] = IF i <= Len(added) THEN turned[i]
                                         ELSE transactions[i - Len(added)]
  <2>1. all \in Seq(S) /\ Len(all) = Len(turned) + Len(transactions)
    BY <1>2, ConcatProperties
  <2>2. \A i \in 1..(Len(turned) + Len(transactions)) :
           all[i] = IF i <= Len(turned) THEN turned[i]
                    ELSE transactions[i - Len(turned)]
    BY <1>2, ConcatProperties, Zenon
  <2> QED
    BY <1>2, <2>1, <2>2
<1>4. WithTransactions(added) = Newest(all)
  BY DEF WithTransactions, all, turned
<1> HIDE DEF all
<1>5. \A i \in 1..Len(Newest(all)) : i \in 1..Len(all) /\ Newest(all)[i] = all[i]
  BY <1>3, NewestKeeps
<1>6. /\ Newest(all) \in Seq(S)
      /\ Len(Newest(all)) =
            IF Len(all) < HistoryMax THEN Len(all) ELSE HistoryMax
  BY <1>3, NewestKeeps
<1>7. \A i \in 1..Len(added) : turned[i] = added[Len(added) + 1 - i]
  BY DEF turned
<1> QED
  <2>1. ASSUME NEW i \in 1..Len(Newest(all))
        PROVE  Newest(all)[i] = IF i <= Len(added) THEN added[Len(added) + 1 - i]
                                ELSE transactions[i - Len(added)]
    BY <1>1, <1>3, <1>5, <1>7
  <2> QED
    BY <1>3, <1>4, <1>6, <2>1

-----------------------------------------------------------------------------
(* Types, page by page.                                                    *)

AuthTypeOK ==
    /\ pinHash \in Pins \union {NoPin}
    /\ biometricEnabled \in BOOLEAN
    /\ settings \subseteq Keys
    /\ transactions \in Seq(Entries) /\ Len(transactions) <= HistoryMax

Forms == [step : {"input", "pin", "confirm", "success"},
          recipient : People \union {Nobody}, amount : Amounts,
          contact : People \union {Nobody}, pin : Pins \union {NoPin},
          checked : BOOLEAN]

LEMMA HistoryTypes ==
    ASSUME AuthTypeOK, NEW added \in Seq(Entries)
    PROVE  /\ WithTransactions(added) \in Seq(Entries)
           /\ Len(WithTransactions(added)) <= HistoryMax
<1>1. transactions \in Seq(Entries)
  BY DEF AuthTypeOK
<1>2. Len(added) \in Nat /\ Len(transactions) \in Nat
  BY <1>1, LenProperties
<1> QED
  BY <1>1, <1>2, HistoryGrows, StoreAssumption

\* A call of handleConfirm(), by its values.
Sends == [stage : SendStages, to : People \union {Nobody}, amount : Amounts,
          live : BOOLEAN, checked : BOOLEAN]

\* A check of the right PIN was begun by a submission of it.
SendTypeInv == SendTypeOK /\ checks.right <= entries

LEMMA SendStepType == SendTypeInv /\ SendStep => SendTypeInv'
<1> SUFFICES ASSUME SendTypeInv, SendStep PROVE SendTypeInv'
  OBVIOUS
<1> USE SendAssumption DEF SendTypeInv, SendTypeOK
<1>1. CASE EditRecipient
  BY <1>1 DEF EditRecipient
<1>2. CASE EditAmount
  BY <1>2 DEF EditAmount
<1>3. CASE SubmitPayment
  BY <1>3 DEF SubmitPayment
<1>4. CASE TypePin
  BY <1>4 DEF TypePin
<1>5. CASE SubmitPin
  <2>1. /\ sends' = sends
        /\ form' \in {form, [form EXCEPT !.checked = TRUE]}
    BY <1>5 DEF SubmitPin
  <2>2. CASE Verifies(form.pin)
    <3>1. /\ entries < MaxEntries /\ entries' = entries + 1
          /\ checks' = [checks EXCEPT !.right = @ + 1]
          /\ form' = [form EXCEPT !.checked = TRUE]
      BY <1>5, <2>2 DEF SubmitPin, Outcome
    <3>2. checks.right \in 0..MaxEntries /\ checks.right + 1 \in 0..MaxEntries
      BY <3>1
    <3>3. /\ checks' \in [right : 0..MaxEntries, wrong : 0..1]
          /\ checks'.right = checks.right + 1
      BY <3>1, <3>2
    <3>4. \A v \in BOOLEAN : [form EXCEPT !.checked = v] \in Forms
      BY DEF Forms
    <3>5. form' \in Forms
      BY <3>1, <3>4
    <3>6. entries' \in 0..MaxEntries /\ checks'.right <= entries'
      BY <3>1, <3>2, <3>3
    <3> QED
      BY <2>1, <3>3, <3>5, <3>6 DEF Forms
  <2>3. CASE ~Verifies(form.pin)
    BY <1>5, <2>1, <2>3 DEF SubmitPin, Outcome
  <2> QED
    BY <2>2, <2>3
<1>6. CASE PinChecked
  BY <1>6 DEF PinChecked
<1>7. CASE Cancel \/ GoBack
  BY <1>7 DEF Cancel, GoBack
<1>8. ASSUME NEW p \in Payments, Confirm(p) PROVE SendTypeInv'
  BY <1>8 DEF Confirm, SendStages
<1>9. CASE SendAnother
  BY <1>9 DEF SendAnother, Blank
<1> QED
  BY <1>1, <1>2, <1>3, <1>4, <1>5, <1>6, <1>7, <1>8, <1>9 DEF SendStep

LEMMA SendWorkType ==
    ASSUME SendTypeInv, NEW p \in Payments, SendWork(p) PROVE SendTypeInv'
BY DEF SendTypeInv, SendTypeOK, SendWork, Encrypted, SendDone, SendFails, SendStages

LEMMA LeaveSendType == SendTypeInv /\ LeaveSend => SendTypeInv'
<1> SUFFICES ASSUME SendTypeInv, LeaveSend PROVE SendTypeInv'
  OBVIOUS
<1> USE SendAssumption DEF SendTypeInv, SendTypeOK
<1>1. \A v \in BOOLEAN : \A p \in Payments : [sends[p] EXCEPT !.live = v] \in Sends
  BY DEF Sends
<1>2. sends' \in [Payments -> Sends]
  BY <1>1 DEF LeaveSend
<1> QED
  BY <1>2 DEF LeaveSend, Blank, NoChecks, Sends

\* A call of handlePinSubmit(), by its values.
Tasks == [will : {"none", "change", "disable"}, right : BOOLEAN,
          asked : Dialogs, live : BOOLEAN]

LEMMA PinStepType ==
    AuthTypeOK /\ PinTypeOK /\ PinStep => AuthTypeOK' /\ PinTypeOK'
<1> SUFFICES ASSUME AuthTypeOK, PinTypeOK, PinStep PROVE AuthTypeOK' /\ PinTypeOK'
  OBVIOUS
<1> USE AskingAssumption DEF AuthTypeOK, PinTypeOK, authVars, pinVars
<1>1. ASSUME NEW action \in {"change", "disable"}, OpenDialog(action)
      PROVE  AuthTypeOK' /\ PinTypeOK'
  BY <1>1 DEF OpenDialog, Closed, Dialogs, Fields
<1>2. CASE CancelDialog
  BY <1>2 DEF CancelDialog, Closed, Dialogs, Fields
<1>3. CASE TypeCurrent \/ TypeNew
  BY <1>3 DEF TypeCurrent, TypeNew, Dialogs
<1>4. ASSUME NEW t \in Submits, SubmitDialog(t) PROVE AuthTypeOK' /\ PinTypeOK'
  <2>1. dialog.action \in {"change", "disable"}
    BY DEF Dialogs
  <2> QED
    BY <1>4, <2>1 DEF SubmitDialog, PinOutcome, Verifies
<1>5. ASSUME NEW key \in Toggles, ToggleSetting(key)
      PROVE  AuthTypeOK' /\ PinTypeOK'
  BY <1>5 DEF ToggleSetting, WithSetting, Keys
<1>6. CASE EnableBiometric
  BY <1>6 DEF EnableBiometric
<1>7. CASE DisableBiometric
  BY <1>7 DEF DisableBiometric, WithSetting, Keys
<1> QED
  BY <1>1, <1>2, <1>3, <1>4, <1>5, <1>6, <1>7 DEF PinStep

LEMMA PinWorkType ==
    AuthTypeOK /\ PinTypeOK /\ PinWork => AuthTypeOK' /\ PinTypeOK'
<1> SUFFICES ASSUME AuthTypeOK, PinTypeOK, PinWork PROVE AuthTypeOK' /\ PinTypeOK'
  OBVIOUS
<1> USE AskingAssumption DEF AuthTypeOK, PinTypeOK, authVars, pinVars
<1>1. Closed \in Dialogs /\ NoTask.will = "none"
  BY DEF Closed, Dialogs, Fields, NoTask
<1>2. NoTask \in Tasks
  BY <1>1 DEF NoTask, Tasks
<1>3. ASSUME NEW t \in Submits, ChangePin(t) \/ DisablePin(t)
      PROVE  AuthTypeOK' /\ PinTypeOK'
  <2>1. pinTasks[t].asked.new \in Pins \union {NoPin}
    BY DEF Dialogs, Fields
  <2> QED
    BY <1>1, <1>2, <1>3, <2>1 DEF ChangePin, DisablePin, NewPin, EndTask,
       WithSetting, Keys, Tasks
<1>4. CASE BiometricAnswered
  BY <1>4 DEF BiometricAnswered, WithSetting, Keys
<1> QED
  BY <1>3, <1>4 DEF PinWork

LEMMA LeaveSettingsType == PinTypeOK /\ LeaveSettings => PinTypeOK'
<1> SUFFICES ASSUME PinTypeOK, LeaveSettings PROVE PinTypeOK'
  OBVIOUS
<1> USE DEF PinTypeOK
<1>1. \A v \in BOOLEAN : \A t \in Submits : [pinTasks[t] EXCEPT !.live = v] \in Tasks
  BY DEF Tasks
<1>2. pinTasks' \in [Submits -> Tasks]
  BY <1>1 DEF LeaveSettings
<1> QED
  BY <1>2 DEF LeaveSettings, Closed, Dialogs, Fields, Tasks

LEMMA RequestStepType == RequestTypeOK /\ RequestStep => RequestTypeOK'
<1> SUFFICES ASSUME RequestTypeOK, RequestStep PROVE RequestTypeOK'
  OBVIOUS
<1> USE DEF RequestTypeOK
<1>1. CASE EditRequest
  BY <1>1 DEF EditRequest
<1>2. CASE SubmitRequest \/ GenerateLink
  BY <1>2 DEF SubmitRequest, GenerateLink
<1>3. CASE AnotherRequest
  BY <1>3 DEF AnotherRequest, EmptyAsk
<1> QED
  BY <1>1, <1>2, <1>3 DEF RequestStep

-----------------------------------------------------------------------------
(* The type of a bill, of which no contact is a participant twice.         *)

Parts == [who : Friends, amount : Nat \union {Cleared}]

BillTypeInv ==
    /\ bill \in [step : {"input", "confirm", "success"},
                 total : Totals \union {Cleared}, shares : Seq(Parts)]
    /\ \A i, j \in 1..Len(bill.shares) :
          bill.shares[i].who = bill.shares[j].who => i = j
    /\ splits \in 0..MaxSplits

\* Participants that are all different are as many as the shares.
LEMMA DifferentAreCounted ==
    ASSUME NEW s \in Seq(Parts),
           \A i, j \in 1..Len(s) : s[i].who = s[j].who => i = j
    PROVE  Cardinality({s[i].who : i \in DOMAIN s}) = Len(s)
<1> DEFINE f == [i \in 1..Len(s) |-> s[i].who]
           W == {s[i].who : i \in 1..Len(s)}
<1>1. Len(s) \in Nat /\ DOMAIN s = 1..Len(s)
  BY LenProperties
<1>2. f \in [1..Len(s) -> W]
  OBVIOUS
<1>3. f \in Injection(1..Len(s), W)
  BY <1>2 DEF Injection, IsInjective
<1>4. f \in Surjection(1..Len(s), W)
  BY <1>2 DEF Surjection
<1>5. ExistsBijection(1..Len(s), W)
  BY <1>3, <1>4 DEF ExistsBijection, Bijection
<1>6. Cardinality(W) = Len(s)
  BY <1>1, <1>5, FS_CountingElements
<1> QED
  BY <1>1, <1>6

LEMMA BillTypes == BillTypeInv => SplitTypeOK
BY DifferentAreCounted DEF BillTypeInv, SplitTypeOK, Parts

LEMMA RoundedIsNat ==
    ASSUME NEW t \in Nat, NEW n \in Nat, n > 0
    PROVE  Rounded(t, n) \in Nat
<1>1. t \div n \in Nat
  OBVIOUS
<1> QED
  BY <1>1 DEF Rounded

LEMMA ShareIsNat == BillTypeInv => ShareShown \in Nat
<1> SUFFICES ASSUME BillTypeInv PROVE ShareShown \in Nat
  OBVIOUS
<1>1. Len(bill.shares) + 1 \in Nat /\ Len(bill.shares) + 1 > 0
  BY LenProperties DEF BillTypeInv
<1>2. bill.total # Cleared => bill.total \in Nat
  BY BillAssumption DEF BillTypeInv
<1> QED
  BY <1>1, <1>2, RoundedIsNat DEF ShareShown

\* A sequence without one of its elements.
LEMMA RemoveAtEffect ==
    ASSUME NEW S, NEW s \in Seq(S), NEW i \in 1..Len(s)
    PROVE  /\ RemoveAt(s, i) \in Seq(S)
           /\ Len(RemoveAt(s, i)) = Len(s) - 1
           /\ \A j \in 1..(Len(s) - 1) :
                 RemoveAt(s, i)[j] = IF j < i THEN s[j] ELSE s[j + 1]
<1>1. Len(s) \in Nat /\ \A j \in 1..Len(s) : s[j] \in S
  BY ElementOfSeq, LenProperties
<1> DEFINE left == SubSeq(s, 1, i - 1)  right == SubSeq(s, i + 1, Len(s))
<1>2. /\ left \in Seq(S) /\ Len(left) = i - 1
      /\ \A j \in 1..(i - 1) : left[j] = s[j]
  <2>1. \A j \in 1..(i - 1) : s[j] \in S
    BY <1>1
  <2>2. /\ left \in Seq(S)
        /\ Len(left) = IF 1 <= i - 1 THEN i - 1 - 1 + 1 ELSE 0
        /\ \A j \in 1..(i - 1 - 1 + 1) : left[j] = s[1 + j - 1]
    BY <2>1, SubSeqProperties
  <2> QED
    BY <1>1, <2>2
<1>3. /\ right \in Seq(S) /\ Len(right) = Len(s) - i
      /\ \A j \in 1..(Len(s) - i) : right[j] = s[i + j]
  <2>1. \A j \in (i + 1)..Len(s) : s[j] \in S
    BY <1>1
  <2>2. /\ right \in Seq(S)
        /\ Len(right) = IF i + 1 <= Len(s) THEN Len(s) - (i + 1) + 1 ELSE 0
        /\ \A j \in 1..(Len(s) - (i + 1) + 1) : right[j] = s[i + 1 + j - 1]
    BY <1>1, <2>1, SubSeqProperties
  <2>3. \A j \in 1..(Len(s) - i) : i + 1 + j - 1 = i + j
    BY <1>1
  <2> QED
    BY <1>1, <2>2, <2>3
<1> HIDE DEF left, right
<1>4. RemoveAt(s, i) = left \o right
  BY DEF RemoveAt, left, right
<1>5. left \o right \in Seq(S) /\ Len(left \o right) = Len(left) + Len(right)
  BY <1>2, <1>3, ConcatProperties
<1>6. \A j \in 1..(Len(left) + Len(right)) :
         (left \o right)[j] = IF j <= Len(left) THEN left[j]
                              ELSE right[j - Len(left)]
  BY <1>2, <1>3, ConcatProperties, Zenon
<1>7. ASSUME NEW j \in 1..(Len(s) - 1)
      PROVE  (left \o right)[j] = IF j < i THEN s[j] ELSE s[j + 1]
  <2>1. CASE j < i
    BY <1>1, <1>2, <1>3, <1>6, <2>1
  <2>2. CASE ~(j < i)
    <3> DEFINE k == j - (i - 1)
    <3>1. /\ k \in 1..(Len(s) - i) /\ i + k = j + 1
          /\ j \in 1..(Len(left) + Len(right))
          /\ ~(j <= Len(left)) /\ j - Len(left) = k
      BY <1>1, <1>2, <1>3, <2>2
    <3>2. (left \o right)[j] = right[j - Len(left)]
      BY <1>6, <3>1, Zenon
    <3>3. right[k] = s[i + k]
      BY <1>3, <3>1
    <3> QED
      BY <2>2, <3>1, <3>2, <3>3
  <2> QED
    BY <2>1, <2>2, Zenon
<1> QED
  BY <1>1, <1>2, <1>3, <1>4, <1>5, <1>7

LEMMA SplitStepType ==
    AuthTypeOK /\ BillTypeInv /\ SplitStep => AuthTypeOK' /\ BillTypeInv'
<1> SUFFICES ASSUME AuthTypeOK, BillTypeInv, SplitStep
             PROVE  AuthTypeOK' /\ BillTypeInv'
  OBVIOUS
<1>1. /\ bill.shares \in Seq(Parts) /\ Len(bill.shares) \in Nat
      /\ DOMAIN bill.shares = 1..Len(bill.shares)
      /\ \A i \in 1..Len(bill.shares) : bill.shares[i] \in Parts
  BY LenProperties, ElementOfSeq DEF BillTypeInv
<1>2. ShareShown \in Nat
  BY ShareIsNat
<1>3. ASSUME UNCHANGED authVars PROVE AuthTypeOK'
  BY <1>3 DEF AuthTypeOK, authVars
<1>4. CASE EditTotal
  BY <1>3, <1>4 DEF EditTotal, BillTypeInv
<1>5. ASSUME NEW friend \in Friends, AddParticipant(friend)
      PROVE  AuthTypeOK' /\ BillTypeInv'
  <2> DEFINE e == [who |-> friend, amount |-> ShareShown]
  <2>1. e \in Parts /\ e.who = friend
    BY <1>2 DEF Parts
  <2> HIDE DEF e
  <2>2. bill' = [bill EXCEPT !.shares = Append(bill.shares, e)]
    BY <1>5 DEF AddParticipant, e
  <2>3. /\ Append(bill.shares, e) \in Seq(Parts)
        /\ Len(Append(bill.shares, e)) = Len(bill.shares) + 1
        /\ \A i \in 1..Len(bill.shares) :
              Append(bill.shares, e)[i] = bill.shares[i]
        /\ Append(bill.shares, e)[Len(bill.shares) + 1] = e
    BY <1>1, <2>1, AppendProperties
  <2>4. \A i \in 1..Len(bill.shares) : bill.shares[i].who # friend
    BY <1>1, <1>5 DEF AddParticipant
  <2>5. bill'.shares = Append(bill.shares, e)
    BY <2>2 DEF BillTypeInv
  <2>6. \A i, j \in 1..Len(bill'.shares) :
           bill'.shares[i].who = bill'.shares[j].who => i = j
    BY <1>1, <2>1, <2>3, <2>4, <2>5 DEF BillTypeInv
  <2> QED
    BY <1>3, <1>5, <2>2, <2>3, <2>6 DEF AddParticipant, BillTypeInv
<1>6. ASSUME NEW i \in DOMAIN bill.shares, RemoveParticipant(i)
      PROVE  AuthTypeOK' /\ BillTypeInv'
  <2> DEFINE new == RemoveAt(bill.shares, i)
  <2>1. /\ new \in Seq(Parts) /\ Len(new) = Len(bill.shares) - 1
        /\ \A j \in 1..(Len(bill.shares) - 1) :
              new[j] = IF j < i THEN bill.shares[j] ELSE bill.shares[j + 1]
    BY <1>1, RemoveAtEffect
  <2>2. bill' = [bill EXCEPT !.shares = new]
    BY <1>6 DEF RemoveParticipant
  <2> HIDE DEF new
  <2>3. bill'.shares = new
    BY <2>2 DEF BillTypeInv
  <2>4. ASSUME NEW j \in 1..Len(new), NEW k \in 1..Len(new),
               new[j].who = new[k].who
        PROVE  j = k
    <3> DEFINE old(n) == IF n < i THEN n ELSE n + 1
    <3>1. \A n \in 1..Len(new) :
             old(n) \in 1..Len(bill.shares) /\ new[n] = bill.shares[old(n)]
      BY <1>1, <2>1
    <3>2. old(j) = old(k)
      BY <2>4, <3>1 DEF BillTypeInv
    <3> QED
      BY <1>1, <3>2
  <2> QED
    BY <1>3, <1>6, <2>1, <2>2, <2>3, <2>4 DEF RemoveParticipant, BillTypeInv
<1>7. ASSUME NEW i \in DOMAIN bill.shares, EditShare(i)
      PROVE  AuthTypeOK' /\ BillTypeInv'
  <2>1. PICK a \in Typed \union {Cleared} :
           bill' = [bill EXCEPT !.shares[i].amount = a]
    BY <1>7 DEF EditShare
  <2> DEFINE e   == [bill.shares[i] EXCEPT !.amount = a]
             new == [bill.shares EXCEPT ![i] = e]
  <2>2. e \in Parts /\ e.who = bill.shares[i].who
    BY <1>1, BillAssumption DEF Parts
  <2>3. bill' = [bill EXCEPT !.shares = new]
    BY <2>1
  <2> HIDE DEF e
  <2>4. /\ new \in Seq(Parts) /\ Len(new) = Len(bill.shares)
        /\ \A j \in 1..Len(bill.shares) : new[j].who = bill.shares[j].who
    BY <1>1, <2>2, ExceptSeq
  <2> HIDE DEF new
  <2>5. bill'.shares = new
    BY <2>3 DEF BillTypeInv
  <2>6. UNCHANGED authVars /\ splits' = splits
    BY <1>7 DEF EditShare
  <2>7. \A j, k \in 1..Len(new) : new[j].who = new[k].who => j = k
    BY <2>4 DEF BillTypeInv
  <2>8. BillTypeInv'
    BY <2>3, <2>4, <2>5, <2>6, <2>7 DEF BillTypeInv
  <2> QED
    BY <1>3, <2>6, <2>8
<1>8. CASE EqualSplit
  <2> DEFINE new == [j \in 1..Len(bill.shares) |->
                        [bill.shares[j] EXCEPT !.amount = ShareShown]]
  <2>1. \A j \in 1..Len(bill.shares) :
           /\ [bill.shares[j] EXCEPT !.amount = ShareShown] \in Parts
           /\ [bill.shares[j] EXCEPT !.amount = ShareShown].who
                 = bill.shares[j].who
    BY <1>1, <1>2 DEF Parts
  <2>2. new \in Seq(Parts) /\ Len(new) = Len(bill.shares)
    BY <1>1, <2>1, IsASeq
  <2>3. \A j \in 1..Len(bill.shares) : new[j].who = bill.shares[j].who
    BY <2>1
  <2>4. bill' = [bill EXCEPT !.shares = new]
    BY <1>1, <1>8 DEF EqualSplit
  <2> HIDE DEF new
  <2>5. bill'.shares = new
    BY <2>4 DEF BillTypeInv
  <2> QED
    BY <1>3, <1>8, <2>2, <2>3, <2>4, <2>5 DEF EqualSplit, BillTypeInv
<1>9. CASE SubmitBill \/ BackToBill
  BY <1>3, <1>9 DEF SubmitBill, BackToBill, BillTypeInv
<1>10. CASE ConfirmBill
  <2> DEFINE parts == [i \in 1..Len(bill.shares) |->
                          Share(bill.shares[i].who, bill.shares[i].amount)]
             added == Append(parts, Share(Me, MyShare))
  <2>1. \A i \in 1..Len(bill.shares) :
           Share(bill.shares[i].who, bill.shares[i].amount) \in Entries
    BY <1>1 DEF Parts, Share, Entries
  <2>2. parts \in Seq(Entries)
    BY <1>1, <2>1, IsASeq
  <2>3. Share(Me, MyShare) \in Entries
    BY <1>2 DEF Share, Entries, MyShare
  <2>4. added \in Seq(Entries)
    BY <2>2, <2>3, AppendProperties
  <2>5. transactions' = WithTransactions(added)
    BY <1>1, <1>10 DEF ConfirmBill
  <2> HIDE DEF added
  <2>6. transactions' \in Seq(Entries) /\ Len(transactions') <= HistoryMax
    BY <2>4, <2>5, HistoryTypes
  <2>7. AuthTypeOK'
    BY <1>10, <2>6 DEF ConfirmBill, AuthTypeOK
  <2>8. splits' \in 0..MaxSplits
    BY <1>10, BillAssumption DEF ConfirmBill, BillTypeInv
  <2>9. /\ bill' = [bill EXCEPT !.step = "success"]
        /\ bill'.shares = bill.shares
    BY <1>10 DEF ConfirmBill, BillTypeInv
  <2> QED
    BY <2>7, <2>8, <2>9 DEF BillTypeInv
<1>11. CASE AnotherBill
  BY <1>3, <1>11, EmptySeq DEF AnotherBill, EmptyBill, BillTypeInv
<1> QED
  BY <1>4, <1>5, <1>6, <1>7, <1>8, <1>9, <1>10, <1>11 DEF SplitStep

-----------------------------------------------------------------------------
(* The type invariant of the whole app.                                    *)

\* A page that is not shown has no state.
HiddenPages ==
    /\ page # "send" => form = Blank /\ checks = NoChecks /\ ~Loading
    /\ page # "settings" => dialog = Closed
    /\ page # "split" => bill = EmptyBill
    /\ page # "request" => ask = EmptyAsk

TypeInv ==
    /\ page \in Pages /\ visits \in 0..MaxVisits
    /\ AuthTypeOK /\ SendTypeInv /\ PinTypeOK /\ BillTypeInv /\ RequestTypeOK
    /\ HiddenPages

LEMMA InitType == Init => TypeInv
<1> SUFFICES ASSUME Init PROVE TypeInv
  OBVIOUS
<1> USE DEF Init, AuthInit, SendInit, PinInit, SplitInit, RequestInit
<1>1. page \in Pages /\ visits \in 0..MaxVisits
  BY VisitsAssumption DEF Pages
<1>2. AuthTypeOK
  <2>1. transactions \in Seq(Entries) /\ Len(transactions) = 0
    BY EmptySeq
  <2>2. 0 <= HistoryMax
    BY StoreAssumption
  <2>3. /\ pinHash \in Pins \union {NoPin} /\ biometricEnabled \in BOOLEAN
        /\ settings \subseteq Keys
    BY DEF Keys
  <2> QED
    BY <2>1, <2>2, <2>3, Zenon DEF AuthTypeOK
<1>3. SendTypeInv
  BY SendAssumption DEF SendTypeInv, SendTypeOK, Blank, NoChecks, SendStages
<1>4. PinTypeOK
  BY AskingAssumption DEF PinTypeOK, NoTask, Closed, Dialogs, Fields
<1>5. BillTypeInv
  BY BillAssumption, EmptySeq DEF BillTypeInv, EmptyBill
<1>6. RequestTypeOK
  BY DEF RequestTypeOK, EmptyAsk
<1>7. HiddenPages
  BY DEF HiddenPages, Loading, InFlight
<1> QED
  BY <1>1, <1>2, <1>3, <1>4, <1>5, <1>6, <1>7 DEF TypeInv

\* What handleConfirm() does to a page that has been left is lost.
LEMMA SendWorkHidden ==
    ASSUME TypeInv, NEW p \in Payments, SendWork(p) PROVE HiddenPages'
<1>1. /\ UNCHANGED <<page, dialog, bill, ask, checks>>
      /\ \A q \in Payments : /\ sends'[q].live = sends[q].live
                             /\ InFlight(q)' => InFlight(q)
      /\ ~sends[p].live => form' = form
      /\ InFlight(p)
  BY DEF SendWork, pinVars, splitVars, Encrypted, SendDone, SendFails, InFlight,
     TypeInv, SendTypeInv, SendTypeOK
<1> QED
  BY <1>1 DEF TypeInv, HiddenPages, Loading

\* Nor does a call of handlePinSubmit() open a dialog.
LEMMA SettingsWorkHidden ==
    ASSUME TypeInv, SettingsWork PROVE HiddenPages'
<1>1. /\ UNCHANGED <<page, bill, ask, form, checks, sends>>
      /\ dialog' = dialog \/ dialog' = Closed
  BY DEF SettingsWork, sendVars, splitVars, PinWork, ChangePin, DisablePin,
     BiometricAnswered
<1> QED
  BY <1>1 DEF TypeInv, HiddenPages, Loading, InFlight

LEMMA NextType == TypeInv /\ [Next]_vars => TypeInv'
<1> SUFFICES ASSUME TypeInv, [Next]_vars PROVE TypeInv'
  OBVIOUS
<1> USE DEF TypeInv
<1>1. ASSUME UNCHANGED authVars PROVE AuthTypeOK'
  BY <1>1 DEF authVars, AuthTypeOK
<1>2. ASSUME UNCHANGED sendVars PROVE SendTypeInv' /\ (Loading' <=> Loading)
  BY <1>2 DEF sendVars, SendTypeInv, SendTypeOK, Loading, InFlight
<1>3. ASSUME UNCHANGED pinVars PROVE PinTypeOK'
  BY <1>3 DEF pinVars, PinTypeOK
<1>4. ASSUME UNCHANGED splitVars PROVE BillTypeInv'
  BY <1>4 DEF splitVars, BillTypeInv
<1>5. ASSUME UNCHANGED ask PROVE RequestTypeOK'
  BY <1>5 DEF RequestTypeOK
<1>6. ASSUME NEW to \in Pages, Navigate(to) PROVE TypeInv'
  <2>1. page' \in Pages /\ visits' \in 0..MaxVisits
    BY <1>6, VisitsAssumption DEF Navigate
  <2>2. SendTypeInv'
    BY <1>6, LeaveSendType DEF Navigate
  <2>3. PinTypeOK'
    BY <1>6, LeaveSettingsType DEF Navigate
  <2>4. BillTypeInv'
    BY <1>6, EmptySeq DEF Navigate, LeaveSplit, EmptyBill, BillTypeInv
  <2>5. RequestTypeOK'
    BY <1>6 DEF Navigate, LeaveRequest, EmptyAsk, RequestTypeOK
  <2>6. ~Loading'
    BY <1>6 DEF Navigate, LeaveSend, Loading, SendTypeInv, SendTypeOK
  <2>7. HiddenPages'
    BY <1>6, <2>6 DEF Navigate, LeaveSend, LeaveSettings, LeaveSplit,
       LeaveRequest, HiddenPages
  <2> QED
    BY <1>1, <1>6, <2>1, <2>2, <2>3, <2>4, <2>5, <2>7 DEF Navigate
<1>7. CASE SendPage
  <2>1. UNCHANGED authVars /\ SendTypeInv'
    BY <1>7, SendStepType DEF SendPage, SendStep, EditRecipient, EditAmount,
       SubmitPayment, TypePin, SubmitPin, PinChecked, Cancel, GoBack, Confirm,
       SendAnother
  <2>2. UNCHANGED <<pinVars, splitVars, ask, page, visits>> /\ page = "send"
    BY <1>7 DEF SendPage
  <2>3. HiddenPages'
    BY <2>2 DEF HiddenPages, pinVars, splitVars
  <2> QED
    BY <1>1, <1>3, <1>4, <1>5, <2>1, <2>2, <2>3
<1>8. ASSUME NEW p \in Payments, SendWork(p) PROVE TypeInv'
  <2>1. SendTypeInv' /\ HiddenPages'
    BY <1>8, SendWorkType, SendWorkHidden
  <2>2. AuthTypeOK'
    <3>1. CASE UNCHANGED authVars
      BY <1>1, <3>1
    <3>2. CASE SendDone(p)
      <4>1. sends[p].to \in People \union {Nobody} /\ sends[p].amount \in Nat
        BY SendAssumption DEF SendTypeInv, SendTypeOK
      <4>2. <<Entry(p)>> \in Seq(Entries)
        BY <4>1 DEF Entry, Entries
      <4>3. transactions' \in Seq(Entries) /\ Len(transactions') <= HistoryMax
        BY <3>2, <4>2, HistoryTypes DEF SendDone
      <4> QED
        BY <3>2, <4>3 DEF SendDone, AuthTypeOK
    <3> QED
      BY <1>8, <3>1, <3>2 DEF SendWork, Encrypted, SendFails
  <2>3. UNCHANGED <<pinVars, splitVars, ask, page, visits>>
    BY <1>8 DEF SendWork
  <2> QED
    BY <1>3, <1>4, <1>5, <2>1, <2>2, <2>3
<1>9. CASE SettingsPage
  <2>1. UNCHANGED <<sendVars, splitVars, ask, page, visits>> /\ page = "settings"
    BY <1>9 DEF SettingsPage
  <2>2. HiddenPages'
    BY <1>2, <2>1 DEF HiddenPages, sendVars, splitVars
  <2> QED
    BY <1>2, <1>4, <1>5, <1>9, <2>1, <2>2, PinStepType DEF SettingsPage
<1>10. CASE SettingsWork
  <2>1. UNCHANGED <<sendVars, splitVars, ask, page, visits>>
    BY <1>10 DEF SettingsWork
  <2> QED
    BY <1>2, <1>4, <1>5, <1>10, <2>1, PinWorkType, SettingsWorkHidden
       DEF SettingsWork
<1>11. CASE SplitPage
  <2>1. UNCHANGED <<sendVars, pinVars, ask, page, visits>> /\ page = "split"
    BY <1>11 DEF SplitPage
  <2>2. HiddenPages'
    BY <1>2, <2>1 DEF HiddenPages, sendVars, pinVars
  <2> QED
    BY <1>2, <1>3, <1>5, <1>11, <2>1, <2>2, SplitStepType DEF SplitPage
<1>12. CASE RequestPage
  <2>1. UNCHANGED <<authVars, sendVars, pinVars, splitVars, page, visits>>
        /\ page = "request"
    BY <1>12 DEF RequestPage, RequestStep, EditRequest, SubmitRequest,
       GenerateLink, AnotherRequest
  <2>2. HiddenPages'
    BY <1>2, <2>1 DEF HiddenPages, sendVars, pinVars, splitVars
  <2> QED
    BY <1>1, <1>2, <1>3, <1>4, <1>12, <2>1, <2>2, RequestStepType DEF RequestPage
<1>13. CASE UNCHANGED vars
  <2>1. UNCHANGED <<authVars, sendVars, pinVars, splitVars, ask, page, visits>>
    BY <1>13 DEF vars
  <2>2. HiddenPages'
    BY <1>2, <2>1 DEF HiddenPages, sendVars, pinVars, splitVars
  <2> QED
    BY <1>1, <1>2, <1>3, <1>4, <1>5, <2>1, <2>2
<1> QED
  BY <1>6, <1>7, <1>8, <1>9, <1>10, <1>11, <1>12, <1>13 DEF Next

\* The store and every page keep their types, no participant is on a bill
\* twice, and a page that has been left keeps nothing.
THEOREM TypeCorrect == Spec => []TypeOK
<1>1. TypeInv => TypeOK
  BY BillTypes DEF TypeInv, TypeOK, AuthTypeOK, SendTypeInv, HiddenPages
<1> QED
  BY <1>1, InitType, NextType, PTL DEF Spec

-----------------------------------------------------------------------------
(* A packet leaves with the PIN only.                                      *)
(*                                                                         *)
(* Each submission of the right PIN is worth one payment.  It is first a   *)
(* check under way, then the form in its "confirm" step, then a call of    *)
(* handleConfirm(), which gives it back to the form if it fails while the  *)
(* form is still there.                                                    *)

\* The payments under way or made.
Used == {p \in Payments : InFlight(p) \/ sends[p].stage = "sent"}

\* The form is ready for a tap on "Confirm & Send".
Armed == IF form.step = "confirm" /\ ~Loading THEN 1 ELSE 0

AuthorisedInv ==
    /\ TypeInv
    /\ form.step = "confirm" \/ checks.right > 0 => form.checked
    /\ \A p \in Payments : sends[p].stage # "none" => sends[p].checked
    /\ IsFiniteSet(Used)
    /\ Cardinality(Used) + checks.right + Armed <= entries

LEMMA ChecksType ==
    ASSUME TypeInv
    PROVE  /\ form \in Forms /\ sends \in [Payments -> Sends]
           /\ checks \in [right : 0..MaxEntries, wrong : 0..1]
           /\ checks.right \in Nat /\ entries \in Nat
BY SendAssumption DEF TypeInv, SendTypeInv, SendTypeOK, Forms, Sends

LEMMA InitAuthorised == Init => AuthorisedInv
<1> SUFFICES ASSUME Init PROVE AuthorisedInv
  OBVIOUS
<1>1. /\ form = Blank /\ checks = NoChecks /\ entries = 0
      /\ \A p \in Payments : sends[p].stage = "none"
  BY DEF Init, SendInit
<1>2. Used = {} /\ Armed = 0
  BY <1>1 DEF Used, InFlight, Armed, Blank
<1>3. IsFiniteSet(Used) /\ Cardinality(Used) = 0
  BY <1>2, FS_EmptySet
<1> QED
  BY <1>1, <1>2, <1>3, InitType DEF AuthorisedInv, Blank, NoChecks

LEMMA NextAuthorised == AuthorisedInv /\ [Next]_vars => AuthorisedInv'
<1> SUFFICES ASSUME AuthorisedInv, [Next]_vars PROVE AuthorisedInv'
  OBVIOUS
<1>1. TypeInv /\ TypeInv'
  BY NextType DEF AuthorisedInv
<1>2. /\ form \in Forms /\ sends \in [Payments -> Sends]
      /\ checks.right \in Nat /\ entries \in Nat
      /\ checks \in [right : 0..MaxEntries, wrong : 0..1]
      /\ IsFiniteSet(Used) /\ Cardinality(Used) \in Nat
      /\ Armed \in {0, 1}
  BY <1>1, ChecksType, FS_CardinalityType DEF AuthorisedInv, Armed
<1>3. ASSUME UNCHANGED sends PROVE Used' = Used /\ (Loading' <=> Loading)
  BY <1>3 DEF Used, Loading, InFlight
<1>4. ASSUME UNCHANGED sendVars PROVE AuthorisedInv'
  BY <1>1, <1>3, <1>4 DEF sendVars, AuthorisedInv, Armed
<1>5. ASSUME UNCHANGED <<sends, entries, checks>>,
             form'.step = "confirm" => form.step = "confirm",
             form.checked => form'.checked
      PROVE  AuthorisedInv'
  <2>1. Armed' \in {0, 1} /\ Armed' <= Armed
    BY <1>3, <1>5 DEF Armed
  <2> QED
    BY <1>1, <1>2, <1>3, <1>5, <2>1 DEF AuthorisedInv
<1>6. CASE EditRecipient \/ EditAmount \/ SubmitPayment \/ TypePin \/ Cancel
           \/ GoBack \/ SendAnother
  <2>1. /\ UNCHANGED <<sends, entries, checks>>
        /\ form'.step = "confirm" => form.step = "confirm"
        /\ form.checked => form'.checked
    BY <1>2, <1>6 DEF EditRecipient, EditAmount, SubmitPayment, TypePin, Cancel,
       GoBack, SendAnother, Blank, Forms
  <2> QED
    BY <1>5, <2>1
<1>7. CASE SubmitPin
  <2>1. /\ sends' = sends /\ form.step = "pin" /\ form'.step = "pin"
        /\ \/ /\ checks'.right = checks.right + 1 /\ entries' = entries + 1
              /\ form'.checked
           \/ /\ checks'.right = checks.right /\ entries' = entries
              /\ form'.checked = form.checked
    BY <1>2, <1>7 DEF SubmitPin, Outcome, Forms
  <2>2. Armed' = 0
    BY <2>1 DEF Armed
  <2> QED
    BY <1>1, <1>2, <1>3, <2>1, <2>2 DEF AuthorisedInv
<1>8. CASE PinChecked
  <2>1. /\ sends' = sends /\ entries' = entries /\ form'.checked = form.checked
        /\ \/ /\ checks.right > 0 /\ checks'.right = checks.right - 1
              /\ form'.step = "confirm"
           \/ checks'.right = checks.right /\ form'.step = form.step
    BY <1>2, <1>8 DEF PinChecked, Forms
  <2>2. Armed' \in {0, 1}
    BY DEF Armed
  <2>3. form'.step = form.step => Armed' = Armed
    BY <1>3, <2>1 DEF Armed
  <2> QED
    BY <1>1, <1>2, <1>3, <2>1, <2>2, <2>3 DEF AuthorisedInv
<1>9. ASSUME NEW p \in Payments, Confirm(p) PROVE AuthorisedInv'
  <2>1. /\ form' = form /\ checks' = checks /\ entries' = entries
        /\ form.step = "confirm" /\ ~Loading /\ sends[p].stage = "none"
        /\ sends'[p].stage = "encrypting" /\ sends'[p].live
        /\ sends'[p].checked = form.checked
        /\ \A q \in Payments \ {p} : sends'[q] = sends[q]
    BY <1>2, <1>9 DEF Confirm, Sends
  <2>2. Armed = 1 /\ Armed' = 0
    BY <2>1 DEF Armed, Loading, InFlight
  <2>3. Used' = Used \union {p} /\ p \notin Used
    BY <2>1 DEF Used, InFlight
  <2>4. IsFiniteSet(Used') /\ Cardinality(Used') = Cardinality(Used) + 1
    BY <1>2, <2>3, FS_AddElement
  <2> QED
    BY <1>1, <1>2, <2>1, <2>2, <2>4 DEF AuthorisedInv
<1>10. ASSUME NEW p \in Payments, SendWork(p) PROVE AuthorisedInv'
  <2>1. /\ checks' = checks /\ entries' = entries /\ p \in Used
        /\ \A q \in Payments \ {p} : sends'[q] = sends[q]
        /\ sends'[p].checked = sends[p].checked /\ sends[p].stage # "none"
        /\ sends'[p].live = sends[p].live
        /\ form'.checked = form.checked
    BY <1>2, <1>10 DEF SendWork, Encrypted, SendDone, SendFails, Used, InFlight,
       Sends, Forms
  <2>2. CASE p \in Used'
    <3>1. Used' = Used
      BY <2>1, <2>2 DEF Used, InFlight
    <3>2. form'.step = "confirm" => form.step = "confirm"
      BY <1>2, <1>10 DEF SendWork, Encrypted, SendDone, SendFails, Forms
    <3>3. form'.step = "confirm" /\ ~Loading' => ~Loading
      BY <1>2, <1>10, <2>1, <2>2 DEF SendWork, Encrypted, SendDone, SendFails,
         Used, Loading, InFlight, Sends, Forms
    <3>4. Armed' \in {0, 1} /\ Armed' <= Armed
      BY <3>2, <3>3 DEF Armed
    <3> QED
      BY <1>1, <1>2, <2>1, <3>1, <3>2, <3>4 DEF AuthorisedInv
  <2>3. CASE p \notin Used'
    <3>1. Used' = Used \ {p}
      BY <2>1, <2>3 DEF Used, InFlight
    <3>2. IsFiniteSet(Used') /\ Cardinality(Used') = Cardinality(Used) - 1
      BY <1>2, <2>1, <3>1, FS_RemoveElement
    <3>3. form' = form
      BY <1>2, <1>10, <2>3 DEF SendWork, Encrypted, SendDone, SendFails, Used,
         InFlight, Sends
    <3>4. Armed' \in {0, 1}
      BY DEF Armed
    <3> QED
      BY <1>1, <1>2, <2>1, <3>2, <3>3, <3>4 DEF AuthorisedInv
  <2> QED
    BY <2>2, <2>3
<1>11. ASSUME NEW to \in Pages, Navigate(to) PROVE AuthorisedInv'
  <2>1. /\ form' = Blank /\ checks' = NoChecks /\ entries' = entries
        /\ \A q \in Payments : /\ sends'[q].stage = sends[q].stage
                               /\ sends'[q].checked = sends[q].checked
    BY <1>2, <1>11 DEF Navigate, LeaveSend, Sends
  <2>2. Used' = Used /\ Armed' = 0
    BY <2>1 DEF Used, InFlight, Armed, Blank
  <2> QED
    BY <1>1, <1>2, <2>1, <2>2 DEF AuthorisedInv, Blank, NoChecks
<1>12. CASE SendPage
  BY <1>6, <1>7, <1>8, <1>9, <1>12 DEF SendPage, SendStep
<1>13. CASE SettingsPage \/ SettingsWork \/ SplitPage \/ RequestPage
            \/ UNCHANGED vars
  BY <1>4, <1>13 DEF SettingsPage, SettingsWork, SplitPage, RequestPage, vars
<1> QED
  BY <1>10, <1>11, <1>12, <1>13 DEF Next

\* Whatever order the digests, the taps and the navigation come in: a packet
\* leaves from a form that had the PIN, and no submission of it makes two
\* payments.
THEOREM Authorised == Spec => []AuthorisedByPin
<1>1. AuthorisedInv => AuthorisedByPin
  <2> SUFFICES ASSUME AuthorisedInv PROVE AuthorisedByPin
    OBVIOUS
  <2> DEFINE Made == {p \in Payments : sends[p].stage = "sent"}
  <2>1. Made \in SUBSET Used
    BY DEF Used
  <2>2. Cardinality(Made) <= Cardinality(Used) /\ IsFiniteSet(Made)
    BY <2>1, FS_Subset DEF AuthorisedInv
  <2>3. Cardinality(Made) \in Nat /\ Cardinality(Used) \in Nat
    BY <2>2, FS_CardinalityType DEF AuthorisedInv
  <2>4. checks.right \in Nat /\ entries \in Nat /\ Armed \in {0, 1}
    BY ChecksType DEF AuthorisedInv, Armed
  <2>5. Cardinality(Made) <= entries
    BY <2>2, <2>3, <2>4 DEF AuthorisedInv
  <2>6. \A p \in Packeted : sends[p].checked
    BY DEF AuthorisedInv, Packeted
  <2> QED
    BY <2>5, <2>6 DEF AuthorisedByPin
<1> QED
  BY <1>1, InitAuthorised, NextAuthorised, PTL DEF Spec

-----------------------------------------------------------------------------
(* The history and the payments.                                           *)

\* The entry tells what became of payment p.
Tells(e, p) ==
    /\ e.id = p
    /\ sends[p].stage = "sent"
    /\ e.to = sends[p].to
    /\ e.amount = sends[p].amount

\* An entry of a payment tells it, and a history that has never been cut has
\* an entry of every payment made.
HistoryInv ==
    /\ TypeInv
    /\ \A i \in 1..Len(transactions) : \A p \in Payments :
          transactions[i].id = p => Tells(transactions[i], p)
    /\ \A p \in Payments :
          sends[p].stage = "sent" /\ Len(transactions) < HistoryMax =>
             \E i \in 1..Len(transactions) : transactions[i].id = p

\* Steps that add no entry and end no payment.
Untold ==
    /\ transactions' = transactions
    /\ \A p \in Payments :
          /\ sends'[p].stage = "sent" <=> sends[p].stage = "sent"
          /\ sends[p].stage = "sent" => /\ sends'[p].to = sends[p].to
                                        /\ sends'[p].amount = sends[p].amount

LEMMA UntoldKeepsHistory ==
    ASSUME HistoryInv, TypeInv', Untold PROVE HistoryInv'
BY DEF HistoryInv, Untold, Tells

\* Entries are added in front; those that stay are the ones in front.
LEMMA AddedInFront ==
    ASSUME TypeInv, NEW added \in Seq(Entries)
    PROVE  LET new == WithTransactions(added) IN
           /\ \A i \in 1..Len(new) :
                 \/ \E j \in 1..Len(added) : new[i] = added[j]
                 \/ \E j \in 1..Len(transactions) : new[i] = transactions[j]
           /\ Len(new) < HistoryMax =>
                 /\ Len(transactions) < HistoryMax
                 /\ \A j \in 1..Len(added) :
                       \E i \in 1..Len(new) : new[i] = added[j]
                 /\ \A j \in 1..Len(transactions) :
                       \E i \in 1..Len(new) : new[i] = transactions[j]
<1> DEFINE new == WithTransactions(added)
           n == Len(added)
           m == Len(transactions)
<1>1. transactions \in Seq(Entries) /\ n \in Nat /\ m \in Nat /\ HistoryMax \in Nat
  BY LenProperties, StoreAssumption DEF TypeInv, AuthTypeOK
<1>2. /\ Len(new) = IF n + m < HistoryMax THEN n + m ELSE HistoryMax
      /\ \A i \in 1..Len(new) :
            new[i] = IF i <= n THEN added[n + 1 - i] ELSE transactions[i - n]
  BY <1>1, HistoryGrows
<1> HIDE DEF new, n, m
<1>3. ASSUME NEW i \in 1..Len(new)
      PROVE  \/ \E j \in 1..n : new[i] = added[j]
             \/ \E j \in 1..m : new[i] = transactions[j]
  <2>1. CASE i <= n
    <3>1. n + 1 - i \in 1..n /\ new[i] = added[n + 1 - i]
      BY <1>1, <1>2, <2>1
    <3> QED
      BY <3>1
  <2>2. CASE ~(i <= n)
    <3>1. i - n \in 1..m /\ new[i] = transactions[i - n]
      BY <1>1, <1>2, <2>2
    <3> QED
      BY <3>1
  <2> QED
    BY <2>1, <2>2
<1>4. ASSUME Len(new) < HistoryMax, NEW j \in 1..n
      PROVE  \E i \in 1..Len(new) : new[i] = added[j]
  <2>1. n + 1 - j \in 1..Len(new) /\ n + 1 - j <= n /\ n + 1 - (n + 1 - j) = j
    BY <1>1, <1>2, <1>4
  <2>2. new[n + 1 - j] = added[j]
    BY <1>2, <2>1
  <2> QED
    BY <2>1, <2>2
<1>5. ASSUME Len(new) < HistoryMax, NEW j \in 1..m
      PROVE  \E i \in 1..Len(new) : new[i] = transactions[j]
  <2>1. n + j \in 1..Len(new) /\ ~(n + j <= n) /\ n + j - n = j
    BY <1>1, <1>2, <1>5
  <2>2. new[n + j] = transactions[j]
    BY <1>1, <1>2, <2>1
  <2> QED
    BY <2>1, <2>2
<1>6. Len(new) < HistoryMax => m < HistoryMax
  BY <1>1, <1>2
<1> QED
  BY <1>3, <1>4, <1>5, <1>6 DEF new, n, m

LEMMA InitHistory == Init => HistoryInv
<1> SUFFICES ASSUME Init PROVE HistoryInv
  OBVIOUS
<1>1. Len(transactions) = 0 /\ \A p \in Payments : sends[p].stage # "sent"
  BY DEF Init, AuthInit, SendInit
<1> QED
  BY <1>1, InitType DEF HistoryInv

LEMMA NextHistory == HistoryInv /\ [Next]_vars => HistoryInv'
<1> SUFFICES ASSUME HistoryInv, [Next]_vars PROVE HistoryInv'
  OBVIOUS
<1>1. TypeInv /\ TypeInv'
  BY NextType DEF HistoryInv
<1>2. sends \in [Payments -> Sends]
  BY <1>1, ChecksType
<1>3. ASSUME NEW to \in Pages, Navigate(to) PROVE HistoryInv'
  <2>1. Untold
    BY <1>2, <1>3 DEF Navigate, LeaveSend, authVars, Sends, Untold
  <2> QED
    BY <1>1, <2>1, UntoldKeepsHistory
<1>4. CASE SendPage
  <2>1. ASSUME NEW p \in Payments, Confirm(p) PROVE Untold
    BY <1>2, <2>1 DEF Confirm, authVars, Sends, Untold
  <2>2. CASE ~\E p \in Payments : Confirm(p)
    <3>1. sends' = sends /\ transactions' = transactions
      BY <1>4, <2>2 DEF SendPage, SendStep, EditRecipient, EditAmount,
         SubmitPayment, TypePin, SubmitPin, PinChecked, Cancel, GoBack,
         SendAnother, authVars
    <3>2. \A p \in Payments : sends'[p] = sends[p]
      BY <3>1
    <3>3. Untold
      BY <3>1, <3>2 DEF Untold
    <3> QED
      BY <1>1, <3>3, UntoldKeepsHistory
  <2> QED
    BY <1>1, <2>1, <2>2, UntoldKeepsHistory
<1>5. ASSUME NEW p \in Payments, SendWork(p) PROVE HistoryInv'
  <2>1. CASE Encrypted(p) \/ SendFails(p)
    <3>1. Untold
      BY <1>2, <2>1 DEF Encrypted, SendFails, authVars, Sends, Untold
    <3> QED
      BY <1>1, <3>1, UntoldKeepsHistory
  <2>2. CASE SendDone(p)
    <3> DEFINE added == <<Entry(p)>>
               new   == WithTransactions(added)
    <3>1. /\ transactions' = new
          /\ sends[p].stage = "storing" /\ sends'[p].stage = "sent"
          /\ sends'[p].to = sends[p].to /\ sends'[p].amount = sends[p].amount
          /\ \A q \in Payments \ {p} : sends'[q] = sends[q]
      BY <1>2, <2>2 DEF SendDone, Sends
    <3>2. Entry(p) \in Entries /\ added \in Seq(Entries)
      <4>1. sends[p].to \in People \union {Nobody} /\ sends[p].amount \in Nat
        BY <1>2, SendAssumption DEF Sends
      <4>2. Entry(p) \in Entries
        BY <4>1 DEF Entry, Entries
      <4> QED
        BY <4>2
    <3>3. Len(added) = 1 /\ added[1] = Entry(p)
      OBVIOUS
    <3> HIDE DEF added
    <3>4. /\ \A i \in 1..Len(new) :
                \/ \E j \in 1..Len(added) : new[i] = added[j]
                \/ \E j \in 1..Len(transactions) : new[i] = transactions[j]
          /\ Len(new) < HistoryMax =>
                /\ Len(transactions) < HistoryMax
                /\ \A j \in 1..Len(added) :
                      \E i \in 1..Len(new) : new[i] = added[j]
                /\ \A j \in 1..Len(transactions) :
                      \E i \in 1..Len(new) : new[i] = transactions[j]
      BY <1>1, <3>2, AddedInFront
    <3>5. Tells(Entry(p), p)'
      BY <3>1 DEF Tells, Entry
    <3> HIDE DEF new
    <3>6. ASSUME NEW i \in 1..Len(transactions'), NEW q \in Payments,
                 transactions'[i].id = q
          PROVE  Tells(transactions[i], q)'
      <4>1. CASE transactions'[i] = Entry(p)
        <5>1. q = p
          BY <3>6, <4>1 DEF Entry
        <5>2. Tells(transactions[i], p)'
          BY <3>1, <4>1 DEF Tells, Entry
        <5> QED
          BY <5>1, <5>2
      <4>2. ASSUME NEW j \in 1..Len(transactions), transactions'[i] = transactions[j]
            PROVE  Tells(transactions[i], q)'
        <5>1. Tells(transactions[j], q)
          BY <3>6, <4>2 DEF HistoryInv
        <5>2. q # p
          BY <3>1, <5>1 DEF Tells
        <5> QED
          BY <3>1, <4>2, <5>1, <5>2 DEF Tells
      <4> QED
        BY <3>1, <3>3, <3>4, <4>1, <4>2
    <3>7. ASSUME NEW q \in Payments, sends'[q].stage = "sent",
                 Len(transactions') < HistoryMax
          PROVE  \E i \in 1..Len(transactions') : transactions'[i].id = q
      <4>1. CASE q = p
        BY <3>1, <3>3, <3>4, <3>7, <4>1 DEF Entry
      <4>2. CASE q # p
        <5>1. PICK j \in 1..Len(transactions) : transactions[j].id = q
          BY <3>1, <3>4, <3>7, <4>2 DEF HistoryInv
        <5> QED
          BY <3>1, <3>4, <3>7, <5>1
      <4> QED
        BY <4>1, <4>2
    <3> QED
      BY <1>1, <3>6, <3>7 DEF HistoryInv
  <2> QED
    BY <1>5, <2>1, <2>2 DEF SendWork
<1>6. CASE SplitPage
  <2>1. sends' = sends
    BY <1>6 DEF SplitPage, sendVars
  <2>2. CASE transactions' = transactions
    <3>1. Untold
      BY <2>1, <2>2 DEF Untold
    <3> QED
      BY <1>1, <3>1, UntoldKeepsHistory
  <2>3. CASE transactions' # transactions
    <3>1. ConfirmBill
      BY <1>6, <2>3 DEF SplitPage, SplitStep, EditTotal, EqualSplit, SubmitBill,
         BackToBill, AddParticipant, RemoveParticipant, EditShare, AnotherBill,
         authVars
    <3> DEFINE parts == [i \in 1..Len(bill.shares) |->
                            Share(bill.shares[i].who, bill.shares[i].amount)]
               added == Append(parts, Share(Me, MyShare))
               new   == WithTransactions(added)
               Splits == {e \in Entries : e.id = "none"}
    <3>2. /\ bill.shares \in Seq(Parts) /\ Len(bill.shares) \in Nat
          /\ DOMAIN bill.shares = 1..Len(bill.shares)
          /\ \A i \in 1..Len(bill.shares) : bill.shares[i] \in Parts
      BY <1>1, LenProperties, ElementOfSeq DEF TypeInv, BillTypeInv
    <3>3. \A i \in 1..Len(bill.shares) :
             Share(bill.shares[i].who, bill.shares[i].amount) \in Splits
      BY <3>2 DEF Parts, Share, Entries
    <3>4. parts \in Seq(Splits)
      BY <3>2, <3>3, IsASeq
    <3>5. Share(Me, MyShare) \in Splits
      BY <1>1, ShareIsNat DEF TypeInv, Share, Entries, MyShare
    <3>6. added \in Seq(Splits)
      BY <3>4, <3>5, AppendProperties
    <3>7. added \in Seq(Entries)
      BY <3>6, SeqMonotonic
    <3>8. transactions' = new
      BY <3>1, <3>2 DEF ConfirmBill
    <3> HIDE DEF added
    <3>9. \A j \in 1..Len(added) : added[j].id = "none"
      BY <3>6, ElementOfSeq
    <3>10. /\ \A i \in 1..Len(new) :
                 \/ \E j \in 1..Len(added) : new[i] = added[j]
                 \/ \E j \in 1..Len(transactions) : new[i] = transactions[j]
           /\ Len(new) < HistoryMax =>
                 /\ Len(transactions) < HistoryMax
                 /\ \A j \in 1..Len(transactions) :
                       \E i \in 1..Len(new) : new[i] = transactions[j]
      BY <1>1, <3>7, AddedInFront
    <3> HIDE DEF new
    <3>11. ASSUME NEW i \in 1..Len(transactions'), NEW q \in Payments,
                  transactions'[i].id = q
           PROVE  Tells(transactions[i], q)'
      <4>1. PICK j \in 1..Len(transactions) : transactions'[i] = transactions[j]
        BY <3>8, <3>9, <3>10, <3>11, SendAssumption
      <4> QED
        BY <2>1, <3>11, <4>1 DEF HistoryInv, Tells
    <3>12. ASSUME NEW q \in Payments, sends'[q].stage = "sent",
                  Len(transactions') < HistoryMax
           PROVE  \E i \in 1..Len(transactions') : transactions'[i].id = q
      <4>1. PICK j \in 1..Len(transactions) : transactions[j].id = q
        BY <2>1, <3>8, <3>10, <3>12 DEF HistoryInv
      <4> QED
        BY <3>8, <3>10, <3>12, <4>1
    <3> QED
      BY <1>1, <3>11, <3>12 DEF HistoryInv
  <2> QED
    BY <2>2, <2>3
<1>7. CASE SettingsPage \/ SettingsWork \/ RequestPage \/ UNCHANGED vars
  <2>1. transactions' = transactions /\ sends' = sends
    BY <1>7 DEF SettingsPage, PinStep, OpenDialog, CancelDialog, TypeCurrent,
       TypeNew, SubmitDialog, ToggleSetting, EnableBiometric, DisableBiometric,
       SettingsWork, PinWork, ChangePin, DisablePin, BiometricAnswered,
       RequestPage, RequestStep, EditRequest, SubmitRequest, GenerateLink,
       AnotherRequest, authVars, sendVars, vars
  <2>2. Untold
    BY <2>1 DEF Untold
  <2> QED
    BY <1>1, <2>2, UntoldKeepsHistory
<1> QED
  BY <1>3, <1>4, <1>5, <1>6, <1>7 DEF Next

\* The history has every payment that was made, unless newer entries have
\* pushed it out, with the payee and the amount of its packet.
THEOREM HistoryTold == Spec => []HistoryTellsPayments
<1>1. HistoryInv => HistoryTellsPayments
  <2> SUFFICES ASSUME HistoryInv, NEW p \in Payments
               PROVE  LET mine == {i \in DOMAIN transactions :
                                      transactions[i].id = p} IN
                      /\ sends[p].stage = "sent" /\ Len(transactions) < HistoryMax
                            => mine # {}
                      /\ \A i \in mine : /\ p \in Packeted
                                         /\ transactions[i].to = sends[p].to
                                         /\ transactions[i].amount = sends[p].amount
    BY DEF HistoryTellsPayments
  <2>1. DOMAIN transactions = 1..Len(transactions)
    BY LenProperties DEF HistoryInv, TypeInv, AuthTypeOK
  <2> QED
    BY <2>1 DEF HistoryInv, Tells, Packeted
<1> QED
  BY <1>1, InitHistory, NextHistory, PTL DEF Spec

-----------------------------------------------------------------------------
(* The PIN.                                                                *)

\* A dialog that disables the PIN has no field for a new one, and a call
\* that will do something was asked to, by someone who had the PIN.
PinInv ==
    /\ TypeInv
    /\ dialog.action = "disable" => dialog.new = NoPin /\ dialog.confirm = NoPin
    /\ \A t \in Submits :
          pinTasks[t].will # "none" =>
             LET asked == pinTasks[t].asked IN
             /\ pinTasks[t].right
             /\ asked.action = pinTasks[t].will
             /\ asked.confirm = asked.new
             /\ asked.new = NoPin <=> pinTasks[t].will = "disable"

LEMMA TasksType ==
    ASSUME TypeInv
    PROVE  dialog \in Dialogs /\ pinTasks \in [Submits -> Tasks]
BY DEF TypeInv, PinTypeOK, Tasks

LEMMA InitPin == Init => PinInv
BY InitType DEF Init, PinInit, PinInv, Closed, NoTask

LEMMA NextPin == PinInv /\ [Next]_vars => PinInv'
<1> SUFFICES ASSUME PinInv, [Next]_vars PROVE PinInv'
  OBVIOUS
<1>1. /\ TypeInv' /\ dialog \in Dialogs /\ pinTasks \in [Submits -> Tasks]
  BY NextType, TasksType DEF PinInv
<1>2. ASSUME UNCHANGED pinTasks,
             dialog'.action = "disable" =>
                \/ dialog'.new = NoPin /\ dialog'.confirm = NoPin
                \/ /\ dialog.action = "disable"
                   /\ dialog'.new = dialog.new /\ dialog'.confirm = dialog.confirm
      PROVE  PinInv'
  BY <1>1, <1>2 DEF PinInv
<1>3. ASSUME NEW t \in Submits, SubmitDialog(t) PROVE PinInv'
  <2>1. /\ dialog' = dialog
        /\ pinTasks'[t] = [will |-> dialog.action, right |-> TRUE,
                           asked |-> dialog, live |-> TRUE]
        /\ dialog.action = "change" => Confirmed
        /\ \A u \in Submits \ {t} : pinTasks'[u] = pinTasks[u]
    BY <1>1, <1>3 DEF SubmitDialog, PinOutcome, Verifies
  <2>2. dialog.action \in {"change", "disable"}
    BY <1>1 DEF Dialogs
  <2> QED
    BY <1>1, <2>1, <2>2 DEF PinInv, Confirmed
<1>4. ASSUME NEW t \in Submits, ChangePin(t) \/ DisablePin(t) PROVE PinInv'
  <2>1. /\ dialog' = dialog \/ dialog' = Closed
        /\ pinTasks'[t].will = "none"
        /\ \A u \in Submits \ {t} : pinTasks'[u] = pinTasks[u]
    <3>1. dialog' = dialog \/ dialog' = Closed
      BY <1>4 DEF ChangePin, DisablePin
    <3>2. pinTasks' = [pinTasks EXCEPT ![t] = NoTask]
      BY <1>4 DEF ChangePin, DisablePin, EndTask
    <3>3. NoTask.will = "none"
      BY DEF NoTask
    <3> QED
      BY <1>1, <3>1, <3>2, <3>3
  <2> QED
    BY <1>1, <2>1 DEF PinInv, Closed
<1>5. CASE \/ \E action \in {"change", "disable"} : OpenDialog(action)
           \/ CancelDialog \/ TypeCurrent \/ TypeNew
  <2>1. /\ UNCHANGED pinTasks
        /\ dialog'.action = "disable" =>
              \/ dialog'.new = NoPin /\ dialog'.confirm = NoPin
              \/ /\ dialog.action = "disable"
                 /\ dialog'.new = dialog.new /\ dialog'.confirm = dialog.confirm
    <3>1. UNCHANGED pinTasks
      BY <1>5 DEF OpenDialog, CancelDialog, TypeCurrent, TypeNew
    <3>2. CASE CancelDialog \/ \E action \in {"change", "disable"} : OpenDialog(action)
      <4>1. dialog'.new = NoPin /\ dialog'.confirm = NoPin
        <5>1. CASE CancelDialog
          BY <5>1 DEF CancelDialog, Closed
        <5>2. ASSUME NEW action \in {"change", "disable"}, OpenDialog(action)
              PROVE  dialog'.new = NoPin /\ dialog'.confirm = NoPin
          BY <5>2 DEF OpenDialog, Closed
        <5> QED
          BY <3>2, <5>1, <5>2
      <4> QED
        BY <3>1, <4>1
    <3>3. CASE TypeCurrent
      BY <1>1, <3>1, <3>3 DEF TypeCurrent, Dialogs
    <3>4. CASE TypeNew
      BY <1>1, <3>1, <3>4 DEF TypeNew, Dialogs
    <3> QED
      BY <1>5, <3>2, <3>3, <3>4
  <2> QED
    BY <1>2, <2>1
<1>6. ASSUME NEW to \in Pages, Navigate(to) PROVE PinInv'
  <2>1. /\ dialog' = Closed
        /\ \A t \in Submits : /\ pinTasks'[t].will = pinTasks[t].will
                              /\ pinTasks'[t].right = pinTasks[t].right
                              /\ pinTasks'[t].asked = pinTasks[t].asked
    BY <1>1, <1>6 DEF Navigate, LeaveSettings, Tasks
  <2> QED
    BY <1>1, <2>1 DEF PinInv, Closed
<1>7. CASE UNCHANGED <<dialog, pinTasks>>
  BY <1>2, <1>7 DEF PinInv
<1>8. CASE SettingsPage
  BY <1>3, <1>5, <1>7, <1>8 DEF SettingsPage, PinStep, ToggleSetting,
     EnableBiometric, DisableBiometric, pinVars
<1>9. CASE SettingsWork
  BY <1>4, <1>7, <1>9 DEF SettingsWork, PinWork, BiometricAnswered
<1>10. CASE \/ SendPage \/ SplitPage \/ RequestPage \/ UNCHANGED vars
            \/ \E p \in Payments : SendWork(p)
  BY <1>7, <1>10 DEF SendPage, SplitPage, RequestPage, SendWork, vars, pinVars
<1> QED
  BY <1>6, <1>8, <1>9, <1>10 DEF Next

\* The PIN becomes what was typed twice alike by someone who had the PIN in
\* force, and goes only if such a person asked for it.
THEOREM PinConfirmed == Spec => PinWasConfirmed
<1> DEFINE Asked == \E t \in Submits :
              LET asked == pinTasks[t].asked IN
              /\ pinTasks[t].right
              /\ asked.action = IF pinHash' = NoPin THEN "disable" ELSE "change"
              /\ asked.new = pinHash' /\ asked.confirm = pinHash'
<1>1. ASSUME PinInv, [Next]_vars, pinHash' # pinHash PROVE Asked
  <2>1. PICK t \in Submits : ChangePin(t) \/ DisablePin(t)
    <3>1. SettingsWork \/ \E p \in Payments : SendWork(p)
      BY <1>1 DEF Next, Navigate, SendPage, SendStep, EditRecipient, EditAmount,
         SubmitPayment, TypePin, SubmitPin, PinChecked, Cancel, GoBack, Confirm,
         SendAnother, SettingsPage, PinStep, OpenDialog, CancelDialog,
         TypeCurrent, TypeNew, SubmitDialog, ToggleSetting, EnableBiometric,
         DisableBiometric, SplitPage, SplitStep, EditTotal, EqualSplit,
         SubmitBill, BackToBill, AddParticipant, RemoveParticipant, EditShare,
         ConfirmBill, AnotherBill, RequestPage, RequestStep, EditRequest,
         SubmitRequest, GenerateLink, AnotherRequest, authVars, vars
    <3>2. SettingsWork
      BY <1>1, <3>1 DEF SendWork, Encrypted, SendDone, SendFails, authVars
    <3> QED
      BY <1>1, <3>2 DEF SettingsWork, PinWork, BiometricAnswered
  <2>2. pinTasks[t].will # "none"
    BY <2>1 DEF ChangePin, DisablePin
  <2>3. /\ pinTasks[t].right
        /\ pinTasks[t].asked.action = pinTasks[t].will
        /\ pinTasks[t].asked.confirm = pinTasks[t].asked.new
        /\ pinTasks[t].asked.new = NoPin <=> pinTasks[t].will = "disable"
    BY <1>1, <2>2 DEF PinInv
  <2>4. /\ pinHash' = pinTasks[t].asked.new
        /\ pinTasks[t].will = IF pinHash' = NoPin THEN "disable" ELSE "change"
    BY <2>1, <2>3 DEF ChangePin, DisablePin, NewPin
  <2> QED
    BY <2>3, <2>4
<1>2. PinInv /\ [Next]_vars => [pinHash' # pinHash => Asked]_<<authVars, pinVars>>
  BY <1>1
<1> QED
  BY <1>2, InitPin, NextPin, PTL DEF Spec, PinWasConfirmed
=============================================================================
