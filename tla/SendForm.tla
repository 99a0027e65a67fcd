------------------------------ MODULE SendForm ------------------------------
(***************************************************************************)
(* SendPage.tsx: the form for a payment, its PIN, its confirmation, and    *)
(* the handlers that go on while they await.                               *)
(*                                                                         *)
(* A handler works with the values its component was last rendered with:   *)
(* what the user types while handleConfirm() awaits does not reach it, but *)
(* its setStep() does reach whatever the user has gone to meanwhile.  When *)
(* the page is left, such calls have no effect any more, but the rest of   *)
(* the handler runs on.  What becomes of the packet is PhoneOutbox.        *)
(***************************************************************************)
EXTENDS AuthStore

CONSTANTS
    People,     \* the VPAs one can pay
    Nobody,     \* no valid VPA in the field; no contact chosen
    Contacts,   \* those of the people who are contacts
    Amounts,    \* what one can type as an amount, 0 for an empty field
    Balance,    \* of the account, which the app does not debit
    Payments,   \* bound of the model: taps on "Confirm & Send"
    MaxEntries  \* bound of the model: submissions of the right PIN

ASSUME SendAssumption ==
    /\ 0 \in Amounts /\ Amounts \subseteq Nat
    /\ "none" \notin Payments
    /\ MaxEntries \in Nat

VARIABLES
    form,    \* the state of the page; checked, history: it has had the PIN
    checks,  \* PIN checks that await the digest, by their outcome
    sends,   \* the calls of handleConfirm()
    entries  \* history: how often the right PIN was submitted

sendVars == <<form, checks, sends, entries>>

Blank == [step |-> "input", recipient |-> Nobody, amount |-> 0,
          contact |-> Nobody, pin |-> NoPin, checked |-> FALSE]

NoChecks == [right |-> 0, wrong |-> 0]

SendStages == {"none", "encrypting", "storing", "refused", "unstored", "sent"}

SendTypeOK ==
    /\ form \in [step : {"input", "pin", "confirm", "success"},
                 recipient : People \union {Nobody}, amount : Amounts,
                 contact : People \union {Nobody}, pin : Pins \union {NoPin},
                 checked : BOOLEAN]
    /\ checks \in [right : 0..MaxEntries, wrong : 0..1]
    /\ sends \in [Payments -> [stage : SendStages, to : People \union {Nobody},
                               amount : Amounts, live : BOOLEAN,
                               checked : BOOLEAN]]
    /\ entries \in 0..MaxEntries

SendInit ==
    /\ form = Blank
    /\ checks = NoChecks
    /\ sends = [p \in Payments |-> [stage |-> "none", to |-> Nobody, amount |-> 0,
                                    live |-> FALSE, checked |-> FALSE]]
    /\ entries = 0

InFlight(p) == sends[p].stage \in {"encrypting", "storing"}

\* The page's loading flag, which disables the buttons.
Loading == \E p \in Payments : InFlight(p) /\ sends[p].live

-----------------------------------------------------------------------------

EditRecipient ==
    /\ form.step = "input"
    /\ \E v \in People \union {Nobody} :
        \/ form' = [form EXCEPT !.recipient = v]
        \/ v \in Contacts /\ form' = [form EXCEPT !.recipient = v, !.contact = v]
    /\ UNCHANGED <<authVars, checks, sends, entries>>

EditAmount ==
    /\ form.step = "input"
    /\ \E a \in Amounts : form' = [form EXCEPT !.amount = a]
    /\ UNCHANGED <<authVars, checks, sends, entries>>

\* handleSubmit() accepts the form.
SubmitPayment ==
    /\ form.step = "input" /\ ~Loading
    /\ form.recipient # Nobody
    /\ form.amount > 0 /\ form.amount <= Balance
    /\ form' = [form EXCEPT !.step = "pin", !.contact = form.recipient]
    /\ UNCHANGED <<authVars, checks, sends, entries>>

TypePin ==
    /\ form.step = "pin"
    /\ \E pin \in Pins \union {NoPin} : form' = [form EXCEPT !.pin = pin]
    /\ UNCHANGED <<authVars, checks, sends, entries>>

\* Mutant of Outcome: the promise of verifyPin() is not awaited.
Truthy(pin) == "right"

Outcome(pin) == IF Verifies(pin) THEN "right" ELSE "wrong"

\* handlePinSubmit() up to the digest.  Nothing keeps one from submitting
\* again, or from going elsewhere, before it has come.
SubmitPin ==
    /\ form.step = "pin"
    /\ form.pin # NoPin
    /\ IF Outcome(form.pin) = "right"
       THEN /\ entries < MaxEntries
            /\ checks' = [checks EXCEPT !.right = @ + 1]
       ELSE /\ checks.wrong = 0
            /\ checks' = [checks EXCEPT !.wrong = 1]
    /\ IF Verifies(form.pin)
       THEN entries' = entries + 1 /\ form' = [form EXCEPT !.checked = TRUE]
       ELSE UNCHANGED <<entries, form>>
    /\ UNCHANGED <<authVars, sends>>

\* The rest of handlePinSubmit(), wherever the form is by now.
PinChecked ==
    /\ \/ /\ checks.right > 0
          /\ checks' = [checks EXCEPT !.right = @ - 1]
          /\ form' = [form EXCEPT !.step = "confirm"]
       \/ /\ checks.wrong > 0
          /\ checks' = [checks EXCEPT !.wrong = 0]
          /\ form' = [form EXCEPT !.pin = NoPin]
    /\ UNCHANGED <<authVars, sends, entries>>

\* "Cancel" and "Go Back" are never disabled, whatever is under way.
Cancel ==
    /\ form.step = "pin"
    /\ form' = [form EXCEPT !.step = "input"]
    /\ UNCHANGED <<authVars, checks, sends, entries>>

GoBack ==
    /\ form.step = "confirm"
    /\ form' = [form EXCEPT !.step = "pin"]
    /\ UNCHANGED <<authVars, checks, sends, entries>>

\* handleConfirm() up to the encryption, with the values on the screen.
Confirm(p) ==
    /\ form.step = "confirm" /\ ~Loading
    /\ form.contact # Nobody
    /\ sends[p].stage = "none"
    /\ sends' = [sends EXCEPT ![p] = [stage |-> "encrypting", to |-> form.contact,
                    amount |-> form.amount, live |-> TRUE, checked |-> form.checked]]
    /\ UNCHANGED <<authVars, form, checks, entries>>

\* The packet is in the store's outbox, or could not be encrypted.
Encrypted(p) ==
    /\ sends[p].stage = "encrypting"
    /\ \E next \in {"storing", "refused"} :
           sends' = [sends EXCEPT ![p].stage = next]
    /\ UNCHANGED <<authVars, form, checks, entries>>

\* Mutant of Entry: the amount on the screen now, not when it was confirmed.
EntryOnScreen(p) == [type |-> "SEND", id |-> p, to |-> sends[p].to,
                     amount |-> form.amount]

Entry(p) == [type |-> "SEND", id |-> p, to |-> sends[p].to,
             amount |-> sends[p].amount]

\* The packet is in storage as well: the history gets its entry.
SendDone(p) ==
    /\ sends[p].stage = "storing"
    /\ sends' = [sends EXCEPT ![p].stage = "sent"]
    /\ transactions' = WithTransactions(<<Entry(p)>>)
    /\ form' = IF sends[p].live THEN [form EXCEPT !.step = "success"] ELSE form
    /\ UNCHANGED <<pinHash, biometricEnabled, settings, checks, entries>>

\* The write to storage throws, with the packet in the outbox.
SendFails(p) ==
    /\ sends[p].stage = "storing"
    /\ sends' = [sends EXCEPT ![p].stage = "unstored"]
    /\ UNCHANGED <<authVars, form, checks, entries>>

\* resetForm(), by "Done".  A check under way is not cancelled.
SendAnother ==
    /\ form.step = "success"
    /\ form' = [Blank EXCEPT !.checked = form.checked]
    /\ UNCHANGED <<authVars, checks, sends, entries>>

SendStep ==
    \/ EditRecipient \/ EditAmount \/ SubmitPayment
    \/ TypePin \/ SubmitPin \/ PinChecked \/ Cancel \/ GoBack
    \/ \E p \in Payments : Confirm(p)
    \/ SendAnother

\* The page is left: what its handlers do to its state is lost.
LeaveSend ==
    /\ form' = Blank
    /\ checks' = NoChecks
    /\ sends' = [p \in Payments |-> [sends[p] EXCEPT !.live = FALSE]]
    /\ UNCHANGED entries

-----------------------------------------------------------------------------
(* Properties.                                                             *)

Packeted == {p \in Payments : sends[p].stage \in {"storing", "unstored", "sent"}}

\* Whatever order the digests, the taps and the navigation come in, a packet
\* leaves only from a form on which the PIN in force was submitted, and one
\* submission of it completes one payment at most.
AuthorisedByPin ==
    /\ \A p \in Packeted : sends[p].checked
    /\ Cardinality({p \in Payments : sends[p].stage = "sent"}) <= entries

\* The history has every payment that was completed, unless newer entries
\* have pushed it out, and with the amount and the payee of its packet,
\* though the form may show others by the time it is written.
HistoryTellsPayments ==
    \A p \in Payments :
        LET mine == {i \in DOMAIN transactions : transactions[i].id = p} IN
        /\ sends[p].stage = "sent" /\ Len(transactions) < HistoryMax => mine # {}
        /\ \A i \in mine : /\ p \in Packeted
                           /\ transactions[i].to = sends[p].to
                           /\ transactions[i].amount = sends[p].amount
=============================================================================
