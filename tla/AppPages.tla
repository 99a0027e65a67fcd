------------------------------ MODULE AppPages ------------------------------
(***************************************************************************)
(* The app as its user sees it: one page at a time (App.tsx, Layout.tsx),  *)
(* over the one user store.  Going to another page discards the state of   *)
(* the page that is left, and not the handlers that it has under way.      *)
(*                                                                         *)
(* The user is onboarded and authenticated and has an account: the pages   *)
(* are behind that, though no code of this commit sets isAuthenticated.    *)
(***************************************************************************)
EXTENDS SendForm, PinSettings, SplitBill, RequestForm

CONSTANT MaxVisits  \* bound of the model: how often one goes to a page

ASSUME VisitsAssumption == MaxVisits \in Nat

VARIABLES
    page,   \* the page that is shown
    visits  \* bound: how often one has gone to a page

Pages == {"other", "send", "request", "split", "settings"}

vars == <<page, visits, authVars, sendVars, pinVars, splitVars, ask>>

Entries ==
    [type : {"SEND", "SPLIT"}, id : Payments \union {"none"},
     to : People \union Friends \union {Nobody, Me}, amount : Nat \union {Cleared}]

\* The type invariant, of the store and of the pages.  That a page that is
\* not shown has no state is part of it.
TypeOK ==
    /\ page \in Pages /\ visits \in 0..MaxVisits
    /\ pinHash \in Pins \union {NoPin}
    /\ biometricEnabled \in BOOLEAN
    /\ settings \subseteq Keys
    /\ transactions \in Seq(Entries) /\ Len(transactions) <= HistoryMax
    /\ SendTypeOK /\ PinTypeOK /\ SplitTypeOK /\ RequestTypeOK
    /\ page # "send" => form = Blank /\ checks = NoChecks /\ ~Loading
    /\ page # "settings" => dialog = Closed
    /\ page # "split" => bill = EmptyBill
    /\ page # "request" => ask = EmptyAsk

Init ==
    /\ page = "other" /\ visits = 0
    /\ AuthInit /\ SendInit /\ PinInit /\ SplitInit /\ RequestInit

\* A link of the bottom navigation, or of a page.
Navigate(to) ==
    /\ page # to /\ visits < MaxVisits
    /\ page' = to /\ visits' = visits + 1
    /\ LeaveSend /\ LeaveSettings /\ LeaveSplit /\ LeaveRequest
    /\ UNCHANGED authVars

SendPage ==
    /\ page = "send"
    /\ SendStep
    /\ UNCHANGED <<page, visits, pinVars, splitVars, ask>>

\* handleConfirm() goes on without its page.
SendWork(p) ==
    /\ Encrypted(p) \/ SendDone(p) \/ SendFails(p)
    /\ UNCHANGED <<page, visits, pinVars, splitVars, ask>>

SettingsPage ==
    /\ page = "settings"
    /\ PinStep
    /\ UNCHANGED <<page, visits, sendVars, splitVars, ask>>

\* So do handlePinSubmit() and handleBiometricToggle().
SettingsWork ==
    /\ PinWork
    /\ UNCHANGED <<page, visits, sendVars, splitVars, ask>>

SplitPage ==
    /\ page = "split"
    /\ SplitStep
    /\ UNCHANGED <<page, visits, sendVars, pinVars, ask>>

RequestPage ==
    /\ page = "request"
    /\ RequestStep
    /\ UNCHANGED <<page, visits, sendVars, pinVars, splitVars>>

Next ==
    \/ \E to \in Pages : Navigate(to)
    \/ SendPage \/ SettingsPage \/ SettingsWork \/ SplitPage \/ RequestPage
    \/ \E p \in Payments : SendWork(p)

Spec == Init /\ [][Next]_vars
=============================================================================
