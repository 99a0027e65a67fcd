---------------------------- MODULE PinSettings -----------------------------
(***************************************************************************)
(* SettingsPage.tsx: the dialog that changes or disables the PIN, and the  *)
(* switches.                                                               *)
(*                                                                         *)
(* handlePinSubmit() awaits a digest, or two.  The dialog stays open, and  *)
(* can be filled in and submitted again, meanwhile; a call under way works *)
(* with the fields and the PIN it began with, so that what it will do is   *)
(* decided then, and it goes on when the page is left.                     *)
(***************************************************************************)
EXTENDS AuthStore

CONSTANTS
    Submits,   \* bound of the model: calls of handlePinSubmit() at once
    MaxAsking  \* bound of the model: calls of enableBiometric() at once

ASSUME AskingAssumption == MaxAsking \in Nat

VARIABLES
    dialog,    \* the PIN dialog
    pinTasks,  \* the calls of handlePinSubmit() that await a digest
    asking     \* how many calls of enableBiometric() await the platform

pinVars == <<dialog, pinTasks, asking>>

Closed == [open |-> FALSE, action |-> "change", current |-> NoPin,
           new |-> NoPin, confirm |-> NoPin]

NoTask == [will |-> "none", right |-> FALSE, asked |-> Closed, live |-> FALSE]

Fields == Pins \union {NoPin}

Dialogs == [open : BOOLEAN, action : {"change", "disable"}, current : Fields,
            new : Fields, confirm : Fields]

PinTypeOK ==
    /\ dialog \in Dialogs
    /\ pinTasks \in [Submits -> [will : {"none", "change", "disable"},
                                 right : BOOLEAN, asked : Dialogs,
                                 live : BOOLEAN]]
    /\ asking \in 0..MaxAsking

PinInit ==
    /\ dialog = Closed
    /\ pinTasks = [t \in Submits |-> NoTask]
    /\ asking = 0

-----------------------------------------------------------------------------
(* The dialog.                                                             *)

\* The buttons: there is nothing to disable without a PIN.
Offered(action) == action = "disable" => pinHash # NoPin

\* openPinModal().
OpenDialog(action) ==
    /\ ~dialog.open
    /\ Offered(action)
    /\ dialog' = [Closed EXCEPT !.open = TRUE, !.action = action]
    /\ UNCHANGED <<authVars, pinTasks, asking>>

\* What was typed is still there, and emptied before the dialog is seen again.
CancelDialog ==
    /\ dialog.open
    /\ dialog' = Closed
    /\ UNCHANGED <<authVars, pinTasks, asking>>

\* The field for the current PIN is there if there is one.
TypeCurrent ==
    /\ dialog.open /\ pinHash # NoPin
    /\ \E pin \in Fields : dialog' = [dialog EXCEPT !.current = pin]
    /\ UNCHANGED <<authVars, pinTasks, asking>>

TypeNew ==
    /\ dialog.open /\ dialog.action = "change"
    /\ \E pin \in Fields : \/ dialog' = [dialog EXCEPT !.new = pin]
                           \/ dialog' = [dialog EXCEPT !.confirm = pin]
    /\ UNCHANGED <<authVars, pinTasks, asking>>

Confirmed == dialog.new # NoPin /\ dialog.new = dialog.confirm

\* What handlePinSubmit() is going to do.
PinOutcome ==
    IF Verifies(dialog.current) /\ (dialog.action = "change" => Confirmed)
    THEN dialog.action ELSE "refuse"

\* handlePinSubmit() up to the digest of the current PIN.  One that will end
\* with a message and nothing else is left out; with no PIN in force it is
\* every one.
SubmitDialog(t) ==
    /\ dialog.open
    /\ dialog.current # NoPin
    /\ PinOutcome # "refuse"
    /\ pinTasks[t] = NoTask
    /\ pinTasks' = [pinTasks EXCEPT ![t] =
          [will |-> PinOutcome, right |-> Verifies(dialog.current),
           asked |-> dialog, live |-> TRUE]]
    /\ UNCHANGED <<authVars, dialog, asking>>

EndTask(t) == pinTasks' = [pinTasks EXCEPT ![t] = NoTask]

\* Mutant of NewPin: what the field holds by now, not what was submitted.
PinOnScreen(t) == dialog.new

NewPin(t) == pinTasks[t].asked.new

\* The dialog that is open now is closed, if the page is still the one it
\* was submitted on.
ChangePin(t) ==
    /\ pinTasks[t].will = "change"
    /\ pinHash' = NewPin(t)
    /\ dialog' = IF pinTasks[t].live THEN Closed ELSE dialog
    /\ EndTask(t)
    /\ UNCHANGED <<biometricEnabled, settings, transactions, asking>>

DisablePin(t) ==
    /\ pinTasks[t].will = "disable"
    /\ pinHash' = NoPin
    /\ settings' = WithSetting("pinEnabled", FALSE)
    /\ dialog' = IF pinTasks[t].live THEN Closed ELSE dialog
    /\ EndTask(t)
    /\ UNCHANGED <<biometricEnabled, transactions, asking>>

-----------------------------------------------------------------------------
(* The switches.                                                           *)

\* handleSettingChange(), for a switch of its own, a theme or a language.
ToggleSetting(key) ==
    /\ \E on \in BOOLEAN : settings' = WithSetting(key, on)
    /\ UNCHANGED <<pinHash, biometricEnabled, transactions, pinVars>>

\* The switch works with a PIN only, and stays off until the answer comes,
\* to be tapped again.
EnableBiometric ==
    /\ pinHash # NoPin /\ ~biometricEnabled
    /\ asking < MaxAsking
    /\ asking' = asking + 1
    /\ UNCHANGED <<authVars, dialog, pinTasks>>

\* The platform says whether it can verify its user.  The setting is saved
\* in the same turn, and whatever the answer.
BiometricAnswered ==
    /\ asking > 0
    /\ \E available \in BOOLEAN :
          biometricEnabled' = (biometricEnabled \/ available)
    /\ settings' = WithSetting("biometricEnabled", TRUE)
    /\ asking' = asking - 1
    /\ UNCHANGED <<pinHash, transactions, dialog, pinTasks>>

DisableBiometric ==
    /\ pinHash # NoPin /\ biometricEnabled
    /\ biometricEnabled' = FALSE
    /\ settings' = WithSetting("biometricEnabled", FALSE)
    /\ UNCHANGED <<pinHash, transactions, pinVars>>

PinStep ==
    \/ \E action \in {"change", "disable"} : OpenDialog(action)
    \/ CancelDialog \/ TypeCurrent \/ TypeNew
    \/ \E t \in Submits : SubmitDialog(t)
    \/ \E key \in Toggles : ToggleSetting(key)
    \/ EnableBiometric \/ DisableBiometric

\* What goes on without the user, and without the page.
PinWork ==
    \/ \E t \in Submits : ChangePin(t) \/ DisablePin(t)
    \/ BiometricAnswered

LeaveSettings ==
    /\ dialog' = Closed
    /\ pinTasks' = [t \in Submits |->
                       [pinTasks[t] EXCEPT !.live = FALSE]]
    /\ UNCHANGED asking
-----------------------------------------------------------------------------
(* Properties.                                                             *)

\* However submissions overlap, and whatever is typed, or left, meanwhile:
\* the PIN becomes what somebody, who had the PIN in force when submitting
\* it, had typed twice alike, and goes only if such a person asked for it.
PinWasConfirmed ==
    [][pinHash' # pinHash =>
        \E t \in Submits :
            LET asked == pinTasks[t].asked IN
            /\ pinTasks[t].right
            /\ asked.action = IF pinHash' = NoPin THEN "disable" ELSE "change"
            /\ asked.new = pinHash' /\ asked.confirm = pinHash'
      ]_<<authVars, pinVars>>
=============================================================================
