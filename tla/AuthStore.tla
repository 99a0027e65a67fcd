----------------------------- MODULE AuthStore ------------------------------
(***************************************************************************)
(* The part of the app's user store (useAuthStore.ts) that its pages write *)
(* to: the PIN, the biometric switch, the settings and the history.        *)
(*                                                                         *)
(* The hash of a PIN stands for the PIN.  The account and the contacts are *)
(* constants: no page of this commit changes them.                         *)
(***************************************************************************)
EXTENDS Integers, Sequences, FiniteSets, Functions

CONSTANTS
    Pins,       \* what one can type as a PIN, four digits each
    NoPin,      \* no PIN is set; or a field without four digits in it
    Toggles,    \* settings of a switch of their own, such as pinEnabled
    HistoryMax  \* addTransaction() keeps so many entries, the newest

ASSUME StoreAssumption == HistoryMax \in Nat

VARIABLES
    pinHash,           \* the PIN in force
    biometricEnabled,
    settings,          \* the settings that are on
    transactions       \* the history, newest first

authVars == <<pinHash, biometricEnabled, settings, transactions>>

Keys == Toggles \union {"pinEnabled", "biometricEnabled"}

\* What the store holds when the app starts: any PIN, and no history yet.
AuthInit ==
    /\ pinHash \in Pins \union {NoPin}
    /\ biometricEnabled = FALSE
    /\ settings = {"pinEnabled"}
    /\ transactions = <<>>

\* verifyPin(), whose outcome is decided before it awaits the digest.
Verifies(pin) == pinHash # NoPin /\ pin = pinHash

\* Mutant of Newest: the history is not cut.
Untrimmed(history) == history

Newest(history) == SubSeq(history, 1, IF Len(history) < HistoryMax
                                      THEN Len(history) ELSE HistoryMax)

\* addTransaction(), once for each entry, the last of them ending up first.
WithTransactions(entries) ==
    Newest([i \in 1..Len(entries) |-> entries[Len(entries) + 1 - i]]
           \o transactions)

\* updateSettings({[key]: value}).
WithSetting(key, on) == IF on THEN settings \union {key} ELSE settings \ {key}
=============================================================================
