----------------------------- MODULE MCAppPages -----------------------------
(***************************************************************************)
(* AppPages for TLC: two payments, two PINs, two submissions of the PIN    *)
(* dialog that overlap, a bill of 1.15 rupees, whose half toFixed(2)       *)
(* rounds down, split among up to three, and a history of three entries,   *)
(* so that it overflows.                                                   *)
(***************************************************************************)
EXTENDS AppPages, TLC

CONSTANTS p1, p2, onePin, otherPin, ann, ben, t1, t2

Symmetry == Permutations({p1, p2}) \union Permutations({onePin, otherPin})
            \union Permutations({ann, ben}) \union Permutations({t1, t2})

\* Nothing but its own switch reads whether biometric unlock is on: it is
\* explored while nothing is paid, and on the pages that are small.
BiometricAlone ==
    asking > 0 \/ biometricEnabled \/ "biometricEnabled" \in settings
    => entries = 0 /\ page \notin {"send", "split"}
=============================================================================
