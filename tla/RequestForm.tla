---------------------------- MODULE RequestForm -----------------------------
(***************************************************************************)
(* RequestPage.tsx: a request for money, as a link to copy.  It leaves no  *)
(* trace in the store: the page takes addTransaction and never calls it.   *)
(* Of the fields all that matters is whether handleSubmit() accepts them.  *)
(***************************************************************************)
EXTENDS AuthStore

VARIABLE ask  \* the state of the page

EmptyAsk == [step |-> "input", valid |-> FALSE, link |-> FALSE]

RequestTypeOK ==
    ask \in [step : {"input", "success"}, valid : BOOLEAN, link : BOOLEAN]

RequestInit == ask = EmptyAsk

\* The fields: a valid VPA and a positive amount, or not.
EditRequest ==
    /\ ask.step = "input"
    /\ \E ok \in BOOLEAN : ask' = [ask EXCEPT !.valid = ok]
    /\ UNCHANGED authVars

\* handleSubmit() accepts.
SubmitRequest ==
    /\ ask.step = "input" /\ ask.valid
    /\ ask' = [ask EXCEPT !.step = "success"]
    /\ UNCHANGED authVars

\* handleGenerateLink(); copyLink() hands the link to the clipboard.
GenerateLink ==
    /\ ask.step = "success"
    /\ ask' = [ask EXCEPT !.link = TRUE]
    /\ UNCHANGED authVars

\* resetForm().
AnotherRequest ==
    /\ ask.step = "success"
    /\ ask' = EmptyAsk
    /\ UNCHANGED authVars

RequestStep == EditRequest \/ SubmitRequest \/ GenerateLink \/ AnotherRequest

LeaveRequest == ask' = EmptyAsk
=============================================================================
