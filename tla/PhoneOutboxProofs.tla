------------------------- MODULE PhoneOutboxProofs --------------------------
(***************************************************************************)
(* What PhoneOutbox guarantees for any set of payments and any number of   *)
(* uploads and gossip rounds at the same time: types, that what the screen *)
(* shows as settled is settled, that a stored payment stays in the outbox, *)
(* and that a verdict stands.                                              *)
(***************************************************************************)
EXTENDS PhoneOutbox, TLAPS

SyncType == [queue : SUBSET Packets,
             at : Packets \union {NoPacket},
             request : Outcomes \union {"none", "sent", "lost"}]

-----------------------------------------------------------------------------
(* The helpers.                                                            *)

\* Marking a packet keeps the outbox an outbox.
LEMMA UpdateType ==
    ASSUME NEW box \in [Packets -> Statuses], NEW p \in Packets,
           NEW status \in Statuses
    PROVE  UpdateOutboxPacket(box, p, status) \in [Packets -> Statuses]
BY DEF UpdateOutboxPacket

\* So does an answer.
LEMMA JudgedType ==
    ASSUME outbox \in [Packets -> Statuses], NEW p \in Packets, NEW outcome
    PROVE  Judged(p, outcome) \in [Packets -> Statuses]
<1>1. {"settled", "rejected"} \subseteq Statuses
  BY DEF Statuses, Verdicts
<1> QED
  BY <1>1, UpdateType DEF Judged

\* Coming to the next packet keeps the types of the outbox and the uploads.
LEMMA UploadNextType ==
    ASSUME NEW s \in Syncs, NEW box \in [Packets -> Statuses],
           NEW queue \in SUBSET Packets, NEW connected,
           syncs \in [Syncs -> SyncType],
           UploadNext(s, box, queue, connected)
    PROVE  /\ outbox' \in [Packets -> Statuses]
           /\ syncs' \in [Syncs -> SyncType]
<1>1. CASE queue = {} /\ outbox' = box /\ syncs' = [syncs EXCEPT ![s] = Idle]
  BY <1>1 DEF Idle, SyncType
<1>2. CASE \E p \in queue :
             /\ outbox' = UpdateOutboxPacket(box, p, "bridge_pending")
             /\ syncs' = [syncs EXCEPT ![s] =
                    [queue |-> queue \ {p}, at |-> p,
                     request |-> IF connected THEN "sent" ELSE "lost"]]
  <2>1. PICK p \in queue :
             /\ outbox' = UpdateOutboxPacket(box, p, "bridge_pending")
             /\ syncs' = [syncs EXCEPT ![s] =
                    [queue |-> queue \ {p}, at |-> p,
                     request |-> IF connected THEN "sent" ELSE "lost"]]
    BY <1>2
  <2>2. outbox' \in [Packets -> Statuses]
    BY <2>1, UpdateType DEF Statuses
  <2>3. [queue |-> queue \ {p}, at |-> p,
         request |-> IF connected THEN "sent" ELSE "lost"] \in SyncType
    BY DEF SyncType
  <2> QED
    BY <2>1, <2>2, <2>3
<1> QED
  BY <1>1, <1>2 DEF UploadNext

-----------------------------------------------------------------------------
(* Type correctness.                                                       *)

LEMMA TypeOKUnfolded ==
    TypeOK => syncs \in [Syncs -> SyncType] /\ outbox \in [Packets -> Statuses]
BY DEF TypeOK, SyncType

LEMMA InitTypeOK == Init => TypeOK
<1> SUFFICES ASSUME Init PROVE TypeOK
  OBVIOUS
<1>1. syncs \in [Syncs -> SyncType]
  BY DEF Init, Idle, SyncType
<1>2. outbox \in [Packets -> Statuses]
  BY DEF Init, Statuses
<1>3. settled \subseteq claimed /\ claimed \subseteq Packets
  BY PhoneAssumption DEF Init
<1>4. payment \in [Packets -> {"none", "storing", "stored", "failed", "cut"}]
  BY DEF Init
<1> QED
  BY <1>1, <1>2, <1>3, <1>4 DEF Init, TypeOK, SyncType

LEMMA NextTypeOK == TypeOK /\ [Next]_vars => TypeOK'
<1> SUFFICES ASSUME TypeOK, [Next]_vars PROVE TypeOK'
  OBVIOUS
<1> USE DEF startVars, networkVars, meshVars, backendVars
<1>1. CASE OpenApp
  BY <1>1 DEF OpenApp, TypeOK
<1>2. CASE ReadStorage
  BY <1>2 DEF ReadStorage, TypeOK, Stored
<1>3. CASE LoadOutbox
  BY <1>3 DEF LoadOutbox, TypeOK, InOutbox, Statuses
<1>4. CASE CloseApp
  <2>1. syncs' \in [Syncs -> SyncType]
    BY <1>4 DEF CloseApp, Idle, SyncType
  <2>2. payment' \in [Packets -> {"none", "storing", "stored", "failed", "cut"}]
    BY <1>4 DEF CloseApp, TypeOK
  <2> QED
    BY <1>4, <2>1, <2>2 DEF CloseApp, TypeOK, Statuses, SyncType
<1>5. ASSUME NEW p \in Packets, CannotEncrypt(p) PROVE TypeOK'
  BY <1>5 DEF CannotEncrypt, TypeOK
<1>6. ASSUME NEW p \in Packets, Send(p) PROVE TypeOK'
  BY <1>6 DEF Send, TypeOK, Statuses
<1>7. ASSUME NEW p \in Packets, EndSend(p) PROVE TypeOK'
  BY <1>7 DEF EndSend, TypeOK
<1>8. ASSUME NEW p \in Packets, Age(p) PROVE TypeOK'
  BY <1>8 DEF Age, TypeOK
<1>9. CASE SwitchGossip
  BY <1>9 DEF SwitchGossip, TypeOK
<1>10. CASE FindDevice
  BY <1>10 DEF FindDevice, TypeOK
<1>11. ASSUME NEW r \in Rounds, StartRound(r) PROVE TypeOK'
  BY <1>11 DEF StartRound, TypeOK, ToGossip
<1>12. ASSUME NEW r \in Rounds, Gossiped(r) PROVE TypeOK'
  <2>1. outbox' \in [Packets -> Statuses]
    BY <1>12, UpdateType DEF Gossiped, TypeOK, Statuses
  <2> QED
    BY <1>12, <2>1 DEF Gossiped, TypeOK
<1>13. CASE SyncNow
  <2>1. outbox' \in [Packets -> Statuses] /\ syncs' \in [Syncs -> SyncType]
    BY <1>13, TypeOKUnfolded, UploadNextType DEF SyncNow, ToUpload
  <2> QED
    BY <1>13, <2>1 DEF SyncNow, TypeOK, SyncType
<1>14. CASE GoOnline
  <2>1. outbox' \in [Packets -> Statuses] /\ syncs' \in [Syncs -> SyncType]
    BY <1>14, TypeOKUnfolded, UploadNextType DEF GoOnline, ToUpload
  <2> QED
    BY <1>14, <2>1 DEF GoOnline, TypeOK, SyncType
<1>15. CASE GoOffline
  BY <1>15 DEF GoOffline, TypeOK
<1>16. ASSUME NEW s \in Syncs, NEW p \in Packets, Ingest(s, p) PROVE TypeOK'
  <2>1. syncs' \in [Syncs -> SyncType]
    BY <1>16, TypeOKUnfolded DEF Ingest, SyncType
  <2> QED
    BY <1>16, <2>1 DEF Ingest, TypeOK, SyncType
<1>17. ASSUME NEW s \in Syncs, NEW p \in Packets, TakeAnswer(s, p) PROVE TypeOK'
  <2>1. Judged(p, syncs[s].request) \in [Packets -> Statuses]
    BY TypeOKUnfolded, JudgedType
  <2>2. syncs[s].queue \in SUBSET Packets
    BY TypeOKUnfolded DEF SyncType
  <2>3. outbox' \in [Packets -> Statuses] /\ syncs' \in [Syncs -> SyncType]
    BY <1>17, <2>1, <2>2, TypeOKUnfolded, UploadNextType DEF TakeAnswer
  <2> QED
    BY <1>17, <2>3 DEF TakeAnswer, TypeOK, SyncType
<1>18. ASSUME NEW s \in Syncs, LoseRequest(s) PROVE TypeOK'
  <2>1. syncs[s].queue \in SUBSET Packets
    BY TypeOKUnfolded DEF SyncType
  <2>2. outbox' \in [Packets -> Statuses] /\ syncs' \in [Syncs -> SyncType]
    BY <1>18, <2>1, TypeOKUnfolded, UploadNextType DEF LoseRequest
  <2> QED
    BY <1>18, <2>2 DEF LoseRequest, TypeOK, SyncType
<1>same. CASE Cleanup
  BY <1>same DEF Cleanup, TypeOK, Young, Statuses
<1>20. CASE UNCHANGED vars
  BY <1>20 DEF vars, TypeOK
<1> QED
  BY <1>1, <1>2, <1>3, <1>4, <1>5, <1>6, <1>7, <1>8, <1>9, <1>10, <1>11, <1>12,
     <1>13, <1>14, <1>15, <1>16, <1>17, <1>18, <1>same, <1>20 DEF Next

\* The outbox, the uploads, the rounds and the history have their types.
THEOREM TypeCorrect == Spec => []TypeOK
BY InitTypeOK, NextTypeOK, PTL DEF Spec

-----------------------------------------------------------------------------
(* What is shown as settled is settled.                                    *)

\* SettledIsSettled is not inductive: an answer on its way says it too.
AnswerIsTrue ==
    \A s \in Syncs : syncs[s].request = "SETTLED" => syncs[s].at \in settled

ShownInv == TypeOK /\ SettledIsSettled /\ AnswerIsTrue

\* Marking a packet settles none, unless it is marked as settled.
LEMMA UpdateSettlesNone ==
    ASSUME NEW box \in [Packets -> Statuses], NEW p \in Packets,
           NEW status \in Statuses, NEW q \in Packets,
           UpdateOutboxPacket(box, p, status)[q] = "settled"
    PROVE  box[q] = "settled" \/ (q = p /\ status = "settled")
BY DEF UpdateOutboxPacket

\* Coming to the next packet neither settles one nor answers a request.
LEMMA UploadNextSettlesNone ==
    ASSUME TypeOK, AnswerIsTrue,
           NEW s \in Syncs, NEW box \in [Packets -> Statuses],
           \A q \in Packets : box[q] = "settled" => q \in settled,
           NEW queue \in SUBSET Packets, NEW connected,
           UploadNext(s, box, queue, connected),
           UNCHANGED settled
    PROVE  SettledIsSettled' /\ AnswerIsTrue'
<1>1. CASE queue = {} /\ outbox' = box /\ syncs' = [syncs EXCEPT ![s] = Idle]
  BY <1>1, TypeOKUnfolded DEF SettledIsSettled, AnswerIsTrue, Idle
<1>2. ASSUME NEW p \in queue,
             outbox' = UpdateOutboxPacket(box, p, "bridge_pending"),
             syncs' = [syncs EXCEPT ![s] =
                 [queue |-> queue \ {p}, at |-> p,
                  request |-> IF connected THEN "sent" ELSE "lost"]]
      PROVE  SettledIsSettled' /\ AnswerIsTrue'
  <2>1. SettledIsSettled'
    BY <1>2, UpdateSettlesNone DEF SettledIsSettled, Statuses
  <2>2. AnswerIsTrue'
    BY <1>2, TypeOKUnfolded DEF AnswerIsTrue
  <2> QED
    BY <2>1, <2>2
<1> QED
  BY <1>1, <1>2 DEF UploadNext

LEMMA NextShownInv == ShownInv /\ [Next]_vars => ShownInv'
<1> SUFFICES ASSUME ShownInv, [Next]_vars PROVE ShownInv'
  OBVIOUS
<1> USE DEF startVars, networkVars, meshVars, backendVars
<1>0. TypeOK /\ TypeOK' /\ SettledIsSettled /\ AnswerIsTrue
  BY NextTypeOK DEF ShownInv
<1> SUFFICES SettledIsSettled' /\ AnswerIsTrue'
  BY <1>0 DEF ShownInv
<1>1. CASE UNCHANGED <<outbox, syncs, settled>>
  BY <1>0, <1>1 DEF SettledIsSettled, AnswerIsTrue
<1>2. CASE LoadOutbox
  BY <1>0, <1>2 DEF LoadOutbox, SettledIsSettled, AnswerIsTrue
<1>3. CASE CloseApp
  BY <1>0, <1>3 DEF CloseApp, SettledIsSettled, AnswerIsTrue, Idle
<1>4. ASSUME NEW p \in Packets, Send(p) PROVE SettledIsSettled' /\ AnswerIsTrue'
  BY <1>0, <1>4, TypeOKUnfolded DEF Send, SettledIsSettled, AnswerIsTrue
<1>5. ASSUME NEW r \in Rounds, Gossiped(r)
      PROVE  SettledIsSettled' /\ AnswerIsTrue'
  <2>1. PICK p \in rounds[r] :
            outbox' = UpdateOutboxPacket(outbox, p, "gossiping")
    BY <1>5 DEF Gossiped
  <2>2. p \in Packets
    BY <1>0, <2>1 DEF TypeOK
  <2>3. SettledIsSettled'
    BY <1>0, <1>5, <2>1, <2>2, TypeOKUnfolded, UpdateSettlesNone
    DEF Gossiped, SettledIsSettled, Statuses
  <2> QED
    BY <1>0, <1>5, <2>3 DEF Gossiped, AnswerIsTrue
<1>6. CASE \E s \in Syncs, connected \in BOOLEAN :
              UploadNext(s, outbox, ToUpload, connected) /\ UNCHANGED settled
  BY <1>0, <1>6, TypeOKUnfolded, UploadNextSettlesNone
  DEF ToUpload, SettledIsSettled
<1>7. CASE SyncNow
  BY <1>0, <1>6, <1>7 DEF SyncNow, TypeOK
<1>8. CASE GoOnline
  BY <1>1, <1>6, <1>8 DEF GoOnline
<1>9. ASSUME NEW s \in Syncs, NEW p \in Packets, Ingest(s, p)
      PROVE  SettledIsSettled' /\ AnswerIsTrue'
  <2>1. PICK outcome \in Outcomes :
            /\ settled' = IF outcome = "SETTLED" THEN settled \union {p}
                          ELSE settled
            /\ syncs' = [syncs EXCEPT ![s].request = outcome]
    BY <1>9 DEF Ingest
  <2>2. SettledIsSettled'
    BY <1>0, <1>9, <2>1 DEF Ingest, SettledIsSettled
  <2>3. AnswerIsTrue'
    BY <1>0, <1>9, <2>1, TypeOKUnfolded DEF Ingest, AnswerIsTrue, SyncType
  <2> QED
    BY <2>2, <2>3
<1>10. ASSUME NEW s \in Syncs, NEW p \in Packets, TakeAnswer(s, p)
       PROVE  SettledIsSettled' /\ AnswerIsTrue'
  <2> DEFINE box == Judged(p, syncs[s].request)
  <2>1. box \in [Packets -> Statuses] /\ syncs[s].queue \in SUBSET Packets
    BY <1>0, TypeOKUnfolded, JudgedType DEF SyncType
  <2>2. ASSUME NEW q \in Packets, box[q] = "settled" PROVE q \in settled
    <3>1. CASE syncs[s].request = "SETTLED"
      BY <1>0, <1>10, <2>2, <3>1, TypeOKUnfolded, UpdateSettlesNone
      DEF Judged, TakeAnswer, SettledIsSettled, AnswerIsTrue, Statuses, Verdicts
    <3>2. CASE syncs[s].request # "SETTLED"
      BY <1>0, <2>2, <3>2, TypeOKUnfolded, UpdateSettlesNone
      DEF Judged, SettledIsSettled, Statuses, Verdicts
    <3> QED
      BY <3>1, <3>2
  <2> HIDE DEF box
  <2>3. UploadNext(s, box, syncs[s].queue, online) /\ UNCHANGED settled
    BY <1>10 DEF TakeAnswer, box
  <2> QED
    BY <1>0, <2>1, <2>2, <2>3, UploadNextSettlesNone
<1>11. ASSUME NEW s \in Syncs, LoseRequest(s)
       PROVE  SettledIsSettled' /\ AnswerIsTrue'
  <2>1. syncs[s].queue \in SUBSET Packets
    BY <1>0, TypeOKUnfolded DEF SyncType
  <2>2. UploadNext(s, outbox, syncs[s].queue, online) /\ UNCHANGED settled
    BY <1>11 DEF LoseRequest
  <2> QED
    BY <1>0, <2>1, <2>2, TypeOKUnfolded, UploadNextSettlesNone
    DEF SettledIsSettled
<1>12. CASE Cleanup
  BY <1>0, <1>12 DEF Cleanup, SettledIsSettled, AnswerIsTrue
<1>13. CASE \/ OpenApp \/ ReadStorage \/ SwitchGossip \/ FindDevice
            \/ GoOffline \/ UNCHANGED vars
            \/ \E p \in Packets : CannotEncrypt(p) \/ EndSend(p) \/ Age(p)
            \/ \E r \in Rounds : StartRound(r)
  BY <1>1, <1>13 DEF OpenApp, ReadStorage, SwitchGossip, FindDevice, GoOffline,
     CannotEncrypt, EndSend, Age, StartRound, vars
<1> QED
  BY <1>2, <1>3, <1>4, <1>5, <1>7, <1>8, <1>9, <1>10, <1>11, <1>12, <1>13
  DEF Next

\* Whatever uploads, rounds, restarts and cleanups overlap, a payment that is
\* shown as settled has been settled by the backend.
THEOREM ShownSettledIsSettled == Spec => []SettledIsSettled
<1>1. Init => ShownInv
  BY InitTypeOK DEF Init, ShownInv, SettledIsSettled, AnswerIsTrue, Idle
<1>2. ShownInv => SettledIsSettled
  BY DEF ShownInv
<1> QED
  BY <1>1, <1>2, NextShownInv, PTL DEF Spec

-----------------------------------------------------------------------------
(* Stored payments stay in the outbox.                                     *)

Written == {p \in Packets : payment[p] \in {"storing", "stored"}}

\* KeptInOutbox is not inductive: a payment being stored must be there too,
\* and while the start-up sits on what it read, that counts as being there.
OutboxInv ==
    /\ TypeOK
    /\ read \subseteq Stored
    /\ \A p \in Packets : payment[p] = "none" => outbox[p] = "absent"
    /\ app = "loading" =>
           \A p \in Written \ aged : p \in read \/ outbox[p] # "absent"
    /\ app = "running" =>
           \A p \in Written \ (aged \union unread) : outbox[p] # "absent"

\* What all steps have in common but those of start-up and end: no packet
\* leaves the outbox young, and none enters it but by being made.
Keeping ==
    /\ UNCHANGED startVars
    /\ aged \subseteq aged'
    /\ \A p \in Packets :
        /\ outbox'[p] = "absent" => outbox[p] = "absent" \/ p \in aged
        /\ p \in Written' => p \in Written \/ outbox'[p] # "absent"
        /\ payment[p] = "stored" => payment'[p] = "stored"
        /\ payment'[p] = "none" => /\ payment[p] = "none"
                                   /\ outbox[p] = "absent" => outbox'[p] = "absent"

LEMMA KeepingKeeps ==
    ASSUME OutboxInv, Keeping, TypeOK' PROVE OutboxInv'
<1> USE DEF OutboxInv, Keeping, startVars
<1>1. read' \subseteq Stored'
  BY DEF Stored
<1>2. \A p \in Packets : payment'[p] = "none" => outbox'[p] = "absent"
  OBVIOUS
<1>3. ASSUME app' = "loading", NEW p \in Written' \ aged'
      PROVE  p \in read' \/ outbox'[p] # "absent"
  BY <1>3 DEF Written
<1>4. ASSUME app' = "running", NEW p \in Written' \ (aged' \union unread')
      PROVE  outbox'[p] # "absent"
  BY <1>4 DEF Written
<1> QED
  BY <1>1, <1>2, <1>3, <1>4

\* Marking a packet neither adds it nor takes it away.
LEMMA UpdateKeepsPresence ==
    ASSUME NEW box \in [Packets -> Statuses], NEW p \in Packets,
           NEW status \in Statuses \ {"absent"}, NEW q \in Packets
    PROVE  UpdateOutboxPacket(box, p, status)[q] = "absent" <=> box[q] = "absent"
BY DEF UpdateOutboxPacket

LEMMA JudgedKeepsPresence ==
    ASSUME outbox \in [Packets -> Statuses], NEW p \in Packets, NEW outcome,
           NEW q \in Packets
    PROVE  Judged(p, outcome)[q] = "absent" <=> outbox[q] = "absent"
<1>1. {"settled", "rejected"} \subseteq Statuses \ {"absent"}
  BY DEF Statuses, Verdicts
<1> QED
  BY <1>1, UpdateKeepsPresence DEF Judged

\* Nor does coming to the next packet.
LEMMA UploadNextKeepsPresence ==
    ASSUME NEW s, NEW box \in [Packets -> Statuses],
           NEW queue \in SUBSET Packets, NEW connected,
           UploadNext(s, box, queue, connected), NEW q \in Packets
    PROVE  outbox'[q] = "absent" <=> box[q] = "absent"
<1>1. "bridge_pending" \in Statuses \ {"absent"}
  BY DEF Statuses
<1> QED
  BY <1>1, UpdateKeepsPresence DEF UploadNext

LEMMA InitOutboxInv == Init => OutboxInv
<1> SUFFICES ASSUME Init PROVE OutboxInv
  OBVIOUS
<1>1. TypeOK
  BY InitTypeOK
<1> QED
  BY <1>1 DEF Init, OutboxInv

LEMMA NextOutboxInv == OutboxInv /\ [Next]_vars => OutboxInv'
<1> SUFFICES ASSUME OutboxInv, [Next]_vars PROVE OutboxInv'
  OBVIOUS
<1> USE DEF startVars, networkVars, meshVars, backendVars
<1>0. TypeOK /\ TypeOK' /\ outbox \in [Packets -> Statuses]
      /\ payment \in [Packets -> {"none", "storing", "stored", "failed", "cut"}]
  BY NextTypeOK DEF OutboxInv, TypeOK
<1>same. ASSUME UNCHANGED <<startVars, outbox, payment, aged>> PROVE Keeping
  BY <1>same DEF Keeping, Written
<1>1. CASE OpenApp
  BY <1>0, <1>1 DEF OpenApp, OutboxInv, Stored, Written
<1>2. CASE ReadStorage
  BY <1>0, <1>2 DEF ReadStorage, OutboxInv, Stored, Written
<1>3. CASE LoadOutbox
  <2>1. read' \subseteq Stored' /\ app' = "running"
    BY <1>3 DEF LoadOutbox
  <2>2. \A p \in Packets : payment'[p] = "none" => outbox'[p] = "absent"
    BY <1>3 DEF LoadOutbox, OutboxInv, Stored
  <2>3. \A p \in Written' \ (aged' \union unread') : outbox'[p] # "absent"
    BY <1>3 DEF LoadOutbox, OutboxInv, Written, InOutbox
  <2> QED
    BY <1>0, <2>1, <2>2, <2>3 DEF OutboxInv
<1>4. CASE CloseApp
  <2>1. \A p \in Packets : outbox'[p] = "absent"
    BY <1>4 DEF CloseApp
  <2> QED
    BY <1>0, <1>4, <2>1 DEF CloseApp, OutboxInv
<1>5. ASSUME NEW p \in Packets, CannotEncrypt(p) PROVE Keeping
  BY <1>0, <1>5 DEF CannotEncrypt, Keeping, Written
<1>6. ASSUME NEW p \in Packets, Send(p) PROVE Keeping
  BY <1>0, <1>6 DEF Send, Keeping, Written
<1>7. ASSUME NEW p \in Packets, EndSend(p) PROVE Keeping
  BY <1>0, <1>7 DEF EndSend, Keeping, Written
<1>8. ASSUME NEW p \in Packets, Age(p) PROVE Keeping
  BY <1>0, <1>8 DEF Age, Keeping, Written
<1>9. ASSUME NEW r \in Rounds, StartRound(r) \/ Gossiped(r) PROVE Keeping
  <2>1. CASE StartRound(r)
    BY <1>0, <2>1 DEF StartRound, Keeping, Written
  <2>2. CASE Gossiped(r)
    <3>1. PICK p \in rounds[r] :
              outbox' = UpdateOutboxPacket(outbox, p, "gossiping")
      BY <2>2 DEF Gossiped
    <3>2. p \in Packets /\ "gossiping" \in Statuses \ {"absent"}
      BY <1>0, <3>1 DEF TypeOK, Statuses
    <3>3. \A q \in Packets : outbox'[q] = "absent" <=> outbox[q] = "absent"
      BY <1>0, <3>1, <3>2, UpdateKeepsPresence
    <3> QED
      BY <2>2, <3>3 DEF Gossiped, Keeping, Written
  <2> QED
    BY <1>9, <2>1, <2>2
<1>10. ASSUME NEW box \in [Packets -> Statuses],
              \A q \in Packets : box[q] = "absent" <=> outbox[q] = "absent",
              NEW s \in Syncs, NEW queue \in SUBSET Packets, NEW connected,
              UploadNext(s, box, queue, connected),
              UNCHANGED <<startVars, payment, aged>>
       PROVE  Keeping
  <2>1. \A q \in Packets : outbox'[q] = "absent" <=> box[q] = "absent"
    BY <1>10, UploadNextKeepsPresence
  <2> QED
    BY <1>10, <2>1 DEF Keeping, Written
<1>11. ToUpload \in SUBSET Packets
  BY DEF ToUpload
<1>12. CASE SyncNow
  <2>1. PICK s \in Syncs : UploadNext(s, outbox, ToUpload, online)
    BY <1>12 DEF SyncNow
  <2>2. UNCHANGED <<startVars, payment, aged>>
    BY <1>12 DEF SyncNow
  <2> QED
    BY <1>0, <1>10, <1>11, <2>1, <2>2, KeepingKeeps
<1>13. CASE GoOnline
  <2>0. UNCHANGED <<startVars, payment, aged>>
    BY <1>13 DEF GoOnline
  <2>1. CASE UNCHANGED outbox
    BY <1>same, <2>0, <2>1, <1>0, KeepingKeeps
  <2>2. CASE \E s \in Syncs : UploadNext(s, outbox, ToUpload, TRUE)
    BY <1>0, <1>10, <1>11, <2>0, <2>2, KeepingKeeps
  <2> QED
    BY <1>13, <2>1, <2>2 DEF GoOnline
<1>14. ASSUME NEW s \in Syncs, NEW p \in Packets, Ingest(s, p) PROVE Keeping
  BY <1>0, <1>14 DEF Ingest, Keeping, Written
<1>15. ASSUME NEW s \in Syncs, NEW p \in Packets, TakeAnswer(s, p) PROVE Keeping
  <2> DEFINE box == Judged(p, syncs[s].request)
  <2>1. box \in [Packets -> Statuses]
    BY <1>0, JudgedType
  <2>2. \A q \in Packets : box[q] = "absent" <=> outbox[q] = "absent"
    BY <1>0, JudgedKeepsPresence
  <2>3. syncs[s].queue \in SUBSET Packets /\ online \in BOOLEAN
    BY <1>0, TypeOKUnfolded DEF TypeOK, SyncType
  <2> HIDE DEF box
  <2>4. UploadNext(s, box, syncs[s].queue, online)
        /\ UNCHANGED <<startVars, payment, aged>>
    BY <1>15 DEF TakeAnswer, box
  <2> QED
    BY <1>10, <2>1, <2>2, <2>3, <2>4
<1>16. ASSUME NEW s \in Syncs, LoseRequest(s) PROVE Keeping
  <2>1. syncs[s].queue \in SUBSET Packets /\ online \in BOOLEAN
    BY <1>0, TypeOKUnfolded DEF TypeOK, SyncType
  <2> QED
    BY <1>0, <1>10, <1>16, <2>1 DEF LoseRequest
<1>17. CASE Cleanup
  <2>1. \A p \in Packets :
            outbox'[p] = IF p \notin aged THEN outbox[p] ELSE "absent"
    BY <1>17 DEF Cleanup, Young
  <2>2. UNCHANGED <<startVars, payment, aged>>
    BY <1>17 DEF Cleanup
  <2> QED
    BY <2>1, <2>2, <1>0, KeepingKeeps DEF Keeping, Written
<1>18. CASE SwitchGossip \/ FindDevice \/ GoOffline \/ UNCHANGED vars
  <2>1. UNCHANGED <<startVars, outbox, payment, aged>>
    BY <1>18 DEF SwitchGossip, FindDevice, GoOffline, vars
  <2> QED
    BY <1>same, <2>1, <1>0, KeepingKeeps
<1> QED
  BY <1>0, <1>1, <1>2, <1>3, <1>4, <1>5, <1>6, <1>7, <1>8, <1>9, <1>12, <1>13,
     <1>14, <1>15, <1>16, <1>17, <1>18, KeepingKeeps DEF Next

\* A stored payment is in the outbox of the running app for 24 hours, unless
\* it was sent while the start-up was reading.
THEOREM StoredIsKept == Spec => []KeptInOutbox
<1>1. OutboxInv => KeptInOutbox
  BY DEF OutboxInv, KeptInOutbox, Stored, Written
<1> QED
  BY <1>1, InitOutboxInv, NextOutboxInv, PTL DEF Spec

-----------------------------------------------------------------------------
(* Verdicts stand.                                                         *)

\* What a step does to a packet that no handler has in its snapshot.
Stands(p) ==
    Verdict(p) /\ ~Held(p) /\ app' = app =>
        outbox'[p] \in {outbox[p], "absent"} /\ ~Held(p)'

\* Coming to the next packet concerns the packets of the queue only.
LEMMA UploadNextStands ==
    ASSUME TypeOK, NEW s \in Syncs, NEW box \in [Packets -> Statuses],
           NEW queue \in SUBSET Packets, NEW connected,
           UploadNext(s, box, queue, connected), UNCHANGED rounds,
           NEW p \in Packets, p \notin queue, box[p] = outbox[p], ~Held(p)
    PROVE  outbox'[p] = outbox[p] /\ ~Held(p)'
<1>0. p # NoPacket
  BY PhoneAssumption
<1>1. CASE queue = {} /\ outbox' = box /\ syncs' = [syncs EXCEPT ![s] = Idle]
  <2>1. \A e \in Syncs : p \notin syncs'[e].queue \union {syncs'[e].at}
    BY <1>0, <1>1, TypeOKUnfolded DEF Idle, Held
  <2> QED
    BY <1>1, <2>1 DEF Held
<1>2. ASSUME NEW q \in queue,
             outbox' = UpdateOutboxPacket(box, q, "bridge_pending"),
             syncs' = [syncs EXCEPT ![s] =
                 [queue |-> queue \ {q}, at |-> q,
                  request |-> IF connected THEN "sent" ELSE "lost"]]
      PROVE  outbox'[p] = outbox[p] /\ ~Held(p)'
  <2>1. \A e \in Syncs : p \notin syncs'[e].queue \union {syncs'[e].at}
    BY <1>2, TypeOKUnfolded DEF Held
  <2>2. outbox'[p] = box[p]
    BY <1>2 DEF UpdateOutboxPacket
  <2> QED
    BY <2>1, <2>2 DEF Held
<1> QED
  BY <1>1, <1>2 DEF UploadNext

LEMMA NextStands ==
    ASSUME OutboxInv, [Next]_vars, NEW p \in Packets PROVE Stands(p)
<1> SUFFICES ASSUME Verdict(p), ~Held(p), app' = app
             PROVE  outbox'[p] \in {outbox[p], "absent"} /\ ~Held(p)'
  BY DEF Stands
<1> USE DEF startVars, networkVars, meshVars, backendVars
<1>0. TypeOK /\ outbox \in [Packets -> Statuses] /\ syncs \in [Syncs -> SyncType]
      /\ rounds \in [Rounds -> SUBSET Packets]
  BY TypeOKUnfolded DEF OutboxInv, TypeOK
<1>1. outbox[p] \in {"settled", "rejected"} /\ payment[p] # "none"
  BY DEF Verdict, Verdicts, OutboxInv
<1>2. p \notin ToUpload /\ p \notin ToGossip
  BY <1>1 DEF ToUpload, ToGossip
<1>3. ASSUME UNCHANGED <<rounds, syncs>>, outbox'[p] \in {outbox[p], "absent"}
      PROVE  outbox'[p] \in {outbox[p], "absent"} /\ ~Held(p)'
  BY <1>3 DEF Held
<1>4. CASE OpenApp \/ ReadStorage \/ LoadOutbox \/ CloseApp
  BY <1>4 DEF OpenApp, ReadStorage, LoadOutbox, CloseApp, Open
<1>5. ASSUME NEW q \in Packets, CannotEncrypt(q) \/ EndSend(q) \/ Age(q)
      PROVE  outbox'[p] \in {outbox[p], "absent"} /\ ~Held(p)'
  BY <1>3, <1>5 DEF CannotEncrypt, EndSend, Age
<1>6. ASSUME NEW q \in Packets, Send(q)
      PROVE  outbox'[p] \in {outbox[p], "absent"} /\ ~Held(p)'
  BY <1>0, <1>1, <1>3, <1>6 DEF Send
<1>7. ASSUME NEW r \in Rounds, StartRound(r)
      PROVE  outbox'[p] \in {outbox[p], "absent"} /\ ~Held(p)'
  BY <1>0, <1>2, <1>7 DEF StartRound, Held
<1>8. ASSUME NEW r \in Rounds, Gossiped(r)
      PROVE  outbox'[p] \in {outbox[p], "absent"} /\ ~Held(p)'
  <2>1. PICK q \in rounds[r] :
            /\ rounds' = [rounds EXCEPT ![r] = @ \ {q}]
            /\ outbox' = UpdateOutboxPacket(outbox, q, "gossiping")
    BY <1>8 DEF Gossiped
  <2>2. p # q
    BY <2>1 DEF Held
  <2>3. outbox'[p] = outbox[p]
    BY <1>0, <2>1, <2>2 DEF UpdateOutboxPacket
  <2> QED
    BY <1>0, <1>8, <2>1, <2>3 DEF Gossiped, Held
<1>9. CASE SyncNow
  <2>1. PICK s \in Syncs : UploadNext(s, outbox, ToUpload, online)
    BY <1>9 DEF SyncNow
  <2>2. UNCHANGED rounds /\ ToUpload \in SUBSET Packets
    BY <1>9 DEF SyncNow, ToUpload
  <2> QED
    BY <1>0, <1>2, <2>1, <2>2, UploadNextStands
<1>10. CASE GoOnline
  <2>1. UNCHANGED rounds /\ ToUpload \in SUBSET Packets
    BY <1>10 DEF GoOnline, ToUpload
  <2>2. CASE UNCHANGED <<outbox, syncs>>
    BY <1>3, <2>1, <2>2
  <2>3. ASSUME NEW s \in Syncs, UploadNext(s, outbox, ToUpload, TRUE)
        PROVE  outbox'[p] \in {outbox[p], "absent"} /\ ~Held(p)'
    BY <1>0, <1>2, <2>1, <2>3, UploadNextStands
  <2> QED
    BY <1>10, <2>2, <2>3 DEF GoOnline
<1>11. ASSUME NEW s \in Syncs, NEW q \in Packets, Ingest(s, q)
       PROVE  outbox'[p] \in {outbox[p], "absent"} /\ ~Held(p)'
  <2>1. \A e \in Syncs : /\ syncs'[e].queue = syncs[e].queue
                         /\ syncs'[e].at = syncs[e].at
    BY <1>0, <1>11 DEF Ingest, SyncType
  <2> QED
    BY <1>11, <2>1 DEF Ingest, Held
<1>12. ASSUME NEW s \in Syncs, NEW q \in Packets, TakeAnswer(s, q)
       PROVE  outbox'[p] \in {outbox[p], "absent"} /\ ~Held(p)'
  <2> DEFINE box == Judged(q, syncs[s].request)
  <2>1. box \in [Packets -> Statuses] /\ syncs[s].queue \in SUBSET Packets
    BY <1>0, JudgedType DEF SyncType
  <2>2. p # q /\ p \notin syncs[s].queue
    BY <1>12 DEF TakeAnswer, Held
  <2>3. box[p] = outbox[p]
    BY <1>0, <2>2 DEF Judged, UpdateOutboxPacket
  <2> HIDE DEF box
  <2>4. UploadNext(s, box, syncs[s].queue, online) /\ UNCHANGED rounds
    BY <1>12 DEF TakeAnswer, box
  <2> QED
    BY <1>0, <2>1, <2>2, <2>3, <2>4, UploadNextStands
<1>13. ASSUME NEW s \in Syncs, LoseRequest(s)
       PROVE  outbox'[p] \in {outbox[p], "absent"} /\ ~Held(p)'
  <2>1. syncs[s].queue \in SUBSET Packets /\ p \notin syncs[s].queue
    BY <1>0 DEF SyncType, Held
  <2>2. UploadNext(s, outbox, syncs[s].queue, online) /\ UNCHANGED rounds
    BY <1>13 DEF LoseRequest
  <2> QED
    BY <1>0, <2>1, <2>2, UploadNextStands
<1>14. CASE Cleanup
  BY <1>3, <1>14 DEF Cleanup
<1>15. CASE SwitchGossip \/ FindDevice \/ GoOffline \/ UNCHANGED vars
  <2>1. UNCHANGED <<outbox, rounds, syncs>>
    BY <1>15 DEF SwitchGossip, FindDevice, GoOffline, vars
  <2> QED
    BY <1>3, <2>1
<1> QED
  BY <1>4, <1>5, <1>6, <1>7, <1>8, <1>9, <1>10, <1>11, <1>12, <1>13, <1>14,
     <1>15 DEF Next

\* A verdict on the screen, once the handlers that took the packet before it
\* are done, stays there or is cleaned up, and no handler takes the packet.
THEOREM VerdictIsFinal == Spec => VerdictStands
<1>1. OutboxInv /\ [Next]_vars =>
          [\A p \in Packets : Verdict(p) /\ ~Held(p) /\ app' = app =>
              outbox'[p] \in {outbox[p], "absent"} /\ ~Held(p)']_vars
  BY NextStands DEF Stands
<1> QED
  BY <1>1, InitOutboxInv, NextOutboxInv, PTL DEF Spec, VerdictStands
=============================================================================
