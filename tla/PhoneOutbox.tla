---------------------------- MODULE PhoneOutbox -----------------------------
(***************************************************************************)
(* The outbox of the app: useMeshStore.ts, with the payment that SendPage  *)
(* puts into it, the copy storageService keeps in IndexedDB, the rounds of *)
(* gossip and the uploads to the backend.                                  *)
(*                                                                         *)
(* JavaScript runs one handler at a time, up to its next await.  Rounds    *)
(* and uploads work through a snapshot of the outbox and await at every    *)
(* packet, so that several of them, a payment being stored, the start-up   *)
(* and the cleanup overlap.  A step here is what runs without an await.    *)
(*                                                                         *)
(* Storage may be unreadable or unwritable and encryption may lack the     *)
(* server's key, which is what happens as long as nothing calls            *)
(* storageService.initialize() and cryptoService.setServerPublicKey();     *)
(* the other behaviours are those of an app that does.                     *)
(***************************************************************************)
EXTENDS Naturals, FiniteSets, Functions

CONSTANTS
    Packets,   \* the payments the user makes, each once
    Kept,      \* those of them made before, which are in storage
    Aging,     \* those that live to be MAX_AGE old
    Syncs,     \* runs of uploadPendingPackets at the same time
    Rounds,    \* runs of the gossip interval's callback at the same time
    NoPacket   \* no packet is being uploaded

ASSUME PhoneAssumption ==
    /\ Kept \subseteq Packets
    /\ Aging \subseteq Packets
    /\ NoPacket \notin Packets

VARIABLES
    app,         \* how far initialize() has come
    outbox,      \* the status of each packet in the store's outbox
    read,        \* what initialize() has read from storage and not yet set
    unread,      \* history: in the outbox during start-up, and overwritten
    online,      \* navigator.onLine
    shownOnline, \* networkStatus.isOnline
    bluetooth,   \* networkStatus.isBluetoothEnabled
    near,        \* networkStatus.connectedDevices > 0
    gossip,      \* the gossip interval is set
    rounds,      \* the packets each round of gossip has still to send
    syncs,       \* the uploads under way
    payment,     \* how far handleConfirm() and its write to storage have come
    claimed,     \* the backend has a claim on these
    settled,     \* the backend has settled these
    aged         \* packets older than MAX_AGE

startVars   == <<app, read, unread>>
networkVars == <<online, shownOnline>>
meshVars    == <<bluetooth, near, gossip>>
backendVars == <<claimed, settled>>
vars == <<startVars, outbox, networkVars, meshVars, rounds, syncs, payment,
          backendVars, aged>>

Verdicts == {"settled", "rejected"}

Statuses == {"absent", "outbox", "gossiping", "bridge_pending"} \union Verdicts

Outcomes == {"SETTLED", "DUPLICATE_DROPPED", "OTHER"}

Idle == [queue |-> {}, at |-> NoPacket, request |-> "none"]

\* The type invariant.
TypeOK ==
    /\ app \in {"closed", "starting", "loading", "running", "bare"}
    /\ outbox \in [Packets -> Statuses]
    /\ read \subseteq Packets /\ unread \subseteq Packets
    /\ online \in BOOLEAN /\ shownOnline \in BOOLEAN
    /\ bluetooth \in BOOLEAN /\ near \in BOOLEAN /\ gossip \in BOOLEAN
    /\ rounds \in [Rounds -> SUBSET Packets]
    /\ syncs \in [Syncs -> [queue : SUBSET Packets,
                            at : Packets \union {NoPacket},
                            request : Outcomes \union {"none", "sent", "lost"}]]
    /\ payment \in [Packets -> {"none", "storing", "stored", "failed", "cut"}]
    /\ settled \subseteq claimed /\ claimed \subseteq Packets
    /\ aged \subseteq Aging

\* The backend may have met the packets of earlier sessions.
Init ==
    /\ app = "closed"
    /\ outbox = [p \in Packets |-> "absent"]
    /\ read = {} /\ unread = {} /\ aged = {}
    /\ online \in BOOLEAN /\ shownOnline = FALSE
    /\ bluetooth = FALSE /\ near = FALSE /\ gossip = FALSE
    /\ rounds = [r \in Rounds |-> {}]
    /\ syncs = [s \in Syncs |-> Idle]
    /\ payment = [p \in Packets |-> IF p \in Kept THEN "stored" ELSE "none"]
    /\ claimed \in SUBSET Kept
    /\ settled \in SUBSET claimed

Open == app # "closed"

InOutbox == {p \in Packets : outbox[p] # "absent"}

Stored == {p \in Packets : payment[p] = "stored"}

\* updateOutboxPacket: of a packet that is no longer there, nothing.
UpdateOutboxPacket(box, p, status) ==
    IF box[p] = "absent" THEN box ELSE [box EXCEPT ![p] = status]

-----------------------------------------------------------------------------
(* Start-up and end.                                                       *)

\* The page is loaded: an empty outbox, and initialize() begins.
OpenApp ==
    /\ app = "closed"
    /\ app' = "starting"
    /\ shownOnline' = online
    /\ UNCHANGED <<read, unread, outbox, online, meshVars, rounds, syncs,
                   payment, backendVars, aged>>

\* Bluetooth is there or not, and getOutbox() reads, after the writes asked
\* for before, or throws: then initialize() ends here, without listeners.
ReadStorage ==
    /\ app = "starting"
    /\ \A p \in Packets : payment[p] # "storing"
    /\ bluetooth' \in BOOLEAN
    /\ \/ app' = "loading" /\ read' = Stored
       \/ app' = "bare" /\ UNCHANGED read
    /\ UNCHANGED <<unread, outbox, networkVars, near, gossip, rounds, syncs,
                   payment, backendVars, aged>>

\* What was read replaces the outbox.  A stored packet has the status it was
\* sent with: nothing updates it in storage.  Gossip starts if the settings
\* say so, and from now on the store follows the browser's online events.
LoadOutbox ==
    /\ app = "loading"
    /\ app' = "running"
    /\ outbox' = [p \in Packets |-> IF p \in read THEN "outbox" ELSE "absent"]
    /\ unread' = InOutbox \ read
    /\ read' = {}
    /\ gossip' \in {gossip, TRUE}
    /\ UNCHANGED <<networkVars, bluetooth, near, rounds, syncs, payment,
                   backendVars, aged>>

\* The page is closed, at any moment.  Memory is gone, and a write under way
\* is done or not; a request on the way is one the backend has answered
\* before, or never gets.
CloseApp ==
    /\ Open
    /\ app' = "closed"
    /\ outbox' = [p \in Packets |-> "absent"]
    /\ read' = {} /\ unread' = {}
    /\ shownOnline' = FALSE
    /\ bluetooth' = FALSE /\ near' = FALSE /\ gossip' = FALSE
    /\ rounds' = [r \in Rounds |-> {}]
    /\ syncs' = [s \in Syncs |-> Idle]
    /\ \E written \in SUBSET {p \in Packets : payment[p] = "storing"} :
           payment' = [p \in Packets |->
               CASE p \in written -> "stored"
                 [] payment[p] = "storing" /\ p \notin written -> "cut"
                 [] OTHER -> payment[p]]
    /\ UNCHANGED <<online, backendVars, aged>>

-----------------------------------------------------------------------------
(* SendPage.handleConfirm().                                               *)

\* Encryption throws: "Failed to create payment."
CannotEncrypt(p) ==
    /\ Open
    /\ payment[p] = "none"
    /\ payment' = [payment EXCEPT ![p] = "failed"]
    /\ UNCHANGED <<startVars, outbox, networkVars, meshVars, rounds, syncs,
                   backendVars, aged>>

\* The packet enters the store's outbox, then the write to storage begins.
Send(p) ==
    /\ Open
    /\ payment[p] = "none"
    /\ outbox' = [outbox EXCEPT ![p] = "outbox"]
    /\ payment' = [payment EXCEPT ![p] = "storing"]
    /\ UNCHANGED <<startVars, networkVars, meshVars, rounds, syncs,
                   backendVars, aged>>

\* It is written, and the success page shows; or the write throws: "Failed to
\* create payment. Try again."
EndSend(p) ==
    /\ payment[p] = "storing"
    /\ \E end \in {"stored", "failed"} : payment' = [payment EXCEPT ![p] = end]
    /\ UNCHANGED <<startVars, outbox, networkVars, meshVars, rounds, syncs,
                   backendVars, aged>>

-----------------------------------------------------------------------------
(* Gossip.                                                                 *)

\* The switch in the settings, followed by MeshPage.  stopGossip clears the
\* interval; a round that has begun goes on.
SwitchGossip ==
    /\ Open
    /\ gossip' = ~gossip
    /\ UNCHANGED <<startVars, bluetooth, near, outbox, networkVars, rounds,
                   syncs, payment, backendVars, aged>>

\* Mutant of ToGossip: packets with a verdict are sent again.
ToGossipAll == {p \in InOutbox : outbox[p] # "bridge_pending"}

\* What the callback of the gossip interval takes.
ToGossip == {p \in Packets : outbox[p] \in {"outbox", "gossiping"}}

\* The interval's callback takes its packets, whether or not the round before
\* it has ended.
StartRound(r) ==
    /\ gossip /\ bluetooth
    /\ rounds[r] = {}
    /\ ToGossip # {}
    /\ rounds' = [rounds EXCEPT ![r] = ToGossip]
    /\ UNCHANGED <<startVars, outbox, networkVars, meshVars, syncs, payment,
                   backendVars, aged>>

\* gossipPacket() has tried the devices in reach, which may be none, and
\* never throws.  The packet is marked, whatever became of it since.
Gossiped(r) ==
    /\ \E p \in rounds[r] :
        /\ rounds' = [rounds EXCEPT ![r] = @ \ {p}]
        /\ outbox' = UpdateOutboxPacket(outbox, p, "gossiping")
    /\ UNCHANGED <<startVars, networkVars, meshVars, syncs, payment,
                   backendVars, aged>>

\* MeshPage finds a device.  The list only grows.
FindDevice ==
    /\ Open /\ ~near
    /\ near' = TRUE
    /\ UNCHANGED <<startVars, bluetooth, gossip, outbox, networkVars, rounds,
                   syncs, payment, backendVars, aged>>

-----------------------------------------------------------------------------
(* Uploads.                                                                *)

\* What uploadPendingPackets takes.
ToUpload ==
    {p \in Packets : \/ outbox[p] = "bridge_pending"
                     \/ outbox[p] = "gossiping" /\ near}

\* The loop of uploadPendingPackets comes to its next packet, if it has one,
\* marks it and sends it.  Without a connection the request gets nowhere.
UploadNext(s, box, queue, connected) ==
    \/ /\ queue = {}
       /\ outbox' = box
       /\ syncs' = [syncs EXCEPT ![s] = Idle]
    \/ \E p \in queue :
       /\ outbox' = UpdateOutboxPacket(box, p, "bridge_pending")
       /\ syncs' = [syncs EXCEPT ![s] =
              [queue |-> queue \ {p}, at |-> p,
               request |-> IF connected THEN "sent" ELSE "lost"]]

\* uploadPendingPackets, called by the button "Sync Now".
SyncNow ==
    /\ shownOnline
    /\ ToUpload # {}
    /\ \E s \in Syncs : syncs[s] = Idle /\ UploadNext(s, outbox, ToUpload, online)
    /\ UNCHANGED <<startVars, networkVars, meshVars, rounds, payment,
                   backendVars, aged>>

\* The phone gets a connection.  The store's listener, once there is one,
\* notes it and uploads.
GoOnline ==
    /\ ~online
    /\ online' = TRUE
    /\ \/ app = "running" /\ ToUpload # {}
          /\ shownOnline' = TRUE
          /\ \E s \in Syncs : syncs[s] = Idle /\ UploadNext(s, outbox, ToUpload, TRUE)
       \/ app = "running" /\ ToUpload = {}
          /\ shownOnline' = TRUE
          /\ UNCHANGED <<outbox, syncs>>
       \/ app # "running"
          /\ UNCHANGED <<shownOnline, outbox, syncs>>
    /\ UNCHANGED <<startVars, meshVars, rounds, payment, backendVars, aged>>

\* It loses the connection.
GoOffline ==
    /\ online
    /\ online' = FALSE
    /\ shownOnline' = IF app = "running" THEN FALSE ELSE shownOnline
    /\ UNCHANGED <<startVars, outbox, meshVars, rounds, syncs, payment,
                   backendVars, aged>>

\* The backend answers: a duplicate if it has a claim on the packet, else
\* settled, or one of the refusals and errors, which keep the claim too.
Ingest(s, p) ==
    /\ syncs[s].at = p
    /\ syncs[s].request = "sent"
    /\ online
    /\ claimed' = claimed \union {p}
    /\ \E outcome \in Outcomes :
        /\ (outcome = "DUPLICATE_DROPPED") <=> (p \in claimed)
        /\ settled' = IF outcome = "SETTLED" THEN settled \union {p} ELSE settled
        /\ syncs' = [syncs EXCEPT ![s].request = outcome]
    /\ UNCHANGED <<startVars, outbox, networkVars, meshVars, rounds, payment,
                   aged>>

\* Mutant of Judged: an answer is a settlement.
JudgedSettled(p, outcome) == UpdateOutboxPacket(outbox, p, "settled")

\* Mutant of Judged: the outcome is stored as the backend words it.
JudgedVerbatim(p, outcome) == UpdateOutboxPacket(outbox, p, outcome)

\* What an answer says of the packet: settled, or rejected if it was a
\* duplicate; any other answer leaves it to the next upload.
Judged(p, outcome) ==
    CASE outcome = "SETTLED" -> UpdateOutboxPacket(outbox, p, "settled")
      [] outcome = "DUPLICATE_DROPPED" -> UpdateOutboxPacket(outbox, p, "rejected")
      [] OTHER -> outbox

\* The answer arrives, the packet is marked, and the loop goes on.
TakeAnswer(s, p) ==
    /\ syncs[s].at = p
    /\ syncs[s].request \in Outcomes
    /\ UploadNext(s, Judged(p, syncs[s].request), syncs[s].queue, online)
    /\ UNCHANGED <<startVars, networkVars, meshVars, rounds, payment,
                   backendVars, aged>>

\* The request is lost, or its answer.  The packet stays as it is.
LoseRequest(s) ==
    /\ syncs[s] # Idle
    /\ UploadNext(s, outbox, syncs[s].queue, online)
    /\ UNCHANGED <<startVars, networkVars, meshVars, rounds, payment,
                   backendVars, aged>>

-----------------------------------------------------------------------------
(* Cleanup, the specification.                                             *)

\* 24 hours have passed since a payment was made.
Age(p) ==
    /\ p \in Aging \ aged
    /\ payment[p] # "none"
    /\ aged' = aged \union {p}
    /\ UNCHANGED <<startVars, outbox, networkVars, meshVars, rounds, syncs,
                   payment, backendVars>>

\* Mutant of Young: the comparison the wrong way round.
Old(p) == p \in aged

Young(p) == p \notin aged

\* cleanupExpiredPackets, every minute and from the settings: in memory only.
Cleanup ==
    /\ Open
    /\ \E p \in InOutbox : ~Young(p)
    /\ outbox' = [p \in Packets |-> IF Young(p) THEN outbox[p] ELSE "absent"]
    /\ UNCHANGED <<startVars, networkVars, meshVars, rounds, syncs, payment,
                   backendVars, aged>>

Next ==
    \/ OpenApp \/ ReadStorage \/ LoadOutbox \/ CloseApp
    \/ \E p \in Packets : CannotEncrypt(p) \/ Send(p) \/ EndSend(p) \/ Age(p)
    \/ SwitchGossip \/ FindDevice
    \/ \E r \in Rounds : StartRound(r) \/ Gossiped(r)
    \/ SyncNow \/ GoOnline \/ GoOffline
    \/ \E s \in Syncs, p \in Packets : Ingest(s, p) \/ TakeAnswer(s, p)
    \/ \E s \in Syncs : LoseRequest(s)
    \/ Cleanup

Spec == Init /\ [][Next]_vars

-----------------------------------------------------------------------------
(* Properties.                                                             *)

\* A payment shown as settled is settled, whichever of the overlapping
\* uploads, repeats and restarts put it there.
SettledIsSettled ==
    \A p \in Packets : outbox[p] = "settled" => p \in settled

\* A stored payment is in the outbox of the running app, also after restarts,
\* for 24 hours; except that the start-up overwrites what is sent while it
\* reads.
KeptInOutbox ==
    app = "running" =>
        \A p \in Stored \ (aged \union unread) : outbox[p] # "absent"

Verdict(p) == outbox[p] \in Verdicts

\* A round or an upload under way has the packet in its snapshot.
Held(p) ==
    \/ \E r \in Rounds : p \in rounds[r]
    \/ \E s \in Syncs : p \in syncs[s].queue \union {syncs[s].at}

\* Once a verdict is on the screen and the handlers that took the packet
\* before it are done, none takes the packet again: until the app is closed
\* or overwrites its outbox, the verdict stays or is cleaned up.
VerdictStands ==
    [][\A p \in Packets :
        Verdict(p) /\ ~Held(p) /\ app' = app =>
            outbox'[p] \in {outbox[p], "absent"} /\ ~Held(p)']_vars

\* What SendPage says when handleConfirm() throws, "Failed to create payment.
\* Try again.": a payment it says it of is never settled.  The code violates
\* it, as the packet is in the outbox before the write to storage that throws.
FailureMeansNoPayment ==
    \A p \in Packets : payment[p] = "failed" => p \notin settled
=============================================================================
