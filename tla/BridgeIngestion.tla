-------------------------- MODULE BridgeIngestion ---------------------------
(***************************************************************************)
(* The server side of an upload: BridgeIngestionService.ingest with the    *)
(* IdempotencyService it claims from and the SettlementService and         *)
(* TransactionStore it settles into.  Every upload runs in a thread of its *)
(* own (a Flask request thread, or a worker of /api/mesh/flush), so all    *)
(* the steps of different uploads interleave.                              *)
(*                                                                         *)
(* An upload goes through                                                  *)
(*                                                                         *)
(*   idle -> claimed -> fresh -> debited -> credited -> recorded -> done   *)
(*                           \-> rejecting -----------/                    *)
(*                                                                         *)
(* and may end ("done") at any stage.  A step is what the code does between *)
(* two points where another thread can observe or change what it uses: the *)
(* claim is one step (IdempotencyService._lock), while the body of         *)
(* settle(), though it runs under SettlementService._lock, is several,     *)
(* because /api/accounts reads balances without that lock and because it   *)
(* can raise half-way.                                                     *)
(*                                                                         *)
(* The result of an upload stands for the dictionary ingest() returns and  *)
(* for the one bridge_upload event it logs just before it returns.         *)
(***************************************************************************)
EXTENDS Payments

CONSTANTS
    Uploads,    \* calls of ingest(), each by a thread of its own
    NoPacket,   \* the packet of a call not yet made
    MaxAge,     \* BridgeIngestionService.max_age_seconds
    Skew,       \* tolerated clock skew of the sender (300 s)
    Ttl,        \* IdempotencyService.ttl_seconds
    MaxStall,   \* longest time a thread spends between claim and freshness check
    MaxTime     \* bound of the model: the clock stops here

ASSUME TimingAssumption ==
    /\ MaxAge \in Nat /\ Skew \in Nat /\ Ttl \in Nat
    /\ MaxStall \in Nat /\ MaxTime \in Nat

(***************************************************************************)
(* What makes forgetting a claim safe: by the time the cache may drop a    *)
(* packet, the freshness check refuses it.  The server runs with           *)
(* 259200 >= 86400 + 300 + MaxStall, which leaves a thread 47 hours.       *)
(***************************************************************************)
ASSUME CoverAssumption == Ttl >= MaxAge + Skew + MaxStall

ASSUME NoPacketAssumption == NoPacket \notin Packets

VARIABLES
    now,      \* the server's clock
    seen,     \* idempotency cache: when each packet was claimed, or Absent
    pc,       \* how far each upload has got
    packet,   \* the packet of each upload
    result,   \* what each upload was answered
    lock,     \* the upload holding SettlementService._lock, as a set
    balance,  \* balance of each account
    tx,       \* status of each packet's transaction, or "NONE"
    acks      \* acks generated: the packet and the status reported

vars == <<now, seen, pc, packet, result, lock, balance, tx, acks>>

Absent == -1

Statuses == {"SETTLED", "REJECTED"}

Results == {"DUPLICATE_DROPPED", "DECRYPTION_FAILED", "STALE_PACKET",
            "FUTURE_DATED", "INSUFFICIENT_BALANCE", "SETTLED",
            "INTERNAL_ERROR"}

\* The stages inside settle(), where the upload holds the settlement lock.
Critical == {"debited", "credited", "rejecting", "recorded"}

Stages == {"idle", "claimed", "fresh", "done"} \union Critical

\* The type invariant.
TypeOK ==
    /\ now \in Nat
    /\ seen \in [Packets -> Nat \union {Absent}]
    /\ pc \in [Uploads -> Stages]
    /\ packet \in [Uploads -> Packets \union {NoPacket}]
    /\ \A r \in Uploads : pc[r] # "idle" => packet[r] \in Packets
    /\ result \in [Uploads -> Results \union {"NONE"}]
    /\ lock \in SUBSET Uploads
    /\ balance \in [Accounts -> Int]
    /\ tx \in [Packets -> Statuses \union {"NONE"}]
    /\ acks \in SUBSET [packet : Packets, status : Statuses]

Init ==
    /\ now = 0
    /\ seen = [p \in Packets |-> Absent]
    /\ pc = [r \in Uploads |-> "idle"]
    /\ packet = [r \in Uploads |-> NoPacket]
    /\ result = [r \in Uploads |-> "NONE"]
    /\ lock = {}
    /\ balance = InitBalance
    /\ tx = [p \in Packets |-> "NONE"]
    /\ acks = {}

-----------------------------------------------------------------------------
(* The steps of one upload.                                                *)

Goto(r, stage) ==
    /\ pc' = [pc EXCEPT ![r] = stage]
    /\ UNCHANGED result

Answer(r, res) ==
    /\ pc' = [pc EXCEPT ![r] = "done"]
    /\ result' = [result EXCEPT ![r] = res]

\* Mutant of Raise: no handler around ingest().
RaiseUncaught(r) ==
    /\ Answer(r, "UNCAUGHT")
    /\ lock' = {}

\* Mutant of Raise: the lock is not taken by a with statement.
RaiseLocked(r) ==
    /\ Answer(r, "INTERNAL_ERROR")
    /\ UNCHANGED lock

\* Leaving the settlement lock with an exception: the handler around
\* ingest() turns it into INTERNAL_ERROR, and nothing is undone.
Raise(r) ==
    /\ Answer(r, "INTERNAL_ERROR")
    /\ lock' = {}

\* Mutant of Claim: the key is taken from the sender, not the ciphertext.
ClaimBySender(r, p) ==
    IF \A q \in Packets : Sender(q) = Sender(p) => seen[q] = Absent
    THEN /\ seen' = [seen EXCEPT ![p] = now]
         /\ Goto(r, "claimed")
    ELSE /\ UNCHANGED seen
         /\ Answer(r, "DUPLICATE_DROPPED")

\* claim(): under the cache's lock, the first caller for a packet stores
\* the time and goes on; every later one is turned away.
Claim(r, p) ==
    IF seen[p] = Absent
    THEN /\ seen' = [seen EXCEPT ![p] = now]
         /\ Goto(r, "claimed")
    ELSE /\ UNCHANGED seen
         /\ Answer(r, "DUPLICATE_DROPPED")

\* A bridge POSTs p: ingest() up to the outcome of the claim.
Ingest(r, p) ==
    /\ pc[r] = "idle"
    /\ packet' = [packet EXCEPT ![r] = p]
    /\ IF Instruction[p].kind = "malformed"
       THEN Answer(r, "INTERNAL_ERROR") /\ UNCHANGED seen
       ELSE Claim(r, p)
    /\ UNCHANGED <<now, lock, balance, tx, acks>>

TooOld(p)   == now - Instruction[p].signedAt > MaxAge
TooEarly(p) == now - Instruction[p].signedAt < 0 - Skew

\* Decryption, then the freshness check on the clock as it is now.  The
\* claim made earlier is kept whatever the answer.
CheckFreshness(r) ==
    LET p == packet[r] IN
    /\ pc[r] = "claimed"
    /\ CASE Instruction[p].kind = "junk" -> Answer(r, "DECRYPTION_FAILED")
         [] Instruction[p].kind # "junk" /\ TooOld(p) ->
                Answer(r, "STALE_PACKET")
         [] Instruction[p].kind # "junk" /\ TooEarly(p) ->
                Answer(r, "FUTURE_DATED")
         [] OTHER -> Goto(r, "fresh")
    /\ UNCHANGED <<now, seen, packet, lock, balance, tx, acks>>

\* Mutant of EnterSettle: off by one in the comparison with the balance.
EnterSettleOverdrawing(r) ==
    LET p == packet[r] IN
    /\ pc[r] = "fresh"
    /\ lock = {}
    /\ IF ~Payable(p)
       THEN Raise(r) /\ UNCHANGED balance
       ELSE /\ lock' = {r}
            /\ IF balance[Sender(p)] + 1 < Amount(p)
               THEN Goto(r, "rejecting") /\ UNCHANGED balance
               ELSE Goto(r, "debited") /\ balance' = DebitSender(balance, p)
    /\ UNCHANGED <<now, seen, packet, tx, acks>>

\* Mutant of EnterSettle: the debit comes before the receiver is looked up.
EnterSettleUnvalidated(r) ==
    LET p == packet[r] IN
    /\ pc[r] = "fresh"
    /\ lock = {}
    /\ IF balance[Sender(p)] < Amount(p)
       THEN Goto(r, "rejecting") /\ lock' = {r} /\ UNCHANGED balance
       ELSE /\ balance' = DebitSender(balance, p)
            /\ IF Payable(p) THEN Goto(r, "debited") /\ lock' = {r}
                             ELSE Raise(r)
    /\ UNCHANGED <<now, seen, packet, tx, acks>>

\* settle() takes the lock, validates, and debits the sender if the
\* balance allows it.
EnterSettle(r) ==
    LET p == packet[r] IN
    /\ pc[r] = "fresh"
    /\ lock = {}
    /\ \/ /\ ~Payable(p)
          /\ Raise(r)
          /\ UNCHANGED balance
       \/ /\ Payable(p)
          /\ balance[Sender(p)] < Amount(p)
          /\ Goto(r, "rejecting")
          /\ lock' = {r}
          /\ UNCHANGED balance
       \/ /\ Payable(p)
          /\ balance[Sender(p)] >= Amount(p)
          /\ balance' = DebitSender(balance, p)
          /\ Goto(r, "debited")
          /\ lock' = {r}
    /\ UNCHANGED <<now, seen, packet, tx, acks>>

\* Mutant of Credit: a repeat is noticed between the debit and the credit.
CreditUnlessRepeat(r) ==
    /\ pc[r] = "debited"
    /\ IF tx[packet[r]] # "NONE"
       THEN Raise(r) /\ UNCHANGED balance
       ELSE /\ balance' = CreditReceiver(balance, packet[r])
            /\ Goto(r, "credited")
            /\ UNCHANGED lock
    /\ UNCHANGED <<now, seen, packet, tx, acks>>

Credit(r) ==
    /\ pc[r] = "debited"
    /\ balance' = CreditReceiver(balance, packet[r])
    /\ Goto(r, "credited")
    /\ UNCHANGED <<now, seen, packet, lock, tx, acks>>

\* Mutant of Record: a rejection is recorded as SETTLED.
RecordSettled(r) ==
    LET p == packet[r] IN
    /\ pc[r] \in {"credited", "rejecting"}
    /\ IF tx[p] # "NONE"
       THEN Raise(r) /\ UNCHANGED tx
       ELSE /\ tx' = [tx EXCEPT ![p] = "SETTLED"]
            /\ Goto(r, "recorded")
            /\ UNCHANGED lock
    /\ UNCHANGED <<now, seen, packet, balance, acks>>

\* Mutant of Record: no unique constraint.
RecordOverwriting(r) ==
    /\ pc[r] \in {"credited", "rejecting"}
    /\ tx' = [tx EXCEPT ![packet[r]] = IF pc[r] = "credited"
                                      THEN "SETTLED" ELSE "REJECTED"]
    /\ Goto(r, "recorded")
    /\ UNCHANGED <<now, seen, packet, lock, balance, acks>>

\* TransactionStore.record(): unique on the hash, and raises on a repeat,
\* after the balances have already moved.
Record(r) ==
    LET p == packet[r] IN
    /\ pc[r] \in {"credited", "rejecting"}
    /\ IF tx[p] # "NONE"
       THEN Raise(r) /\ UNCHANGED tx
       ELSE /\ tx' = [tx EXCEPT ![p] = IF pc[r] = "credited"
                                       THEN "SETTLED" ELSE "REJECTED"]
            /\ Goto(r, "recorded")
            /\ UNCHANGED lock
    /\ UNCHANGED <<now, seen, packet, balance, acks>>

\* Mutant of Acknowledge: the ack of a rejection says SETTLED.
AcknowledgeSettled(r) ==
    LET p == packet[r] IN
    /\ pc[r] = "recorded"
    /\ acks' = IF Instruction[p].ackKey = "good"
               THEN acks \union {[packet |-> p, status |-> "SETTLED"]}
               ELSE acks
    /\ Answer(r, "SETTLED")
    /\ lock' = {}
    /\ UNCHANGED <<now, seen, packet, balance, tx>>

\* The ack of a recorded transaction, then the return from settle() and
\* ingest().  A key AES refuses raises here, with everything recorded.
Acknowledge(r) ==
    LET p == packet[r] IN
    /\ pc[r] = "recorded"
    /\ acks' = IF Instruction[p].ackKey = "good"
               THEN acks \union {[packet |-> p, status |-> tx[p]]}
               ELSE acks
    /\ IF Instruction[p].ackKey = "bad"
       THEN Raise(r)
       ELSE /\ Answer(r, IF tx[p] = "SETTLED" THEN "SETTLED"
                                              ELSE "INSUFFICIENT_BALANCE")
            /\ lock' = {}
    /\ UNCHANGED <<now, seen, packet, balance, tx>>

\* What the thread of upload r does next once it has its packet.
Proceed(r) ==
    \/ CheckFreshness(r)
    \/ EnterSettle(r)
    \/ Credit(r)
    \/ Record(r)
    \/ Acknowledge(r)

-----------------------------------------------------------------------------
(* The eviction thread, the clock, and the clearing of the cache.          *)

\* Mutant of EvictExpired: a claim is kept for max_age_seconds only.
EvictAtMaxAge ==
    \E t \in 0..now :
        LET Expired(p) == seen[p] # Absent /\ seen[p] < t - MaxAge IN
        /\ \E p \in Packets : Expired(p)
        /\ seen' = [p \in Packets |-> IF Expired(p) THEN Absent ELSE seen[p]]
        /\ UNCHANGED <<now, pc, packet, result, lock, balance, tx, acks>>

\* Mutant of EvictExpired: the time a thread may stall is not allowed for.
EvictWithoutStall ==
    \E t \in 0..now :
        LET Expired(p) == seen[p] # Absent /\ seen[p] < t - MaxAge - Skew IN
        /\ \E p \in Packets : Expired(p)
        /\ seen' = [p \in Packets |-> IF Expired(p) THEN Absent ELSE seen[p]]
        /\ UNCHANGED <<now, pc, packet, result, lock, balance, tx, acks>>

\* evict_expired(): the clock is read before the lock is taken, so the
\* entries are compared with a time t that may have passed.
EvictExpired ==
    \E t \in 0..now :
        LET Expired(p) == seen[p] # Absent /\ seen[p] < t - Ttl IN
        /\ \E p \in Packets : Expired(p)
        /\ seen' = [p \in Packets |-> IF Expired(p) THEN Absent ELSE seen[p]]
        /\ UNCHANGED <<now, pc, packet, result, lock, balance, tx, acks>>

\* Time passes, but no thread sleeps longer than MaxStall between its claim
\* and its freshness check.
Tick ==
    /\ now < MaxTime
    /\ \A r \in Uploads :
          pc[r] = "claimed" /\ seen[packet[r]] # Absent
              => now < seen[packet[r]] + MaxStall
    /\ now' = now + 1
    /\ UNCHANGED <<seen, pc, packet, result, lock, balance, tx, acks>>

\* IdempotencyService.clear(), called by /api/mesh/reset alone.  It is not
\* a step of this specification: ResetIngestion adds it.
ClearCache ==
    /\ seen' = [p \in Packets |-> Absent]
    /\ UNCHANGED <<now, pc, packet, result, lock, balance, tx, acks>>

Next ==
    \/ \E r \in Uploads, p \in Packets : Ingest(r, p)
    \/ \E r \in Uploads : Proceed(r)
    \/ EvictExpired
    \/ Tick

Spec == Init /\ [][Next]_vars

\* A thread that can run runs: the operating system schedules it, and it
\* blocks only on the settlement lock.  Nothing else is promised: not that
\* a bridge uploads, nor that the eviction thread or the clock moves.
Fairness == \A r \in Uploads : WF_vars(Proceed(r))

FairSpec == Spec /\ Fairness

-----------------------------------------------------------------------------
(* Properties.                                                             *)

\* The upload got past the freshness check, so it entered settle() or will.
Admitted(r) ==
    \/ pc[r] \in {"fresh"} \union Critical
    \/ /\ pc[r] = "done"
       /\ Instruction[packet[r]].kind = "payment"
       /\ result[r] \in {"SETTLED", "INSUFFICIENT_BALANCE", "INTERNAL_ERROR"}

\* However many bridges deliver a packet, at the same time or days apart,
\* at most one delivery is ever admitted to settle(): the cache turns the
\* others away while it remembers the packet, the freshness check after.
AdmittedOnce ==
    \A r1, r2 \in Uploads :
        Admitted(r1) /\ Admitted(r2) /\ packet[r1] = packet[r2] => r1 = r2

\* A packet that was admitted and whose claim the eviction thread has dropped
\* is refused by the freshness check: the two defences leave no gap.
ForgottenIsStale ==
    \A r \in Uploads :
        Admitted(r) /\ seen[packet[r]] = Absent => TooOld(packet[r])

Settled == {p \in Packets : tx[p] = "SETTLED"}

\* Outside settle()'s lock the balances are exactly what the ledger says:
\* the money that moved is the money of the SETTLED transactions.
LedgerExplainsBalances ==
    lock = {} => \A a \in Accounts : balance[a] = InitBalance[a] + NetOf(Settled, a)

\* No interleaving of debits overdraws an account, inside the lock or out.
NoOverdraft == \A a \in Accounts : balance[a] >= 0

\* A bridge told DUPLICATE_DROPPED can forget the packet: another upload of
\* it was let through the claim.
DuplicateHasClaimant ==
    \A r \in Uploads :
        result[r] = "DUPLICATE_DROPPED" =>
            \E q \in Uploads \ {r} :
                /\ packet[q] = packet[r]
                /\ pc[q] # "idle"
                /\ result[q] # "DUPLICATE_DROPPED"

\* Every upload that claimed is answered: no path through settle(), raising
\* or not, keeps the settlement lock and blocks the others for ever.
EveryUploadAnswered ==
    \A r \in Uploads : pc[r] # "idle" ~> pc[r] = "done"

\* Refinement: the balances with the transfer in progress undone.  Recording
\* the transaction is the step at which the transfer takes effect.
UndoDebit(bal, p)  == [bal EXCEPT ![Sender(p)] = @ + Amount(p)]
UndoCredit(bal, p) == [bal EXCEPT ![Receiver(p)] = @ - Amount(p)]

CommittedBalance ==
    IF \E r \in lock : pc[r] = "debited"
    THEN UndoDebit(balance, packet[CHOOSE r \in lock : TRUE])
    ELSE IF \E r \in lock : pc[r] = "credited"
         THEN LET p == packet[CHOOSE r \in lock : TRUE]
              IN  UndoDebit(UndoCredit(balance, p), p)
         ELSE balance

Promise == INSTANCE Ledger WITH balance <- CommittedBalance, tx <- tx

\* The threads, the cache, the clock and the lock together implement the
\* abstract ledger: at most one transaction per packet, moved atomically.
ImplementsLedger == Promise!Spec
=============================================================================
