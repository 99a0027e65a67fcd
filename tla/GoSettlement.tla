---------------------------- MODULE GoSettlement ----------------------------
(***************************************************************************)
(* The settlement service of the Go backend (upi-mesh-app/backend):        *)
(* MeshCoordinator.HandleBridgeIngest and SettlementService.Ingest, with   *)
(* claims in Redis and accounts and transactions in PostgreSQL.            *)
(*                                                                         *)
(* Each upload is served by a goroutine of its own, in possibly several    *)
(* processes: nothing but the two stores is shared.  A balance is read     *)
(* before the SQL transaction begins and written in it as an absolute      *)
(* value.  The transaction is read committed: an UPDATE locks its row      *)
(* until commit or rollback, and an INSERT of a hash that another          *)
(* transaction has inserted waits for that one to end.                     *)
(*                                                                         *)
(* The clock is left out: the freshness check may refuse any packet at any *)
(* time.  So are the WebSocket clients of the broadcast: when a broadcast  *)
(* ends, and whether it panics, is theirs to decide.                       *)
(*                                                                         *)
(* Money is counted in paise.  HandleBridgeIngest passes one fixed         *)
(* instruction so far, for want of decryption; Ingest is modelled for any. *)
(***************************************************************************)
EXTENDS Payments

CONSTANTS
    Uploads,     \* requests of bridges, retries included
    NoPacket,    \* the packet of a request not yet made
    MaxCrashes,  \* bound of the model: crashes of the backend
    MaxLosses    \* bound of the model: restarts of Redis that lose claims

\* HandleBridgeIngest builds instructions with positive amounts.
ASSUME GoAssumption ==
    /\ NoPacket \notin Packets
    /\ \A p \in Packets : Amount(p) > 0
    /\ MaxCrashes \in Nat /\ MaxLosses \in Nat

VARIABLES
    claims,   \* Redis: packets whose idempotency key exists
    stage,    \* how far each request has got
    packet,   \* its packet
    funds,    \* the balances it has read, of the sender and the receiver
    rowLock,  \* the requests that hold the row of each account: one at most
    balance,  \* accounts.balance, committed
    tx,       \* transactions.status for each packet_hash, committed, or "NONE"
    moves,    \* history: transfers committed for each packet
    audits,   \* settlement_audit: packets
    events,   \* mesh_events: packet and result
    answer,   \* outcome of each request, or "NONE"
    crashes,  \* how often the backend crashed
    losses    \* how often Redis lost claims

dbVars  == <<rowLock, balance, tx, moves, audits, events>>
envVars == <<crashes, losses>>
vars == <<claims, stage, packet, funds, dbVars, answer, envVars>>

Outcomes == {"DUPLICATE_DROPPED", "STALE_PACKET", "FUTURE_DATED",
             "INSUFFICIENT_BALANCE", "SETTLED", "INTERNAL_ERROR"}

\* The stages with an SQL transaction open.
InTransaction == {"begun", "debited", "credited", "inserted"}

\* Stages from which the goroutine has nothing left to do.
Ended == {"done", "crashed"}

Stages == {"idle", "claimed", "fresh", "read", "rejecting", "committed",
           "answered", "broadcasting"} \union InTransaction \union Ended

\* The type invariant.
TypeOK ==
    /\ claims \subseteq Packets
    /\ stage \in [Uploads -> Stages]
    /\ packet \in [Uploads -> Packets \union {NoPacket}]
    /\ funds \in [Uploads -> [sender : Int, receiver : Int]]
    /\ rowLock \in [Accounts -> SUBSET Uploads]
    /\ \A a \in Accounts : Cardinality(rowLock[a]) <= 1
    /\ balance \in [Accounts -> Int]
    /\ tx \in [Packets -> {"NONE", "SETTLED", "REJECTED"}]
    /\ moves \in [Packets -> Nat]
    /\ audits \subseteq Packets
    /\ events \subseteq [packet : Packets, result : Outcomes]
    /\ answer \in [Uploads -> Outcomes \union {"NONE", "ERROR"}]

Init ==
    /\ claims = {}
    /\ stage = [r \in Uploads |-> "idle"]
    /\ packet = [r \in Uploads |-> NoPacket]
    /\ funds = [r \in Uploads |-> [sender |-> 0, receiver |-> 0]]
    /\ rowLock = [a \in Accounts |-> {}]
    /\ balance = InitBalance
    /\ tx = [p \in Packets |-> "NONE"]
    /\ moves = [p \in Packets |-> 0]
    /\ audits = {}
    /\ events = {}
    /\ answer = [r \in Uploads |-> "NONE"]
    /\ crashes = 0
    /\ losses = 0

\* big.Int.SetString on "12.34", base 10: it fails, unnoticed, and leaves
\* the receiver at the digits read so far.
Rupees(paise) == paise \div 100

\* big.Int.String, stored in a column of two decimals.
ToPaise(rupees) == rupees * 100

-----------------------------------------------------------------------------

Goto(r, next) ==
    /\ stage' = [stage EXCEPT ![r] = next]
    /\ UNCHANGED answer

\* Ingest returns an outcome to HandleBridgeIngest.
Return(r, outcome) ==
    /\ stage' = [stage EXCEPT ![r] = "answered"]
    /\ answer' = [answer EXCEPT ![r] = outcome]

\* The handler fails, with a status 500.
Fail(r) ==
    /\ stage' = [stage EXCEPT ![r] = "done"]
    /\ answer' = [answer EXCEPT ![r] = "ERROR"]

\* A bridge uploads p.  PacketHash slices 64 digits out of fewer when the
\* ciphertext is short, and panics.  SETNX decides in Redis; when its reply
\* is lost, the request fails whether or not the key was set.
Ingest(r, p) ==
    /\ stage[r] = "idle"
    /\ packet' = [packet EXCEPT ![r] = p]
    /\ \/ Instruction[p].kind = "malformed" /\ Fail(r) /\ UNCHANGED claims
       \/ /\ Instruction[p].kind # "malformed"
          /\ \/ p \notin claims /\ claims' = claims \union {p} /\ Goto(r, "claimed")
             \/ p \in claims /\ Return(r, "DUPLICATE_DROPPED") /\ UNCHANGED claims
             \/ Fail(r) /\ claims' \in {claims, claims \union {p}}
    /\ UNCHANGED <<funds, dbVars, envVars>>

CheckFreshness(r) ==
    /\ stage[r] = "claimed"
    /\ \/ Return(r, "STALE_PACKET")
       \/ Return(r, "FUTURE_DATED")
       \/ Goto(r, "fresh")
    /\ UNCHANGED <<claims, packet, funds, dbVars, envVars>>

\* getAccount for the sender, then for the receiver; after that the amount
\* is compared with the balance read.
ReadSender(r) ==
    LET p == packet[r] IN
    /\ stage[r] = "fresh"
    /\ IF Sender(p) \in Accounts
       THEN funds' = [funds EXCEPT ![r].sender = balance[Sender(p)]] /\ Goto(r, "read")
       ELSE Return(r, "INTERNAL_ERROR") /\ UNCHANGED funds
    /\ UNCHANGED <<claims, packet, dbVars, envVars>>

\* Mutant of ReadReceiver: off by one in the comparison with the balance.
ReadReceiverOverdrawing(r) ==
    LET p == packet[r] IN
    /\ stage[r] = "read"
    /\ IF Receiver(p) \in Accounts
       THEN /\ funds' = [funds EXCEPT ![r].receiver = balance[Receiver(p)]]
            /\ Goto(r, IF Rupees(funds[r].sender) + 1 < Rupees(Amount(p))
                       THEN "rejecting" ELSE "begun")
       ELSE Return(r, "INTERNAL_ERROR") /\ UNCHANGED funds
    /\ UNCHANGED <<claims, packet, dbVars, envVars>>

ReadReceiver(r) ==
    LET p == packet[r] IN
    /\ stage[r] = "read"
    /\ IF Receiver(p) \in Accounts
       THEN /\ funds' = [funds EXCEPT ![r].receiver = balance[Receiver(p)]]
            /\ Goto(r, IF Rupees(funds[r].sender) < Rupees(Amount(p))
                       THEN "rejecting" ELSE "begun")
       ELSE Return(r, "INTERNAL_ERROR") /\ UNCHANGED funds
    /\ UNCHANGED <<claims, packet, dbVars, envVars>>

-----------------------------------------------------------------------------
(* The SQL transaction.                                                    *)

FreeOrOwn(r, a) == rowLock[a] \subseteq {r}

\* Nobody else has inserted the hash in a transaction still open.
InsertReady(r) ==
    \A q \in Uploads \ {r} : stage[q] = "inserted" => packet[q] # packet[r]

\* Mutant of Unlocked: a return without commit leaves the transaction open.
StillLocked(r) == rowLock

Unlocked(r) == [a \in Accounts |-> rowLock[a] \ {r}]

\* Ingest returns an error outcome; an open transaction is rolled back by the
\* deferred tx.Rollback.
Rollback(r) ==
    /\ rowLock' = Unlocked(r)
    /\ Return(r, "INTERNAL_ERROR")
    /\ UNCHANGED <<balance, tx, moves, audits, events>>

\* recordTransaction, a statement of its own.  When its reply is lost, the
\* row is there, and the caller is told of an error.
RecordRejected(r) ==
    LET p == packet[r] IN
    /\ stage[r] = "rejecting"
    /\ InsertReady(r)
    /\ IF tx[p] = "NONE"
       THEN /\ tx' = [tx EXCEPT ![p] = "REJECTED"]
            /\ Return(r, "INSUFFICIENT_BALANCE") \/ Return(r, "INTERNAL_ERROR")
       ELSE Return(r, "INTERNAL_ERROR") /\ UNCHANGED tx
    /\ UNCHANGED <<claims, packet, funds, rowLock, balance, moves, audits,
                   events, envVars>>

\* Mutant of LockRow: the row is not locked against other transactions.
LockRowShared(r, a, next) ==
    /\ rowLock' = [rowLock EXCEPT ![a] = @ \union {r}]
    /\ Goto(r, next)
    /\ UNCHANGED <<claims, packet, funds, balance, tx, moves, audits, events,
                   envVars>>

LockRow(r, a, next) ==
    /\ FreeOrOwn(r, a)
    /\ rowLock' = [rowLock EXCEPT ![a] = {r}]
    /\ Goto(r, next)
    /\ UNCHANGED <<claims, packet, funds, balance, tx, moves, audits, events,
                   envVars>>

\* The two UPDATEs.  What they write shows at commit.
UpdateSender(r)   == stage[r] = "begun" /\ LockRow(r, Sender(packet[r]), "debited")
UpdateReceiver(r) == stage[r] = "debited" /\ LockRow(r, Receiver(packet[r]), "credited")

\* The INSERT, against the unique constraint on packet_hash.
InsertTransaction(r) ==
    /\ stage[r] = "credited"
    /\ InsertReady(r)
    /\ IF tx[packet[r]] = "NONE"
       THEN Goto(r, "inserted") /\ UNCHANGED dbVars
       ELSE Rollback(r)
    /\ UNCHANGED <<claims, packet, funds, envVars>>

\* What the transaction has written: the receiver after the sender, both
\* computed from the balances read before it began.
Written(r) ==
    LET p == packet[r] IN
    [balance EXCEPT
        ![Sender(p)]   = ToPaise(Rupees(funds[r].sender) - Rupees(Amount(p))),
        ![Receiver(p)] = ToPaise(Rupees(funds[r].receiver) + Rupees(Amount(p)))]

\* Mutant of Commit: the balances are written outside of the transaction,
\* and stay when the commit fails.
CommitBalancesFirst(r) ==
    LET p == packet[r] IN
    /\ stage[r] = "inserted"
    /\ balance' = Written(r)
    /\ moves' = [moves EXCEPT ![p] = @ + 1]
    /\ rowLock' = Unlocked(r)
    /\ \/ tx' = [tx EXCEPT ![p] = "SETTLED"] /\ Goto(r, "committed")
       \/ Return(r, "INTERNAL_ERROR") /\ UNCHANGED tx
    /\ UNCHANGED <<claims, packet, funds, audits, events, envVars>>

\* Mutant of Commit: its error is not looked at.
CommitUnchecked(r) ==
    /\ stage[r] = "inserted"
    /\ rowLock' = Unlocked(r)
    /\ Goto(r, "committed")
    /\ UNCHANGED <<claims, packet, funds, balance, tx, moves, audits, events,
                   envVars>>

\* COMMIT.  Its reply may be lost: the transaction is committed, and the
\* caller is told of an error.
Commit(r) ==
    LET p == packet[r] IN
    /\ stage[r] = "inserted"
    /\ balance' = Written(r)
    /\ tx' = [tx EXCEPT ![p] = "SETTLED"]
    /\ moves' = [moves EXCEPT ![p] = @ + 1]
    /\ rowLock' = Unlocked(r)
    /\ Goto(r, "committed") \/ Return(r, "INTERNAL_ERROR")
    /\ UNCHANGED <<claims, packet, funds, audits, events, envVars>>

\* A statement fails, the connection being lost for instance: a read, the
\* INSERT of a rejection, or a statement of the transaction.
StatementFails(r) ==
    /\ stage[r] \in {"fresh", "read", "rejecting"} \union InTransaction
    /\ Rollback(r)
    /\ UNCHANGED <<claims, packet, funds, envVars>>

\* The request r waits for a row or a hash that q holds.
Awaits(r, q) ==
    \/ stage[r] = "begun" /\ q \in rowLock[Sender(packet[r])] \ {r}
    \/ stage[r] = "debited" /\ q \in rowLock[Receiver(packet[r])] \ {r}
    \/ /\ stage[r] \in {"credited", "rejecting"}
       /\ q # r /\ stage[q] = "inserted" /\ packet[q] = packet[r]

\* PostgreSQL finds a cycle of waiting transactions and fails one of them.
Deadlocked(r) ==
    \E cycle \in SUBSET Uploads :
        /\ r \in cycle
        /\ \A q \in cycle : (\E s \in cycle : Awaits(q, s)) /\ \E s \in cycle : Awaits(s, q)

BreakDeadlock(r) ==
    /\ Deadlocked(r)
    /\ Rollback(r)
    /\ UNCHANGED <<claims, packet, funds, envVars>>

-----------------------------------------------------------------------------
(* After the transaction.                                                  *)

\* The row of settlement_audit: when it fails, the error is logged.
Audit(r) ==
    /\ stage[r] = "committed"
    /\ audits' \in {audits, audits \union {packet[r]}}
    /\ Return(r, "SETTLED")
    /\ UNCHANGED <<claims, packet, funds, rowLock, balance, tx, moves, events,
                   envVars>>

\* logMeshEvent; it may fail as well.
LogMeshEvent(r) ==
    /\ stage[r] = "answered"
    /\ events' \in {events, events \union {[packet |-> packet[r], result |-> answer[r]]}}
    /\ Goto(r, "broadcasting")
    /\ UNCHANGED <<claims, packet, funds, rowLock, balance, tx, moves, audits,
                   envVars>>

\* broadcastEvent writes to every WebSocket client, under the read lock of
\* the clients and without a deadline: a client that does not read, or one
\* that waits to leave behind such a write, keeps it as long as it likes.  A
\* write of another goroutine to the same client at the same time makes it
\* panic.  Otherwise the bridge has its answer.
EndBroadcast(r) ==
    /\ stage[r] = "broadcasting"
    /\ Goto(r, "done") \/ Fail(r)
    /\ UNCHANGED <<claims, packet, funds, dbVars, envVars>>

Serve(r) ==
    \/ CheckFreshness(r)
    \/ ReadSender(r)
    \/ ReadReceiver(r)
    \/ RecordRejected(r)
    \/ UpdateSender(r)
    \/ UpdateReceiver(r)
    \/ InsertTransaction(r)
    \/ Commit(r)
    \/ BreakDeadlock(r)
    \/ Audit(r)
    \/ LogMeshEvent(r)

\* The backend crashes, or is shut down under its requests: PostgreSQL rolls
\* its transactions back, Redis keeps its claims, and no bridge gets an answer.
Crash ==
    /\ crashes < MaxCrashes
    /\ crashes' = crashes + 1
    /\ stage' = [r \in Uploads |-> IF stage[r] \in {"idle", "done"}
                                   THEN stage[r] ELSE "crashed"]
    /\ answer' = [r \in Uploads |-> IF stage[r] = "done" THEN answer[r] ELSE "NONE"]
    /\ rowLock' = [a \in Accounts |-> {}]
    /\ UNCHANGED <<claims, packet, funds, balance, tx, moves, audits, events,
                   losses>>

\* Redis snapshots its keys now and then; a restart loses the later ones.
\* The expiry of a key after 72 hours has the same effect.
LoseClaims ==
    /\ losses < MaxLosses
    /\ losses' = losses + 1
    /\ claims' \in SUBSET claims \ {claims}
    /\ UNCHANGED <<stage, packet, funds, dbVars, answer, crashes>>

Next ==
    \/ \E r \in Uploads, p \in Packets : Ingest(r, p)
    \/ \E r \in Uploads : Serve(r) \/ StatementFails(r) \/ EndBroadcast(r)
    \/ Crash
    \/ LoseClaims

Spec == Init /\ [][Next]_vars

\* A goroutine runs when it can, and PostgreSQL finds deadlocks.  That
\* statements fail is not promised, nor that a broadcast ends.
FairSpec == Spec /\ \A r \in Uploads : WF_vars(Serve(r))

-----------------------------------------------------------------------------
(* Properties.                                                             *)

\* A transfer is committed together with the SETTLED row of its packet, and
\* once: neither lost claims and retries nor crashes, lost replies and
\* deadlocks make one without the other, or a second one.
MoneyMovesWithItsRow ==
    \A p \in Packets : moves[p] = IF tx[p] = "SETTLED" THEN 1 ELSE 0

\* The row decides: whoever is told SETTLED or INSUFFICIENT_BALANCE finds
\* the transaction with that status.
AnswerHasRow ==
    \A r \in Uploads :
        /\ answer[r] = "SETTLED" => tx[packet[r]] = "SETTLED"
        /\ answer[r] = "INSUFFICIENT_BALANCE" => tx[packet[r]] = "REJECTED"

\* No account is overdrawn, though balances are stale when they are written:
\* what is written is computed from the balance that was checked.
NoOverdraft == \A a \in Accounts : balance[a] >= 0

\* Every request gets through settlement.Ingest, deadlocks included, and as
\* far as the broadcast.  That the broadcast ends, and the bridge is answered,
\* the code does not give.
IngestEnds ==
    \A r \in Uploads : stage[r] # "idle" ~> stage[r] \in {"broadcasting"} \union Ended

\* Claims and balance checks prevent double spending: no account has spent
\* more than it had and received.
SpentWithinFunds ==
    \A a \in Accounts :
        InitBalance[a] + NetOf({p \in Packets : tx[p] = "SETTLED"}, a) >= 0
=============================================================================
