---------------------------- MODULE MeshPayments ----------------------------
(***************************************************************************)
(* The demo server as a whole: payments sent into the mesh, gossiped to a  *)
(* bridge, uploaded by /api/mesh/flush, and acknowledged back into the     *)
(* mesh at the bridge, with the kill-switch and /api/mesh/reset at work.   *)
(*                                                                         *)
(* The mesh is MeshSimulator.  An upload is two steps here, the claim and  *)
(* the rest: BridgeIngestion shows that what settle() does amounts to one  *)
(* step, and studies the clock and eviction.  Here the clock is left out:  *)
(* the freshness check may find any payment too old from any moment on.    *)
(*                                                                         *)
(* Payments carry a good ackKey and the server's own time, as demo_send    *)
(* builds them.  It does not look at accounts and amounts: a payment need  *)
(* not be payable.                                                         *)
(***************************************************************************)
EXTENDS MeshSimulator, Payments

CONSTANT MaxSent  \* bound of the model: how many payments are sent

ASSUME SentAssumption == MaxSent \in Nat

\* The packet id of the ack of payment p: a fresh UUID, one per transaction.
Ack(p) == <<"ack", p>>

Acks == {Ack(p) : p \in Packets}

ASSUME MessagesAssumption ==
    /\ Messages = Packets \union Acks
    /\ Packets \intersect Acks = {}

VARIABLES
    claims,   \* idempotency cache: the packets claimed
    balance,  \* balance of each account
    tx,       \* status of each payment's transaction, or "NONE"
    stale,    \* the payments the freshness check has found too old
    answer    \* what each upload of each flush has come to

payVars == <<claims, balance, tx, stale, answer>>
vars == <<meshVars, payVars>>

Outcomes == {"DUPLICATE_DROPPED", "DECRYPTION_FAILED", "STALE_PACKET",
             "SETTLED", "INSUFFICIENT_BALANCE", "INTERNAL_ERROR"}

\* The type invariant.
TypeOK ==
    /\ MeshTypeOK
    /\ claims \subseteq Messages
    /\ balance \in [Accounts -> Int]
    /\ tx \in [Packets -> {"NONE", "SETTLED", "REJECTED"}]
    /\ stale \subseteq Packets
    /\ answer \in [Flushes -> Seq(Outcomes \union {"waiting", "claimed"})]

Init ==
    /\ MeshInit
    /\ claims = {}
    /\ balance = InitBalance
    /\ tx = [p \in Packets |-> "NONE"]
    /\ stale = {}
    /\ answer = [f \in Flushes |-> <<>>]

-----------------------------------------------------------------------------

\* /api/demo/send.
Send(d, p) ==
    /\ Cardinality(sent) < MaxSent
    /\ Inject(d, p)
    /\ UNCHANGED payVars

KillBridge(d) == Kill(d) /\ UNCHANGED payVars

Gossip(g) == GossipStep(g) /\ UNCHANGED payVars

Collect(f) ==
    /\ \/ /\ StartFlush(f)
          /\ answer' = [answer EXCEPT ![f] = <<>>]
       \/ \E d \in todo[f] : CollectDevice(f, d) /\ UNCHANGED answer
       \/ /\ EndCollect(f)
          /\ answer' = [answer EXCEPT ![f] = [i \in DOMAIN uploads[f] |-> "waiting"]]
    /\ UNCHANGED <<claims, balance, tx, stale>>

Become(f, i, outcome) == answer' = [answer EXCEPT ![f][i] = outcome]

\* Mutant of UploadClaim: the claim is not asked for.
UploadUnclaimed(f, i) ==
    /\ stage[f] = "upload"
    /\ i \in DOMAIN uploads[f]
    /\ answer[f][i] = "waiting"
    /\ claims' = claims \union {uploads[f][i].copy.message}
    /\ Become(f, i, "claimed")
    /\ UNCHANGED <<meshVars, balance, tx, stale>>

\* A worker of the flush's pool takes upload i to ingest().
UploadClaim(f, i) ==
    /\ stage[f] = "upload"
    /\ i \in DOMAIN uploads[f]
    /\ answer[f][i] = "waiting"
    /\ LET m == uploads[f][i].copy.message IN
       /\ claims' = claims \union {m}
       /\ Become(f, i, IF m \in claims THEN "DUPLICATE_DROPPED" ELSE "claimed")
    /\ UNCHANGED <<meshVars, balance, tx, stale>>

\* Mutant of AckInjected: the ack starts with a hop more than a packet has.
AckOutranges(bridge, p) ==
    held' = IF bridge \in devices
            THEN WithCopy(bridge, [message |-> Ack(p), ttl |-> Ttl + 1])
            ELSE held

\* Mutant of AckInjected: a device that has something to carry takes no ack.
AckIfEmpty(bridge, p) ==
    held' = IF bridge \in devices /\ held[bridge] = <<>>
            THEN WithCopy(bridge, [message |-> Ack(p), ttl |-> Ttl])
            ELSE held

\* generate_and_inject_ack() at a bridge that may have been killed since:
\* then there is nobody to give the ack to, and it is dropped.
AckInjected(bridge, p) ==
    held' = IF bridge \in devices
            THEN WithCopy(bridge, [message |-> Ack(p), ttl |-> Ttl])
            ELSE held

\* An ack is no ciphertext of the server's: it does not decrypt.
UploadOpaque(f, i) ==
    /\ stage[f] = "upload"
    /\ answer[f][i] = "claimed"
    /\ uploads[f][i].copy.message \in Acks
    /\ Become(f, i, "DECRYPTION_FAILED")
    /\ UNCHANGED <<meshVars, claims, balance, tx, stale>>

\* A payment that is too old stays so.
UploadStale(f, i) ==
    LET p == uploads[f][i].copy.message IN
    /\ stage[f] = "upload"
    /\ answer[f][i] = "claimed"
    /\ p \in Packets
    /\ stale' = stale \union {p}
    /\ Become(f, i, "STALE_PACKET")
    /\ UNCHANGED <<meshVars, claims, balance, tx>>

\* Upload i of flush f has a payment that is fresh, and goes on to settle().
Settling(f, i, p) ==
    /\ stage[f] = "upload"
    /\ answer[f][i] = "claimed"
    /\ p = uploads[f][i].copy.message
    /\ p \in Packets \ stale

\* settle() raises: the claim stays, and nothing else has changed.
UploadRaises(f, i) ==
    /\ \E p \in Packets : Settling(f, i, p) /\ ~Payable(p)
    /\ Become(f, i, "INTERNAL_ERROR")
    /\ UNCHANGED <<meshVars, claims, balance, tx, stale>>

\* Mutant of UploadSettle: a payment without funds is refused, and nothing is
\* recorded.
UploadSettleIfFunded(f, i) ==
    LET p      == uploads[f][i].copy.message
        funded == balance[Sender(p)] >= Amount(p)
        first  == tx[p] = "NONE"
    IN
    /\ Settling(f, i, p) /\ Payable(p)
    /\ IF ~funded
       THEN Become(f, i, "INSUFFICIENT_BALANCE") /\ UNCHANGED <<balance, tx, held>>
       ELSE /\ balance' = CreditReceiver(DebitSender(balance, p), p)
            /\ IF first
               THEN /\ tx' = [tx EXCEPT ![p] = "SETTLED"]
                    /\ AckInjected(uploads[f][i].bridge, p)
                    /\ Become(f, i, "SETTLED")
               ELSE UNCHANGED <<tx, held>> /\ Become(f, i, "INTERNAL_ERROR")
    /\ UNCHANGED <<devices, sent, stage, route, todo, plan, uploads, claims, stale>>

\* settle(): the balances move before record() is asked, and stay moved if
\* it raises.
UploadSettle(f, i) ==
    LET p      == uploads[f][i].copy.message
        funded == balance[Sender(p)] >= Amount(p)
        first  == tx[p] = "NONE"
    IN
    /\ Settling(f, i, p) /\ Payable(p)
    /\ balance' = IF funded THEN CreditReceiver(DebitSender(balance, p), p)
                            ELSE balance
    /\ IF first
       THEN /\ tx' = [tx EXCEPT ![p] = IF funded THEN "SETTLED" ELSE "REJECTED"]
            /\ AckInjected(uploads[f][i].bridge, p)
            /\ Become(f, i, IF funded THEN "SETTLED" ELSE "INSUFFICIENT_BALANCE")
       ELSE /\ UNCHANGED <<tx, held>>
            /\ Become(f, i, "INTERNAL_ERROR")
    /\ UNCHANGED <<devices, sent, stage, route, todo, plan, uploads, claims, stale>>

\* ingest(), for upload i of flush f.
Upload(f, i) ==
    \/ UploadClaim(f, i) \/ UploadOpaque(f, i) \/ UploadStale(f, i)
    \/ UploadRaises(f, i) \/ UploadSettle(f, i)

Answered(f) == \A i \in DOMAIN uploads[f] : answer[f][i] \in Outcomes

EndFlush(f) ==
    /\ stage[f] = "upload"
    /\ Answered(f)
    /\ Goto(f, "done")
    /\ UNCHANGED <<devices, held, sent, plan, uploads, payVars>>

Flush(f) ==
    \/ Collect(f)
    \/ \E i \in DOMAIN uploads[f] : Upload(f, i)
    \/ EndFlush(f)

\* /api/mesh/reset clears the devices first and the claims after; when the
\* walk over the devices raises, the claims stay.
ClearClaims(z) ==
    /\ stage[z] = "cleared"
    /\ Goto(z, "done")
    /\ claims' = {}
    /\ UNCHANGED <<devices, held, sent, plan, uploads, balance, tx, stale, answer>>

Reset(z) == (ClearStep(z) /\ UNCHANGED payVars) \/ ClearClaims(z)

Next ==
    \/ \E d \in Senders, p \in Packets : Send(d, p)
    \/ \E d \in Doomed : KillBridge(d)
    \/ \E g \in Rounds : Gossip(g)
    \/ \E f \in Flushes : Flush(f)
    \/ \E z \in Resets : Reset(z)

Spec == Init /\ [][Next]_vars

-----------------------------------------------------------------------------
(* Properties.                                                             *)

\* Until a reset forgets the claims, no interplay of gossip, flushes and
\* kills moves money that no SETTLED transaction stands for; a reset that
\* fails half-way, with the mesh partly cleared, is safe in this respect.
BalancesExplained ==
    (\A z \in Resets : stage[z] # "done") =>
        \A a \in Accounts :
            balance[a] = InitBalance[a]
                         + NetOf({p \in Packets : tx[p] = "SETTLED"}, a)

\* When a flush is over, every payable payment it collected has its
\* transaction, or will have it from a flush still working on it, unless it
\* was found too old: not even the kill of the bridge between collection and
\* upload loses one.
FlushSettlesEverything ==
    \A f \in Flushes : stage[f] = "done" =>
        \A i \in DOMAIN uploads[f] :
            LET p == uploads[f][i].copy.message IN
            p \in Packets \ stale /\ Payable(p) =>
                \/ tx[p] # "NONE"
                \/ \E e \in Flushes : \E j \in DOMAIN answer[e] :
                      /\ uploads[e][j].copy.message = p
                      /\ answer[e][j] = "claimed"

\* A flush that answers with a verdict leaves the ack with the bridge, for
\* gossip to carry home, unless the bridge was killed or the mesh reset.
VerdictLeavesAck ==
    Undisturbed =>
        \A f \in Flushes : \A i \in DOMAIN answer[f] :
            /\ answer[f][i] \in {"SETTLED", "INSUFFICIENT_BALANCE"}
            /\ uploads[f][i].bridge \in devices
            => Holds(uploads[f][i].bridge, Ack(uploads[f][i].copy.message))
=============================================================================
