-------------------------- MODULE MeshPaymentsProofs -------------------------
(***************************************************************************)
(* What MeshSimulator and MeshPayments guarantee for any devices, packets  *)
(* and number of calls at once.  The mesh alone: types, that a device      *)
(* holds one copy of a packet at most, and that a copy it holds is never   *)
(* exchanged for another.  With the payments: that a flush settles all it  *)
(* collected, that a verdict leaves its ack, and that the ledger explains  *)
(* the balances.                                                           *)
(***************************************************************************)
EXTENDS MeshPayments, PaymentsProofs, SequenceTheorems, TLAPS

CallVars == <<stage, route, todo>>

CallTypeOK ==
    /\ stage \in [Calls -> Stages]
    /\ route \in [Calls -> SUBSET Devices]
    /\ todo \in [Calls -> SUBSET Devices]

-----------------------------------------------------------------------------
(* The helpers.                                                            *)

LEMMA CallsOf ==
    Rounds \subseteq Calls /\ Flushes \subseteq Calls /\ Resets \subseteq Calls
BY DEF Calls

\* A sequence that gets one more element.
LEMMA AppendEffect ==
    ASSUME NEW S, NEW s \in Seq(S), NEW e
    PROVE  /\ DOMAIN Append(s, e) = DOMAIN s \union {Len(s) + 1}
           /\ \A i \in DOMAIN s : Append(s, e)[i] = s[i]
           /\ Append(s, e)[Len(s) + 1] = e
OBVIOUS

LEMMA ElementType ==
    ASSUME NEW S, NEW s \in Seq(S), NEW i \in DOMAIN s PROVE s[i] \in S
OBVIOUS

\* hold() keeps the types.
LEMMA WithCopyType ==
    ASSUME held \in [Devices -> Seq(Copies)],
           NEW d \in Devices, NEW copy \in Copies
    PROVE  WithCopy(d, copy) \in [Devices -> Seq(Copies)]
<1>1. Append(held[d], copy) \in Seq(Copies)
  OBVIOUS
<1> QED
  BY <1>1 DEF WithCopy

\* Only hold() and clear() change what a device holds.
HeldGrows ==
    \/ UNCHANGED held
    \/ \E d \in Devices, copy \in Copies : held' = WithCopy(d, copy)

HeldChanges ==
    \/ HeldGrows
    \/ \E d \in Devices : held' = [held EXCEPT ![d] = <<>>]

LEMMA HeldChangesType ==
    ASSUME held \in [Devices -> Seq(Copies)], HeldChanges
    PROVE  held' \in [Devices -> Seq(Copies)]
<1>1. <<>> \in Seq(Copies)
  OBVIOUS
<1> QED
  BY <1>1, WithCopyType DEF HeldChanges, HeldGrows

\* The ways a call moves on keep its types.
LEMMA CallMoves ==
    ASSUME CallTypeOK, devices \subseteq Devices, NEW c \in Calls,
           \/ \E first \in Stages : Walk(c, first)
           \/ \E next \in Stages : Leave(c, next) \/ Goto(c, next)
           \/ \E d : Visited(c, d)
           \/ UNCHANGED CallVars
    PROVE  CallTypeOK'
BY DEF CallTypeOK, Walk, Leave, Goto, Visited, CallVars

\* What a device is found to hold may be handed to the others.
LEMMA HandoutsType ==
    ASSUME MeshTypeOK, NEW g \in Rounds, NEW d \in Devices
    PROVE  Handouts(g, d) \in SUBSET Handoffs
<1> SUFFICES ASSUME NEW i \in DOMAIN held[d], held[d][i].ttl > 0,
                    NEW e \in route[g] \ {d}
             PROVE  [from |-> d, pos |-> i, message |-> held[d][i].message,
                     ttl |-> held[d][i].ttl - 1, to |-> e] \in Handoffs
  BY DEF Handouts
<1>1. held[d] \in Seq(Copies) /\ e \in Devices
  BY CallsOf DEF MeshTypeOK
<1>2. held[d][i] \in Copies /\ i \in Nat
  BY <1>1
<1>3. held[d][i].ttl - 1 \in 0..Ttl
  BY <1>2, MeshAssumption DEF Copies
<1> QED
  BY <1>1, <1>2, <1>3 DEF Handoffs, Copies

\* What a bridge is found to hold may be uploaded.
LEMMA CollectedType ==
    ASSUME MeshTypeOK, NEW f \in Flushes, NEW d \in Bridges
    PROVE  uploads[f] \o [i \in DOMAIN held[d] |->
                             [bridge |-> d, copy |-> held[d][i]]]
           \in Seq([bridge : Bridges, copy : Copies])
<1>1. held[d] \in Seq(Copies)
  BY MeshAssumption DEF MeshTypeOK
<1>2. [i \in DOMAIN held[d] |-> [bridge |-> d, copy |-> held[d][i]]]
          \in Seq([bridge : Bridges, copy : Copies])
  <2>1. Len(held[d]) \in Nat /\ DOMAIN held[d] = 1..Len(held[d])
    BY <1>1
  <2>2. \A i \in DOMAIN held[d] :
            [bridge |-> d, copy |-> held[d][i]] \in [bridge : Bridges, copy : Copies]
    BY <1>1
  <2> QED
    BY <2>1, <2>2
<1>3. uploads[f] \in Seq([bridge : Bridges, copy : Copies])
  BY DEF MeshTypeOK
<1> QED
  BY <1>2, <1>3

-----------------------------------------------------------------------------
(* Type correctness.                                                       *)

LEMMA InitMeshTypeOK == MeshInit => MeshTypeOK
BY MeshAssumption DEF MeshInit, MeshTypeOK, Stages

\* What a step of a round of gossip does.
LEMMA GossipEffect ==
    ASSUME MeshTypeOK, NEW g \in Rounds, GossipStep(g)
    PROVE  /\ UNCHANGED <<devices, sent, uploads>>
           /\ HeldGrows
           /\ plan' \in [Rounds -> SUBSET Handoffs]
           /\ CallTypeOK'
<1>0. g \in Calls /\ CallTypeOK /\ devices \subseteq Devices
      /\ plan \in [Rounds -> SUBSET Handoffs]
  BY CallsOf DEF CallTypeOK, MeshTypeOK
<1>s. {"snapshot", "offer", "hand", "count", "failed", "done"} \subseteq Stages
  BY DEF Stages
<1>1. CASE StartRound(g)
  BY <1>0, <1>s, <1>1, CallMoves DEF StartRound, HeldGrows
<1>2. ASSUME NEW d \in todo[g], SnapshotDevice(g, d)
      PROVE  /\ UNCHANGED <<devices, sent, uploads>> /\ HeldGrows
             /\ plan' \in [Rounds -> SUBSET Handoffs] /\ CallTypeOK'
  <2>1. Handouts(g, d) \in SUBSET Handoffs
    BY <1>0, HandoutsType DEF CallTypeOK
  <2>2. plan' \in [Rounds -> SUBSET Handoffs]
    BY <1>0, <1>2, <2>1 DEF SnapshotDevice
  <2>3. CallTypeOK'
    BY <1>0, <1>2, CallMoves DEF SnapshotDevice
  <2> QED
    BY <1>2, <2>2, <2>3 DEF SnapshotDevice, HeldGrows
<1>3. CASE SnapshotTaken(g)
  BY <1>0, <1>s, <1>3, CallMoves DEF SnapshotTaken, HeldGrows
<1>4. ASSUME NEW x \in plan[g], Offer(g, x)
      PROVE  /\ UNCHANGED <<devices, sent, uploads>> /\ HeldGrows
             /\ plan' \in [Rounds -> SUBSET Handoffs] /\ CallTypeOK'
  BY <1>0, <1>s, <1>4 DEF Offer, Done, HeldGrows, CallTypeOK
<1>5. ASSUME NEW x \in plan[g], HandOver(g, x)
      PROVE  /\ UNCHANGED <<devices, sent, uploads>> /\ HeldGrows
             /\ plan' \in [Rounds -> SUBSET Handoffs] /\ CallTypeOK'
  <2>1. [message |-> x.message, ttl |-> x.ttl] \in Copies
    BY <1>0 DEF Handoffs, Copies
  <2>2. plan' \in [Rounds -> SUBSET Handoffs]
    BY <1>0, <1>5 DEF HandOver, Done
  <2>3. CallTypeOK'
    BY <1>0, <1>s, <1>5, CallMoves DEF HandOver
  <2>4. HeldGrows
    <3>1. x.to \in Devices
      BY <1>0 DEF Handoffs
    <3>2. held' = WithCopy(x.to, [message |-> x.message, ttl |-> x.ttl])
      BY <1>5 DEF HandOver
    <3> QED
      BY <2>1, <3>1, <3>2 DEF HeldGrows
  <2> QED
    BY <1>5, <2>2, <2>3, <2>4 DEF HandOver
<1>6. CASE StartCount(g)
  BY <1>0, <1>s, <1>6, CallMoves DEF StartCount, HeldGrows
<1>7. CASE EndCount(g)
  BY <1>0, <1>s, <1>7, CallMoves DEF EndCount, HeldGrows
<1> QED
  BY <1>1, <1>2, <1>3, <1>4, <1>5, <1>6, <1>7 DEF GossipStep

\* What a step of a flush that collects does.
LEMMA CollectEffect ==
    ASSUME MeshTypeOK, NEW f \in Flushes, CollectStep(f)
    PROVE  /\ UNCHANGED <<devices, held, sent, plan>>
           /\ uploads' \in [Flushes -> Seq([bridge : Bridges, copy : Copies])]
           /\ CallTypeOK'
<1>0. f \in Calls /\ CallTypeOK /\ devices \subseteq Devices
      /\ uploads \in [Flushes -> Seq([bridge : Bridges, copy : Copies])]
  BY CallsOf DEF CallTypeOK, MeshTypeOK
<1>s. {"collect", "upload", "failed"} \subseteq Stages
  BY DEF Stages
<1>1. CASE StartFlush(f)
  <2>1. <<>> \in Seq([bridge : Bridges, copy : Copies])
    OBVIOUS
  <2>2. CallTypeOK'
    BY <1>0, <1>s, <1>1, CallMoves DEF StartFlush
  <2> QED
    BY <1>0, <1>1, <2>1, <2>2 DEF StartFlush
<1>2. ASSUME NEW d \in todo[f], CollectDevice(f, d)
      PROVE  /\ UNCHANGED <<devices, held, sent, plan>>
             /\ uploads' \in [Flushes -> Seq([bridge : Bridges, copy : Copies])]
             /\ CallTypeOK'
  <2>1. CallTypeOK'
    BY <1>0, <1>2, CallMoves DEF CollectDevice
  <2>2. uploads' \in [Flushes -> Seq([bridge : Bridges, copy : Copies])]
    BY <1>0, <1>2, CollectedType DEF CollectDevice
  <2> QED
    BY <1>2, <2>1, <2>2 DEF CollectDevice
<1>3. CASE EndCollect(f)
  BY <1>0, <1>s, <1>3, CallMoves DEF EndCollect, LoopEnds
<1> QED
  BY <1>1, <1>2, <1>3 DEF CollectStep

\* What a step of a reset does.
LEMMA ClearEffect ==
    ASSUME MeshTypeOK, NEW z \in Resets, ClearStep(z)
    PROVE  /\ UNCHANGED <<devices, sent, plan, uploads>>
           /\ HeldChanges
           /\ CallTypeOK'
<1>0. z \in Calls /\ CallTypeOK /\ devices \subseteq Devices
  BY CallsOf DEF CallTypeOK, MeshTypeOK
<1>s. {"clear", "cleared", "failed"} \subseteq Stages
  BY DEF Stages
<1>1. CASE StartReset(z)
  BY <1>0, <1>s, <1>1, CallMoves DEF StartReset, HeldChanges, HeldGrows
<1>2. ASSUME NEW d \in todo[z], ClearDevice(z, d)
      PROVE  /\ UNCHANGED <<devices, sent, plan, uploads>>
             /\ HeldChanges
             /\ CallTypeOK'
  <2>1. CallTypeOK'
    BY <1>0, <1>2, CallMoves DEF ClearDevice
  <2>2. d \in Devices
    BY <1>0 DEF CallTypeOK
  <2> QED
    BY <1>2, <2>1, <2>2 DEF ClearDevice, HeldChanges, HeldGrows
<1>3. CASE EndClear(z)
  BY <1>0, <1>s, <1>3, CallMoves DEF EndClear, LoopEnds, HeldChanges, HeldGrows
<1> QED
  BY <1>1, <1>2, <1>3 DEF ClearStep

\* What inject() does.
LEMMA InjectEffect ==
    ASSUME NEW d \in Devices, NEW m \in Messages, Inject(d, m)
    PROVE  /\ HeldGrows
           /\ sent' = sent \union {m}
           /\ UNCHANGED <<devices, stage, route, todo, plan, uploads>>
<1>1. [message |-> m, ttl |-> Ttl] \in Copies
  BY MeshAssumption DEF Copies
<1>2. held' = WithCopy(d, [message |-> m, ttl |-> Ttl])
  BY DEF Inject
<1>3. HeldGrows
  BY <1>1, <1>2 DEF HeldGrows
<1> QED
  BY <1>3 DEF Inject

LEMMA MeshTypeParts ==
    MeshTypeOK <=> /\ devices \subseteq Devices
                   /\ held \in [Devices -> Seq(Copies)]
                   /\ sent \subseteq Messages
                   /\ CallTypeOK
                   /\ plan \in [Rounds -> SUBSET Handoffs]
                   /\ uploads \in [Flushes -> Seq([bridge : Bridges, copy : Copies])]
BY DEF MeshTypeOK, CallTypeOK

\* Whatever the caller, a step of the mesh keeps the types and changes what
\* is held by hold() and clear() only.
LEMMA NextMeshTypeOK ==
    ASSUME MeshTypeOK, [MeshStep]_meshVars PROVE MeshTypeOK' /\ HeldChanges
<1>1. ASSUME NEW d \in Senders, NEW m \in Messages, Inject(d, m)
      PROVE  MeshTypeOK' /\ HeldChanges
  <2>1. d \in Devices
    BY MeshAssumption
  <2> QED
    BY <1>1, <2>1, MeshTypeParts, InjectEffect, HeldChangesType DEF MeshTypeOK, HeldChanges
<1>2. ASSUME NEW d \in Doomed, Kill(d) PROVE MeshTypeOK' /\ HeldChanges
  BY <1>2 DEF Kill, MeshTypeOK, HeldChanges, HeldGrows
<1>3. ASSUME NEW g \in Rounds, GossipStep(g) PROVE MeshTypeOK' /\ HeldChanges
  BY <1>3, MeshTypeParts, GossipEffect, HeldChangesType 
      DEF MeshTypeOK, CallTypeOK, HeldChanges
<1>4. ASSUME NEW f \in Flushes, CollectStep(f) PROVE MeshTypeOK' /\ HeldChanges
  BY <1>4, CollectEffect DEF MeshTypeOK, CallTypeOK, HeldChanges, HeldGrows
<1>5. ASSUME NEW z \in Resets, ClearStep(z) PROVE MeshTypeOK' /\ HeldChanges
  BY <1>5, MeshTypeParts, ClearEffect, HeldChangesType DEF MeshTypeOK, CallTypeOK
<1>6. CASE UNCHANGED meshVars
  BY <1>6 DEF meshVars, MeshTypeOK, HeldChanges, HeldGrows
<1> QED
  BY <1>1, <1>2, <1>3, <1>4, <1>5, <1>6 DEF MeshStep

\* The devices, the copies they hold and the calls have their types; no copy
\* has a negative TTL.
THEOREM MeshTypeCorrect == MeshSpec => []MeshTypeOK
<1>1. MeshTypeOK /\ [MeshStep]_meshVars => MeshTypeOK'
  BY NextMeshTypeOK
<1> QED
  BY <1>1, InitMeshTypeOK, PTL DEF MeshSpec

-----------------------------------------------------------------------------
(* One copy.                                                               *)

\* hold() adds no second copy of a packet, clear() none at all.
LEMMA OneCopyStays ==
    ASSUME held \in [Devices -> Seq(Copies)], OneCopyPerDevice, HeldChanges
    PROVE  OneCopyPerDevice'
<1>1. ASSUME NEW d \in Devices, NEW copy \in Copies, held' = WithCopy(d, copy)
      PROVE  OneCopyPerDevice'
  <2> SUFFICES ASSUME NEW e \in Devices, NEW m \in Messages,
                      NEW i \in DOMAIN held'[e], NEW j \in DOMAIN held'[e],
                      held'[e][i].message = m, held'[e][j].message = m
               PROVE  i = j
    BY DEF OneCopyPerDevice
  <2>1. CASE held'[e] = held[e]
    BY <2>1 DEF OneCopyPerDevice
  <2>2. CASE held'[e] # held[e]
    <3>1. held'[e] = Append(held[e], copy) /\ ~Holds(e, copy.message)
      BY <1>1, <2>2 DEF WithCopy
    <3>2. held[e] \in Seq(Copies)
      OBVIOUS
    <3> QED
      BY <3>1, <3>2, AppendEffect DEF Holds, OneCopyPerDevice
  <2> QED
    BY <2>1, <2>2
<1>2. ASSUME NEW d \in Devices, held' = [held EXCEPT ![d] = <<>>]
      PROVE  OneCopyPerDevice'
  BY <1>2 DEF OneCopyPerDevice
<1> QED
  BY <1>1, <1>2 DEF HeldChanges, HeldGrows, OneCopyPerDevice

\* However rounds, injections and resets interleave, a device holds one copy
\* of a packet at most.
THEOREM OneCopy == MeshSpec => []OneCopyPerDevice
<1> DEFINE Inv == MeshTypeOK /\ OneCopyPerDevice
<1>1. MeshInit => Inv
  BY InitMeshTypeOK DEF MeshInit, OneCopyPerDevice
<1>2. Inv /\ [MeshStep]_meshVars => Inv'
  BY NextMeshTypeOK, OneCopyStays DEF MeshTypeOK
<1> QED
  BY <1>1, <1>2, PTL DEF MeshSpec

\* What hold() and clear() do to a copy that is held before and after.
LEMMA CopyStays ==
    ASSUME held \in [Devices -> Seq(Copies)], HeldChanges,
           NEW d \in Devices, NEW m \in Messages, Holds(d, m), Holds(d, m)'
    PROVE  TtlHeld(d, m)' = TtlHeld(d, m)
<1>1. CASE held'[d] = held[d]
  BY <1>1 DEF TtlHeld
<1>2. CASE held'[d] # held[d]
  <2>1. held'[d] # <<>>
    BY DEF Holds
  <2>2. PICK copy \in Copies : /\ held'[d] = Append(held[d], copy)
                               /\ ~Holds(d, copy.message)
    BY <1>2, <2>1 DEF HeldChanges, HeldGrows, WithCopy
  <2>3. held[d] \in Seq(Copies) /\ copy.message # m
    BY <2>2
  <2>4. {j \in DOMAIN held'[d] : held'[d][j].message = m}
        = {j \in DOMAIN held[d] : held[d][j].message = m}
    BY <2>2, <2>3, AppendEffect
  <2>5. \A j \in DOMAIN held[d] : held'[d][j] = held[d][j]
    BY <2>2, <2>3, AppendEffect
  <2> QED
    BY <2>4, <2>5 DEF TtlHeld
<1> QED
  BY <1>1, <1>2

\* A copy, once held, is not exchanged for one with another TTL.
THEOREM CopyIsStable == MeshSpec => HeldCopyIsStable
<1>1. MeshTypeOK /\ [MeshStep]_meshVars => MeshTypeOK'
  BY NextMeshTypeOK
<1>2. MeshTypeOK /\ [MeshStep]_meshVars =>
          [\A d \in Devices, m \in Messages :
              Holds(d, m) /\ Holds(d, m)' => TtlHeld(d, m)' = TtlHeld(d, m)]_meshVars
  BY NextMeshTypeOK, CopyStays DEF MeshTypeOK
<1> QED
  BY <1>1, <1>2, InitMeshTypeOK, PTL DEF MeshSpec, HeldCopyIsStable

-----------------------------------------------------------------------------
(* The steps of the payments.                                              *)

Answers == Outcomes \union {"waiting", "claimed"}

\* One upload of one flush gets an answer.
LEMMA BecomeEffect ==
    ASSUME answer \in [Flushes -> Seq(Answers)],
           NEW f \in Flushes, NEW i, NEW o \in Answers, Become(f, i, o)
    PROVE  /\ answer' \in [Flushes -> Seq(Answers)]
           /\ \A e \in Flushes : DOMAIN answer'[e] = DOMAIN answer[e]
           /\ \A e \in Flushes : \A j \in DOMAIN answer[e] :
                 answer'[e][j] = IF e = f /\ j = i THEN o ELSE answer[e][j]
<1>1. \A e \in Flushes : answer[e] \in Seq(Answers)
  OBVIOUS
<1>2. [answer[f] EXCEPT ![i] = o] \in Seq(Answers)
  <2>1. /\ Len(answer[f]) \in Nat
        /\ answer[f] \in [1..Len(answer[f]) -> Answers]
    BY <1>1, LenProperties
  <2>2. [answer[f] EXCEPT ![i] = o] \in [1..Len(answer[f]) -> Answers]
    BY <2>1
  <2> QED
    BY <2>1, <2>2, SeqDef
<1>3. answer' = [answer EXCEPT ![f] = [answer[f] EXCEPT ![i] = o]]
  BY DEF Become
<1> QED
  BY <1>1, <1>2, <1>3

\* The steps of a call leave every other call where it is.
LEMMA OthersStay ==
    ASSUME stage \in [Calls -> Stages], NEW c \in Calls,
           GossipStep(c) \/ CollectStep(c) \/ ClearStep(c)
    PROVE  \A b \in Calls \ {c} : stage'[b] = stage[b]
<1>1. CASE GossipStep(c)
  BY <1>1 DEF GossipStep, StartRound, SnapshotDevice, SnapshotTaken, Offer,
              HandOver, StartCount, EndCount, Walk, Leave, Goto, Visited
<1>2. CASE CollectStep(c)
  BY <1>2 DEF CollectStep, StartFlush, CollectDevice, EndCollect, LoopEnds,
              Walk, Leave, Visited
<1>3. CASE ClearStep(c)
  BY <1>3 DEF ClearStep, StartReset, ClearDevice, EndClear, LoopEnds,
              Walk, Leave, Visited
<1> QED
  BY <1>1, <1>2, <1>3

\* A step that no flush and no claim notices.
Quiet ==
    /\ UNCHANGED <<uploads, payVars>>
    /\ \A f \in Flushes : stage'[f] = stage[f]

LEMMA QuietSteps ==
    ASSUME TypeOK,
           \/ \E d \in Senders, p \in Packets : Send(d, p)
           \/ \E d \in Doomed : KillBridge(d)
           \/ \E g \in Rounds : Gossip(g)
           \/ \E z \in Resets : ClearStep(z) /\ UNCHANGED payVars
           \/ UNCHANGED vars
    PROVE  Quiet
<1>0. MeshTypeOK /\ stage \in [Calls -> Stages]
      /\ (\A b \in Rounds \union Resets, f \in Flushes :
              b \in Calls /\ f \in Calls \ {b})
  BY CallsOf, MeshAssumption DEF TypeOK, MeshTypeOK
<1>1. ASSUME NEW d \in Senders, NEW p \in Packets, Send(d, p) PROVE Quiet
  BY <1>1 DEF Send, Inject, Quiet
<1>2. ASSUME NEW d \in Doomed, KillBridge(d) PROVE Quiet
  BY <1>2 DEF KillBridge, Kill, Quiet
<1>3. ASSUME NEW g \in Rounds, Gossip(g) PROVE Quiet
  BY <1>0, <1>3, GossipEffect, OthersStay DEF Gossip, Quiet
<1>4. ASSUME NEW z \in Resets, ClearStep(z), UNCHANGED payVars PROVE Quiet
  BY <1>0, <1>4, ClearEffect, OthersStay DEF Quiet
<1>5. CASE UNCHANGED vars
  BY <1>5 DEF vars, meshVars, Quiet
<1> QED
  BY <1>1, <1>2, <1>3, <1>4, <1>5

-----------------------------------------------------------------------------
(* Type correctness.                                                       *)

LEMMA PayInitTypeOK == Init => TypeOK
BY InitMeshTypeOK, BalanceAssumption DEF Init, TypeOK

\* What has been uploaded is a message of the mesh, from a bridge.
LEMMA UploadType ==
    ASSUME TypeOK, NEW f \in Flushes, NEW i \in DOMAIN uploads[f]
    PROVE  /\ uploads[f][i].copy.message \in Messages
           /\ uploads[f][i].bridge \in Devices
<1>1. uploads[f] \in Seq([bridge : Bridges, copy : Copies])
  BY DEF TypeOK, MeshTypeOK
<1>2. uploads[f][i] \in [bridge : Bridges, copy : Copies]
  BY <1>1, ElementType
<1> QED
  BY <1>2, MeshAssumption DEF Copies

\* The ack is held like any other copy.
LEMMA AckEffect ==
    ASSUME TypeOK, NEW d \in Devices, NEW p \in Packets, AckInjected(d, p)
    PROVE  HeldGrows
<1>1. [message |-> Ack(p), ttl |-> Ttl] \in Copies
  BY MessagesAssumption, MeshAssumption DEF Copies, Acks
<1> QED
  BY <1>1 DEF AckInjected, HeldGrows

\* A flush that moves on to its end, and a reset to its own, are calls that
\* go on.
LEMMA GotoType ==
    ASSUME MeshTypeOK, NEW c \in Calls, Goto(c, "done"),
           UNCHANGED <<devices, held, sent, plan, uploads>>
    PROVE  /\ MeshTypeOK'
           /\ \A b \in Calls : stage'[b] = IF b = c THEN "done" ELSE stage[b]
BY DEF Goto, MeshTypeOK, Stages

\* What a step of a flush that works on its uploads changes.
LEMMA UploadStepType ==
    ASSUME TypeOK, NEW f \in Flushes, NEW i \in DOMAIN uploads[f],
           Upload(f, i)
    PROVE  /\ TypeOK'
           /\ HeldGrows
           /\ UNCHANGED <<devices, stage, uploads>>
<1> DEFINE m == uploads[f][i].copy.message
<1>0. /\ MeshTypeOK /\ m \in Messages /\ uploads[f][i].bridge \in Devices
      /\ answer \in [Flushes -> Seq(Answers)]
  BY UploadType DEF TypeOK, Answers
<1>s. Outcomes \union {"waiting", "claimed"} = Answers
      /\ {"DUPLICATE_DROPPED", "DECRYPTION_FAILED", "SETTLED",
          "INSUFFICIENT_BALANCE", "INTERNAL_ERROR", "STALE_PACKET",
          "claimed"} \subseteq Answers
  BY DEF Answers, Outcomes
<1>1. CASE UploadClaim(f, i)
  <2>1. answer' \in [Flushes -> Seq(Answers)]
    BY <1>0, <1>s, <1>1, BecomeEffect DEF UploadClaim
  <2>2. MeshTypeOK' /\ HeldGrows /\ UNCHANGED <<devices, stage, uploads>>
    BY <1>0, <1>1 DEF UploadClaim, meshVars, MeshTypeOK, HeldGrows
  <2> QED
    BY <1>0, <1>1, <1>s, <2>1, <2>2 DEF UploadClaim, TypeOK
<1>2. CASE UploadOpaque(f, i)
  <2>1. answer' \in [Flushes -> Seq(Answers)]
    BY <1>0, <1>s, <1>2, BecomeEffect DEF UploadOpaque
  <2>2. MeshTypeOK' /\ HeldGrows /\ UNCHANGED <<devices, stage, uploads>>
    BY <1>0, <1>2 DEF UploadOpaque, meshVars, MeshTypeOK, HeldGrows
  <2> QED
    BY <1>2, <1>s, <2>1, <2>2 DEF UploadOpaque, TypeOK
<1>3. CASE UploadStale(f, i)
  <2>1. answer' \in [Flushes -> Seq(Answers)]
    BY <1>0, <1>s, <1>3, BecomeEffect DEF UploadStale
  <2>2. MeshTypeOK' /\ HeldGrows /\ UNCHANGED <<devices, stage, uploads>>
    BY <1>0, <1>3 DEF UploadStale, meshVars, MeshTypeOK, HeldGrows
  <2> QED
    BY <1>3, <1>s, <2>1, <2>2 DEF UploadStale, TypeOK
<1>4. CASE UploadRaises(f, i)
  <2>1. answer' \in [Flushes -> Seq(Answers)]
    BY <1>0, <1>s, <1>4, BecomeEffect DEF UploadRaises
  <2>2. MeshTypeOK' /\ HeldGrows /\ UNCHANGED <<devices, stage, uploads>>
    BY <1>0, <1>4 DEF UploadRaises, meshVars, MeshTypeOK, HeldGrows
  <2> QED
    BY <1>4, <1>s, <2>1, <2>2 DEF UploadRaises, TypeOK
<1>5. CASE UploadSettle(f, i)
  <2>1. answer' \in [Flushes -> Seq(Answers)]
    <3>1. \E o \in Answers : Become(f, i, o)
      BY <1>s, <1>5 DEF UploadSettle
    <3> QED
      BY <1>0, <3>1, BecomeEffect
  <2>2. HeldGrows
    <3>1. m \in Packets
      BY <1>5 DEF UploadSettle, Settling
    <3>2. AckInjected(uploads[f][i].bridge, m) \/ UNCHANGED held
      BY <1>5 DEF UploadSettle
    <3> QED
      BY <1>0, <3>1, <3>2, AckEffect DEF HeldGrows
  <2>3. held' \in [Devices -> Seq(Copies)]
    BY <1>0, <2>2, HeldChangesType DEF HeldChanges, MeshTypeOK
  <2>4. MeshTypeOK' /\ UNCHANGED <<devices, stage, uploads>>
    BY <1>0, <1>5, <2>3 DEF UploadSettle, MeshTypeOK
  <2>5. balance' \in [Accounts -> Int]
    <3>1. m \in Packets
      BY <1>5 DEF UploadSettle, Settling
    <3> QED
      BY <1>5, <3>1, TransferEffect DEF UploadSettle, TypeOK
  <2>6. tx' \in [Packets -> {"NONE", "SETTLED", "REJECTED"}]
    BY <1>5 DEF UploadSettle, TypeOK
  <2>7. claims' \subseteq Messages /\ stale' \subseteq Packets
    BY <1>5 DEF UploadSettle, TypeOK
  <2> QED
    BY <1>s, <2>1, <2>2, <2>4, <2>5, <2>6, <2>7 DEF TypeOK
<1> QED
  BY <1>1, <1>2, <1>3, <1>4, <1>5 DEF Upload

\* What a step of a flush that collects changes.
LEMMA CollectType ==
    ASSUME TypeOK, NEW f \in Flushes, Collect(f)
    PROVE  /\ CollectStep(f)
           /\ UNCHANGED <<devices, held, claims, balance, tx, stale>>
           /\ TypeOK'
<1>0. MeshTypeOK /\ answer \in [Flushes -> Seq(Answers)]
  BY DEF TypeOK, Answers
<1>1. CollectStep(f)
  BY DEF Collect, CollectStep
<1>2. MeshTypeOK' /\ UNCHANGED <<devices, held>>
  BY <1>0, <1>1, CollectEffect DEF MeshTypeOK, CallTypeOK
<1>3. answer' \in [Flushes -> Seq(Answers)]
  <2>1. <<>> \in Seq(Answers)
    OBVIOUS
  <2>2. [i \in DOMAIN uploads[f] |-> "waiting"] \in Seq(Answers)
    <3>1. uploads[f] \in Seq([bridge : Bridges, copy : Copies])
      BY <1>0 DEF MeshTypeOK
    <3>2. Len(uploads[f]) \in Nat /\ DOMAIN uploads[f] = 1..Len(uploads[f])
      BY <3>1
    <3>3. "waiting" \in Answers
      BY DEF Answers
    <3> QED
      BY <3>2, <3>3
  <2> QED
    BY <1>0, <2>1, <2>2 DEF Collect
<1> QED
  BY <1>1, <1>2, <1>3 DEF Collect, TypeOK, Answers

LEMMA NextPayTypeOK ==
    ASSUME TypeOK, [Next]_vars PROVE TypeOK'
<1>0. MeshTypeOK /\ Rounds \subseteq Calls /\ Resets \subseteq Calls
      /\ Flushes \subseteq Calls
  BY CallsOf DEF TypeOK
<1>1. ASSUME NEW d \in Senders, NEW p \in Packets, Send(d, p) PROVE TypeOK'
  <2>1. p \in Messages
    BY MessagesAssumption
  <2>2. MeshTypeOK'
    BY <1>0, <1>1, <2>1, NextMeshTypeOK DEF Send, MeshStep
  <2> QED
    BY <1>1, <2>2 DEF Send, payVars, TypeOK
<1>2. ASSUME NEW d \in Doomed, KillBridge(d) PROVE TypeOK'
  <2>1. MeshTypeOK'
    BY <1>0, <1>2, NextMeshTypeOK DEF KillBridge, MeshStep
  <2> QED
    BY <1>2, <2>1 DEF KillBridge, payVars, TypeOK
<1>3. ASSUME NEW g \in Rounds, Gossip(g) PROVE TypeOK'
  <2>1. MeshTypeOK'
    BY <1>0, <1>3, NextMeshTypeOK DEF Gossip, MeshStep
  <2> QED
    BY <1>3, <2>1 DEF Gossip, payVars, TypeOK
<1>4. ASSUME NEW f \in Flushes, Flush(f) PROVE TypeOK'
  <2>1. ASSUME EndFlush(f) PROVE TypeOK'
    <3>1. MeshTypeOK'
      BY <1>0, <2>1, GotoType DEF EndFlush
    <3> QED
      BY <2>1, <3>1 DEF EndFlush, payVars, TypeOK
  <2> QED
    BY <1>4, <2>1, CollectType, UploadStepType DEF Flush
<1>5. ASSUME NEW z \in Resets, Reset(z) PROVE TypeOK'
  <2>1. ASSUME ClearClaims(z) PROVE TypeOK'
    <3>1. MeshTypeOK'
      BY <1>0, <2>1, GotoType DEF ClearClaims
    <3> QED
      BY <2>1, <3>1 DEF ClearClaims, TypeOK
  <2>2. ASSUME ClearStep(z), UNCHANGED payVars PROVE TypeOK'
    <3>1. MeshTypeOK'
      BY <1>0, <2>2, NextMeshTypeOK DEF MeshStep
    <3> QED
      BY <2>2, <3>1 DEF payVars, TypeOK
  <2> QED
    BY <1>5, <2>1, <2>2 DEF Reset
<1>6. CASE UNCHANGED vars
  BY <1>6 DEF vars, meshVars, payVars, TypeOK, MeshTypeOK
<1> QED
  BY <1>1, <1>2, <1>3, <1>4, <1>5, <1>6 DEF Next

\* The mesh, the claims, the balances, the transactions and the answers of
\* the flushes have their types.
THEOREM TypeCorrect == Spec => []TypeOK
BY PayInitTypeOK, NextPayTypeOK, PTL DEF Spec

-----------------------------------------------------------------------------
(* What the answers of a flush go with.                                    *)

Item(f, i) == uploads[f][i].copy.message

\* The answers of a flush go with its uploads.
AnswersFit ==
    \A f \in Flushes :
        /\ DOMAIN answer[f] \subseteq DOMAIN uploads[f]
        /\ stage[f] = "collect" => answer[f] = <<>>
        /\ stage[f] \in {"upload", "done"} =>
               DOMAIN answer[f] = DOMAIN uploads[f]
        /\ \A i \in DOMAIN answer[f] :
              /\ answer[f][i] = "claimed" => stage[f] = "upload"
              /\ answer[f][i] = "waiting" => stage[f] # "done"

LEMMA InitAnswersFit == Init => AnswersFit
BY DEF Init, MeshInit, AnswersFit

\* A flush that collects touches nothing of another flush, has claimed
\* nothing before the step, and nothing after it.
LEMMA CollectMoves ==
    ASSUME TypeOK, AnswersFit, NEW f \in Flushes, Collect(f)
    PROVE  /\ \A e \in Flushes \ {f} : /\ stage'[e] = stage[e]
                                      /\ uploads'[e] = uploads[e]
                                      /\ answer'[e] = answer[e]
           /\ stage[f] # "upload" /\ stage'[f] # "done"
           /\ \A i \in DOMAIN answer'[f] : answer'[f][i] = "waiting"
           /\ DOMAIN answer'[f] \subseteq DOMAIN uploads'[f]
           /\ stage'[f] = "collect" => answer'[f] = <<>>
           /\ stage'[f] = "upload" => DOMAIN answer'[f] = DOMAIN uploads'[f]
<1>0. /\ f \in Calls /\ stage \in [Calls -> Stages]
      /\ uploads \in [Flushes -> Seq([bridge : Bridges, copy : Copies])]
      /\ answer \in [Flushes -> Seq(Answers)]
      /\ Flushes \subseteq Calls
  BY CallsOf DEF TypeOK, MeshTypeOK, Answers
<1>1. CASE StartFlush(f) /\ answer' = [answer EXCEPT ![f] = <<>>]
  BY <1>0, <1>1 DEF StartFlush, Walk, Resting
<1>2. ASSUME NEW d \in todo[f], CollectDevice(f, d), UNCHANGED answer
      PROVE  /\ stage' = stage /\ stage[f] = "collect"
             /\ answer[f] = <<>> /\ answer' = answer
             /\ \A e \in Flushes \ {f} : uploads'[e] = uploads[e]
  BY <1>0, <1>2 DEF CollectDevice, Visiting, Visited, AnswersFit
<1>3. CASE EndCollect(f)
           /\ answer' = [answer EXCEPT ![f] = [i \in DOMAIN uploads[f] |-> "waiting"]]
  BY <1>0, <1>3 DEF EndCollect, LoopEnds, Leave
<1> QED
  BY <1>1, <1>2, <1>3 DEF Collect

\* What happens to the answers when a worker of a flush takes a step.
LEMMA UploadMoves ==
    ASSUME TypeOK, AnswersFit, NEW f \in Flushes, NEW i \in DOMAIN uploads[f],
           Upload(f, i)
    PROVE  /\ UNCHANGED <<devices, stage, uploads>>
           /\ stage[f] = "upload"
           /\ i \in DOMAIN answer[f]
           /\ \A e \in Flushes : DOMAIN answer'[e] = DOMAIN answer[e]
           /\ \E o \in Outcomes \union {"claimed"} :
                 /\ Become(f, i, o)
                 /\ \A e \in Flushes : \A j \in DOMAIN answer[e] :
                       answer'[e][j] = IF e = f /\ j = i THEN o ELSE answer[e][j]
<1>0. answer \in [Flushes -> Seq(Answers)]
  BY DEF TypeOK, Answers
<1>1. stage[f] = "upload"
  BY DEF Upload, UploadClaim, UploadOpaque, UploadStale, UploadRaises, UploadSettle,
         Settling
<1>2. i \in DOMAIN answer[f]
  BY <1>1 DEF AnswersFit
<1>3. PICK o \in Outcomes \union {"claimed"} : Become(f, i, o)
  BY DEF Upload, UploadClaim, UploadOpaque, UploadStale, UploadRaises, UploadSettle,
         Outcomes
<1>4. o \in Answers
  BY DEF Answers
<1>5. UNCHANGED <<devices, stage, uploads>>
  BY UploadStepType
<1>6. /\ \A e \in Flushes : DOMAIN answer'[e] = DOMAIN answer[e]
      /\ \A e \in Flushes : \A j \in DOMAIN answer[e] :
            answer'[e][j] = IF e = f /\ j = i THEN o ELSE answer[e][j]
  BY <1>0, <1>3, <1>4, BecomeEffect
<1> QED
  BY <1>1, <1>2, <1>3, <1>5, <1>6

LEMMA NextAnswersFit ==
    ASSUME TypeOK, AnswersFit, [Next]_vars PROVE AnswersFit'
<1>1. CASE Quiet
  BY <1>1 DEF Quiet, payVars, AnswersFit
<1>2. ASSUME NEW f \in Flushes, Collect(f) PROVE AnswersFit'
  <2> SUFFICES ASSUME NEW e \in Flushes
               PROVE  /\ DOMAIN answer'[e] \subseteq DOMAIN uploads'[e]
                      /\ stage'[e] = "collect" => answer'[e] = <<>>
                      /\ stage'[e] \in {"upload", "done"} =>
                             DOMAIN answer'[e] = DOMAIN uploads'[e]
                      /\ \A i \in DOMAIN answer'[e] :
                            /\ answer'[e][i] = "claimed" => stage'[e] = "upload"
                            /\ answer'[e][i] = "waiting" => stage'[e] # "done"
    BY DEF AnswersFit
  <2>1. CASE e = f
    BY <1>2, <2>1, CollectMoves
  <2>2. CASE e # f
    BY <1>2, <2>2, CollectMoves DEF AnswersFit
  <2> QED
    BY <2>1, <2>2
<1>3. ASSUME NEW f \in Flushes, NEW i \in DOMAIN uploads[f],
             Upload(f, i)
      PROVE  AnswersFit'
  <2>1. PICK o \in Outcomes \union {"claimed"} :
            \A e \in Flushes : \A j \in DOMAIN answer[e] :
                answer'[e][j] = IF e = f /\ j = i THEN o ELSE answer[e][j]
    BY <1>3, UploadMoves
  <2>2. o # "waiting"
    BY DEF Outcomes
  <2>3. /\ UNCHANGED <<stage, uploads>> /\ stage[f] = "upload"
        /\ \A e \in Flushes : DOMAIN answer'[e] = DOMAIN answer[e]
    BY <1>3, UploadMoves
  <2> SUFFICES ASSUME NEW e \in Flushes
               PROVE  /\ DOMAIN answer'[e] \subseteq DOMAIN uploads'[e]
                      /\ stage'[e] = "collect" => answer'[e] = <<>>
                      /\ stage'[e] \in {"upload", "done"} =>
                             DOMAIN answer'[e] = DOMAIN uploads'[e]
                      /\ \A j \in DOMAIN answer'[e] :
                            /\ answer'[e][j] = "claimed" => stage'[e] = "upload"
                            /\ answer'[e][j] = "waiting" => stage'[e] # "done"
    BY DEF AnswersFit
  <2>4. stage[e] = "collect" => answer'[e] = answer[e]
    <3>1. answer'[e] = answer[e] \/ e = f
      BY <1>3 DEF Upload, UploadClaim, UploadOpaque, UploadStale, UploadRaises,
                  UploadSettle, Become, TypeOK
    <3> QED
      BY <2>3, <3>1
  <2> QED
    BY <2>1, <2>2, <2>3, <2>4 DEF AnswersFit
<1>4. ASSUME NEW f \in Flushes, EndFlush(f) PROVE AnswersFit'
  <2>1. \A e \in Flushes : stage'[e] = IF e = f THEN "done" ELSE stage[e]
    BY <1>4, CallsOf, GotoType DEF EndFlush, TypeOK
  <2>2. UNCHANGED <<uploads, answer>>
    BY <1>4 DEF EndFlush, payVars
  <2>3. /\ stage[f] = "upload"
        /\ \A i \in DOMAIN uploads[f] : answer[f][i] \notin {"waiting", "claimed"}
    BY <1>4 DEF EndFlush, Answered, Outcomes
  <2> QED
    BY <2>1, <2>2, <2>3 DEF AnswersFit
<1>5. ASSUME NEW z \in Resets, ClearClaims(z) PROVE AnswersFit'
  <2>1. \A f \in Flushes : stage'[f] = stage[f]
    BY <1>5, CallsOf, MeshAssumption, GotoType DEF ClearClaims, TypeOK
  <2> QED
    BY <1>5, <2>1 DEF ClearClaims, AnswersFit
<1> QED
  BY <1>1, <1>2, <1>3, <1>4, <1>5, QuietSteps DEF Next, Flush, Reset

-----------------------------------------------------------------------------
(* No payment that a flush collected is lost.                              *)

\* Payment p cannot be settled, or was found too old; or it has its
\* transaction, or an upload is about to give it one.
Attended(p) ==
    \/ ~Payable(p) \/ p \in stale
    \/ tx[p] # "NONE"
    \/ \E e \in Flushes : \E j \in DOMAIN answer[e] :
          /\ Item(e, j) = p
          /\ answer[e][j] = "claimed"

\* A claim, and an answer that came of one, stands for a payment attended to.
ClaimsAttended ==
    /\ \A p \in claims \intersect Packets : Attended(p)
    /\ \A f \in Flushes : \A i \in DOMAIN answer[f] :
          answer[f][i] # "waiting" /\ Item(f, i) \in Packets =>
              Attended(Item(f, i))

LEMMA InitClaimsAttended == Init => ClaimsAttended
BY DEF Init, ClaimsAttended

\* The transaction of a payment stays.
LEMMA TransactionStays ==
    ASSUME TypeOK, [Next]_vars, NEW p \in Packets, tx[p] # "NONE"
    PROVE  tx'[p] = tx[p]
<1>1. CASE Quiet
  BY <1>1 DEF Quiet, payVars
<1>2. ASSUME NEW f \in Flushes, Flush(f) PROVE tx'[p] = tx[p]
  <2>1. ASSUME NEW i \in DOMAIN uploads[f], Upload(f, i) PROVE tx'[p] = tx[p]
    BY <2>1 DEF Upload, UploadClaim, UploadOpaque, UploadStale, UploadRaises,
                UploadSettle, TypeOK
  <2> QED
    BY <1>2, <2>1 DEF Flush, Collect, EndFlush, payVars
<1>3. ASSUME NEW z \in Resets, ClearClaims(z) PROVE tx'[p] = tx[p]
  BY <1>3 DEF ClearClaims
<1> QED
  BY <1>1, <1>2, <1>3, QuietSteps DEF Next, Reset

\* A payment found too old stays so.
LEMMA StaleStays ==
    ASSUME TypeOK, [Next]_vars, NEW p \in stale
    PROVE  p \in stale'
<1>1. CASE Quiet
  BY <1>1 DEF Quiet, payVars
<1>2. ASSUME NEW f \in Flushes, Flush(f) PROVE p \in stale'
  BY <1>2 DEF Flush, Collect, EndFlush, payVars, Upload, UploadClaim, UploadOpaque,
              UploadStale, UploadRaises, UploadSettle
<1>3. ASSUME NEW z \in Resets, ClearClaims(z) PROVE p \in stale'
  BY <1>3 DEF ClearClaims
<1> QED
  BY <1>1, <1>2, <1>3, QuietSteps DEF Next, Reset

\* An upload that has claimed its payment settles it before it does anything
\* else, unless it is too old, and nobody takes it away.
LEMMA AttendedStays ==
    ASSUME TypeOK, AnswersFit, [Next]_vars, NEW p \in Packets, Attended(p)
    PROVE  Attended(p)'
<1>1. CASE ~Payable(p) \/ p \in stale \/ tx[p] # "NONE"
  BY <1>1, TransactionStays, StaleStays DEF Attended
<1>2. ASSUME NEW e \in Flushes, NEW j \in DOMAIN answer[e],
             Item(e, j) = p, answer[e][j] = "claimed",
             Payable(p), p \notin stale, tx[p] = "NONE"
      PROVE  Attended(p)'
  <2>0. stage[e] = "upload" /\ j \in DOMAIN uploads[e]
    BY <1>2 DEF AnswersFit
  <2>k. /\ j \in DOMAIN answer'[e] /\ answer'[e][j] = "claimed"
        /\ uploads'[e] = uploads[e]
        => Attended(p)'
    BY <1>2 DEF Attended, Item
  <2>1. CASE Quiet
    BY <1>2, <2>1, <2>k DEF Quiet, payVars
  <2>2. ASSUME NEW f \in Flushes, Collect(f) PROVE Attended(p)'
    <3>1. f # e
      BY <2>0, <2>2, CollectMoves
    <3>2. answer'[e] = answer[e] /\ uploads'[e] = uploads[e]
      BY <2>2, <3>1, CollectMoves
    <3> QED
      BY <1>2, <2>k, <3>2
  <2>3. ASSUME NEW f \in Flushes, NEW i \in DOMAIN uploads[f],
               Upload(f, i)
        PROVE  Attended(p)'
    <3>1. /\ UNCHANGED uploads
          /\ \A b \in Flushes : DOMAIN answer'[b] = DOMAIN answer[b]
          /\ ~(e = f /\ j = i) => answer'[e][j] = answer[e][j]
      BY <2>3, UploadMoves
    <3>2. CASE ~(e = f /\ j = i)
      BY <1>2, <2>k, <3>1, <3>2
    <3>3. CASE e = f /\ j = i
      <4>1. UploadSettle(f, i) \/ UploadStale(f, i)
        BY <1>2, <2>3, <3>3, MessagesAssumption
           DEF Upload, UploadClaim, UploadOpaque, UploadRaises, Settling, Item
      <4>2. CASE UploadSettle(f, i)
        BY <1>2, <3>3, <4>2 DEF UploadSettle, Item, TypeOK, Attended
      <4>3. CASE UploadStale(f, i)
        BY <1>2, <3>3, <4>3 DEF UploadStale, Item, Attended
      <4> QED
        BY <4>1, <4>2, <4>3
    <3> QED
      BY <3>2, <3>3
  <2>4. ASSUME NEW f \in Flushes, EndFlush(f) PROVE Attended(p)'
    BY <1>2, <2>4, <2>k DEF EndFlush, payVars
  <2>5. ASSUME NEW z \in Resets, ClearClaims(z) PROVE Attended(p)'
    BY <1>2, <2>5, <2>k DEF ClearClaims
  <2> QED
    BY <2>1, <2>2, <2>3, <2>4, <2>5, QuietSteps DEF Next, Flush, Reset
<1> QED
  BY <1>1, <1>2 DEF Attended

LEMMA NextClaimsAttended ==
    ASSUME TypeOK, AnswersFit, ClaimsAttended, [Next]_vars
    PROVE  ClaimsAttended'
<1>0. \A p \in Packets : Attended(p) => Attended(p)'
  BY AttendedStays
<1>1. CASE Quiet
  BY <1>0, <1>1 DEF Quiet, payVars, ClaimsAttended, Item
<1>2. ASSUME NEW f \in Flushes, Collect(f) PROVE ClaimsAttended'
  <2>1. claims' = claims
    BY <1>2 DEF Collect
  <2>2. ASSUME NEW e \in Flushes, NEW i \in DOMAIN answer'[e],
               answer'[e][i] # "waiting",
               NEW p \in Packets, p = Item(e, i)'
        PROVE  Attended(p)'
    <3>1. e # f
      BY <1>2, <2>2, CollectMoves
    <3>2. answer'[e] = answer[e] /\ Item(e, i)' = Item(e, i)
      BY <1>2, <3>1, CollectMoves DEF Item
    <3>3. Attended(p)
      BY <2>2, <3>2 DEF ClaimsAttended
    <3> QED
      BY <1>0, <3>2, <3>3
  <2> QED
    BY <1>0, <2>1, <2>2 DEF ClaimsAttended
<1>3. ASSUME NEW f \in Flushes, NEW i \in DOMAIN uploads[f],
             Upload(f, i)
      PROVE  ClaimsAttended'
  <2>0. /\ UNCHANGED uploads /\ i \in DOMAIN answer[f]
        /\ \A e \in Flushes : DOMAIN answer'[e] = DOMAIN answer[e]
        /\ \A e \in Flushes : \A j : Item(e, j)' = Item(e, j)
    BY <1>3, UploadMoves DEF Item
  <2>1. PICK o \in Outcomes \union {"claimed"} :
            \A e \in Flushes : \A j \in DOMAIN answer[e] :
                answer'[e][j] = IF e = f /\ j = i THEN o ELSE answer[e][j]
    BY <1>3, UploadMoves
  <2>2. ASSUME NEW p \in Packets, p = Item(f, i) PROVE Attended(p)'
    <3>1. CASE answer[f][i] # "waiting"
      BY <1>0, <2>0, <2>2, <3>1 DEF ClaimsAttended
    <3>2. CASE UploadClaim(f, i) /\ Item(f, i) \in claims
      BY <1>0, <2>2, <3>2 DEF ClaimsAttended
    <3>3. CASE UploadClaim(f, i) /\ Item(f, i) \notin claims
      <4>1. Become(f, i, "claimed")
        BY <3>3 DEF UploadClaim, Item
      <4>2. answer'[f][i] = "claimed"
        BY <2>0, <4>1 DEF Become, TypeOK
      <4>3. Item(f, i)' = p /\ i \in DOMAIN answer'[f]
        BY <2>0, <2>2
      <4> QED
        BY <4>2, <4>3 DEF Attended
    <3> QED
      BY <1>3, <3>1, <3>2, <3>3
         DEF Upload, UploadOpaque, UploadStale, UploadRaises, UploadSettle, Settling
  <2>3. claims' \subseteq claims \union {Item(f, i)}
    BY <1>3 DEF Upload, UploadClaim, UploadOpaque, UploadStale, UploadRaises,
                UploadSettle, Item
  <2>4. ASSUME NEW e \in Flushes, NEW j \in DOMAIN answer'[e],
               answer'[e][j] # "waiting",
               NEW p \in Packets, p = Item(e, j)'
        PROVE  Attended(p)'
    <3>0. p = Item(e, j)
      BY <2>0, <2>4
    <3>1. CASE e = f /\ j = i
      BY <2>2, <2>4, <3>0, <3>1
    <3>2. CASE ~(e = f /\ j = i)
      <4>1. j \in DOMAIN answer[e] /\ answer'[e][j] = answer[e][j]
        BY <2>0, <2>1, <3>2
      <4>2. Attended(p)
        BY <2>4, <3>0, <4>1 DEF ClaimsAttended
      <4> QED
        BY <1>0, <4>2
    <3> QED
      BY <3>1, <3>2
  <2>5. \A p \in claims' \intersect Packets : Attended(p)'
    BY <1>0, <2>2, <2>3 DEF ClaimsAttended
  <2> QED
    BY <2>0, <2>4, <2>5 DEF ClaimsAttended
<1>4. ASSUME NEW f \in Flushes, EndFlush(f) PROVE ClaimsAttended'
  BY <1>0, <1>4 DEF EndFlush, payVars, ClaimsAttended, Item
<1>5. ASSUME NEW z \in Resets, ClearClaims(z) PROVE ClaimsAttended'
  BY <1>0, <1>5 DEF ClearClaims, ClaimsAttended, Item
<1> QED
  BY <1>1, <1>2, <1>3, <1>4, <1>5, QuietSteps DEF Next, Flush, Reset

\* When a flush is over, every payment it collected that settle() does not
\* raise for is settled or refused for want of funds, or is just being so by
\* a flush that collected it too, or was found too old.
THEOREM FlushSettles == Spec => []FlushSettlesEverything
<1> DEFINE Inv == TypeOK /\ AnswersFit /\ ClaimsAttended
<1>1. Init => Inv
  BY PayInitTypeOK, InitAnswersFit, InitClaimsAttended
<1>2. Inv /\ [Next]_vars => Inv'
  BY NextPayTypeOK, NextAnswersFit, NextClaimsAttended
<1>3. Inv => FlushSettlesEverything
  BY DEF AnswersFit, ClaimsAttended, Attended, Item, FlushSettlesEverything
<1> QED
  BY <1>1, <1>2, <1>3, PTL DEF Spec

-----------------------------------------------------------------------------
(* The ack of a verdict.                                                   *)

\* No reset has forgotten the claims yet.
Remembered == \A z \in Resets : stage[z] # "done"

\* What a step may do to the devices, and what it may not do unless a reset
\* is at work.
LEMMA MeshEffect ==
    ASSUME TypeOK, [Next]_vars
    PROVE  /\ devices' \subseteq devices
           /\ Undisturbed' => Undisturbed /\ HeldGrows
           /\ Remembered' => Remembered
<1>0. /\ MeshTypeOK /\ stage \in [Calls -> Stages]
      /\ \A b \in Rounds \union Flushes, z \in Resets :
            b \in Calls /\ z \in Calls \ {b}
  BY CallsOf, MeshAssumption DEF TypeOK, MeshTypeOK
<1> DEFINE SameResets == \A z \in Resets : stage'[z] = stage[z]
<1>k. SameResets /\ HeldGrows =>
          /\ Undisturbed' => Undisturbed /\ HeldGrows
          /\ Remembered' => Remembered
  BY DEF Undisturbed, Remembered
<1>1. ASSUME NEW d \in Senders, NEW p \in Packets, Send(d, p)
      PROVE  devices' \subseteq devices /\ SameResets /\ HeldGrows
  BY <1>1, MeshAssumption, MessagesAssumption, InjectEffect DEF Send
<1>2. ASSUME NEW d \in Doomed, KillBridge(d)
      PROVE  devices' \subseteq devices /\ SameResets /\ HeldGrows
  BY <1>2 DEF KillBridge, Kill, HeldGrows
<1>3. ASSUME NEW g \in Rounds, Gossip(g)
      PROVE  devices' \subseteq devices /\ SameResets /\ HeldGrows
  BY <1>0, <1>3, GossipEffect, OthersStay DEF Gossip
<1>4. ASSUME NEW f \in Flushes, Flush(f)
      PROVE  devices' \subseteq devices /\ SameResets /\ HeldGrows
  <2>1. CASE Collect(f)
    BY <1>0, <2>1, CollectType, OthersStay DEF HeldGrows
  <2>2. ASSUME NEW i \in DOMAIN uploads[f],
               Upload(f, i)
        PROVE  devices' \subseteq devices /\ SameResets /\ HeldGrows
    BY <2>2, UploadStepType
  <2>3. CASE EndFlush(f)
    BY <1>0, <2>3, GotoType DEF EndFlush, HeldGrows
  <2> QED
    BY <1>4, <2>1, <2>2, <2>3 DEF Flush
<1>5. ASSUME NEW z \in Resets, Reset(z)
      PROVE  /\ devices' \subseteq devices
             /\ ~Undisturbed'
             /\ Remembered' => Remembered
  <2>1. CASE ClearStep(z)
    <3>1. devices' = devices
      BY <1>0, <2>1, ClearEffect
    <3>2. \A y \in Resets \ {z} : stage'[y] = stage[y]
      BY <1>0, <2>1, CallsOf, OthersStay
    <3>3. stage[z] # "done" /\ stage'[z] # "idle"
      BY <1>0, <2>1, CallsOf
         DEF ClearStep, StartReset, ClearDevice, Visiting, EndClear, LoopEnds,
             Walk, Leave, Visited
    <3> QED
      BY <3>1, <3>2, <3>3 DEF Undisturbed, Remembered
  <2>2. CASE ClearClaims(z)
    BY <1>0, <2>2, CallsOf, GotoType DEF ClearClaims, Undisturbed, Remembered
  <2> QED
    BY <1>5, <2>1, <2>2 DEF Reset
<1>6. ASSUME UNCHANGED vars
      PROVE  devices' \subseteq devices /\ SameResets /\ HeldGrows
  BY <1>6 DEF vars, meshVars, HeldGrows
<1> QED
  BY <1>k, <1>1, <1>2, <1>3, <1>4, <1>5, <1>6 DEF Next

\* hold() takes nothing away.
LEMMA HoldsStays ==
    ASSUME held \in [Devices -> Seq(Copies)], HeldGrows,
           NEW d \in Devices, NEW m, Holds(d, m)
    PROVE  Holds(d, m)'
<1>1. CASE held'[d] = held[d]
  BY <1>1 DEF Holds
<1>2. ASSUME NEW copy, held'[d] = Append(held[d], copy)
      PROVE  Holds(d, m)'
  BY <1>2, AppendEffect DEF Holds
<1> QED
  BY <1>1, <1>2 DEF HeldGrows, WithCopy

\* Once hold() returns, the packet is held.
LEMMA HeldAfter ==
    ASSUME held \in [Devices -> Seq(Copies)],
           NEW d \in Devices, NEW copy \in Copies, held' = WithCopy(d, copy)
    PROVE  Holds(d, copy.message)'
<1>1. CASE Holds(d, copy.message)
  BY <1>1, HoldsStays DEF HeldGrows
<1>2. CASE ~Holds(d, copy.message)
  <2>1. held'[d] = Append(held[d], copy) /\ held[d] \in Seq(Copies)
    BY <1>2 DEF WithCopy
  <2> QED
    BY <2>1, AppendEffect DEF Holds
<1> QED
  BY <1>1, <1>2

Verdicts == {"SETTLED", "INSUFFICIENT_BALANCE"}

LEMMA InitVerdictLeavesAck == Init => VerdictLeavesAck
BY DEF Init, VerdictLeavesAck

LEMMA NextVerdictLeavesAck ==
    ASSUME TypeOK, AnswersFit, VerdictLeavesAck, [Next]_vars
    PROVE  VerdictLeavesAck'
<1> SUFFICES ASSUME Undisturbed', NEW e \in Flushes,
                    NEW j \in DOMAIN answer'[e], answer'[e][j] \in Verdicts,
                    NEW b, b = uploads'[e][j].bridge, b \in devices',
                    NEW m, m = Item(e, j)'
             PROVE  Holds(b, Ack(m))'
  BY DEF VerdictLeavesAck, Verdicts, Item
<1>0. /\ Undisturbed /\ HeldGrows /\ b \in devices /\ b \in Devices
      /\ held \in [Devices -> Seq(Copies)]
  BY MeshEffect DEF TypeOK, MeshTypeOK
<1>k. /\ j \in DOMAIN answer[e] /\ answer[e][j] = answer'[e][j]
      /\ uploads'[e] = uploads[e]
      => Holds(b, Ack(m))'
  BY <1>0, HoldsStays DEF VerdictLeavesAck, Verdicts, Item
<1>1. CASE Quiet
  BY <1>1, <1>k DEF Quiet, payVars
<1>2. ASSUME NEW f \in Flushes, Collect(f) PROVE Holds(b, Ack(m))'
  <2>1. e # f
    BY <1>2, CollectMoves DEF Verdicts
  <2> QED
    BY <1>2, <1>k, <2>1, CollectMoves
<1>3. ASSUME NEW f \in Flushes, NEW i \in DOMAIN uploads[f],
             Upload(f, i)
      PROVE  Holds(b, Ack(m))'
  <2>0. /\ UNCHANGED uploads /\ j \in DOMAIN answer[e] /\ i \in DOMAIN answer[f]
    BY <1>3, UploadMoves
  <2>1. CASE ~(e = f /\ j = i)
    <3>1. answer'[e][j] = answer[e][j]
      BY <1>3, <2>0, <2>1, UploadMoves
    <3> QED
      BY <1>k, <2>0, <3>1
  <2>2. CASE e = f /\ j = i
    <3>1. b = uploads[f][i].bridge /\ m = Item(f, i)
      BY <2>0, <2>2 DEF Item
    <3>2. \A o : Become(f, i, o) => answer'[f][i] = o
      BY <2>0 DEF Become, TypeOK
    <3>3. UploadSettle(f, i) /\ tx[m] = "NONE"
      BY <1>3, <2>2, <3>1, <3>2
         DEF Upload, UploadClaim, UploadOpaque, UploadStale, UploadRaises, UploadSettle,
             Verdicts, Item
    <3>4. m \in Packets /\ AckInjected(b, m)
      BY <3>1, <3>3 DEF UploadSettle, Settling, Item
    <3>5. [message |-> Ack(m), ttl |-> Ttl] \in Copies
      BY <3>4, MessagesAssumption, MeshAssumption DEF Copies, Acks
    <3>6. held' = WithCopy(b, [message |-> Ack(m), ttl |-> Ttl])
      BY <1>0, <3>4 DEF AckInjected
    <3> QED
      BY <1>0, <3>5, <3>6, HeldAfter
  <2> QED
    BY <2>1, <2>2
<1>4. ASSUME NEW f \in Flushes, EndFlush(f) PROVE Holds(b, Ack(m))'
  BY <1>4, <1>k DEF EndFlush, payVars
<1>5. ASSUME NEW z \in Resets, ClearClaims(z) PROVE Holds(b, Ack(m))'
  BY <1>5, <1>k DEF ClearClaims
<1> QED
  BY <1>1, <1>2, <1>3, <1>4, <1>5, QuietSteps DEF Next, Flush, Reset

\* Unless the mesh is reset, a bridge still there holds the ack of every
\* payment that was settled or refused through it.
THEOREM VerdictIsAcked == Spec => []VerdictLeavesAck
<1> DEFINE Inv == TypeOK /\ AnswersFit /\ VerdictLeavesAck
<1>1. Init => Inv
  BY PayInitTypeOK, InitAnswersFit, InitVerdictLeavesAck
<1>2. Inv /\ [Next]_vars => Inv'
  BY NextPayTypeOK, NextAnswersFit, NextVerdictLeavesAck
<1> QED
  BY <1>1, <1>2, PTL DEF Spec

-----------------------------------------------------------------------------
(* What the ledger explains.                                               *)

\* Upload i of flush f has claimed packet p and is to settle it.
Claimant(f, i, p) ==
    i \in DOMAIN answer[f] /\ answer[f][i] = "claimed" /\ Item(f, i) = p

\* While the claims are remembered, a payment has a transaction or a single
\* claimant, and never both.
OneClaimant ==
    /\ \A p \in Packets : tx[p] # "NONE" => p \in claims
    /\ \A p \in Packets, f \in Flushes : \A i : Claimant(f, i, p) =>
          /\ p \in claims
          /\ tx[p] = "NONE"
          /\ \A e \in Flushes : \A j : Claimant(e, j, p) => e = f /\ j = i

LEMMA InitOneClaimant == Init => OneClaimant
BY DEF Init, OneClaimant, Claimant

LEMMA NextOneClaimant ==
    ASSUME TypeOK, AnswersFit, OneClaimant, [Next]_vars, Remembered'
    PROVE  OneClaimant'
<1> DEFINE NoNewClaimant ==
               \A p \in Packets, f \in Flushes : \A i :
                   Claimant(f, i, p)' => Claimant(f, i, p)
<1>k. UNCHANGED <<claims, tx>> /\ NoNewClaimant => OneClaimant'
  BY DEF OneClaimant
<1>1. CASE Quiet
  BY <1>1, <1>k DEF Quiet, payVars, Claimant, Item
<1>2. ASSUME NEW f \in Flushes, Collect(f) PROVE OneClaimant'
  <2>1. ASSUME NEW p \in Packets, NEW e \in Flushes, NEW i, Claimant(e, i, p)'
        PROVE  Claimant(e, i, p)
    <3>1. e # f
      BY <1>2, <2>1, CollectMoves DEF Claimant
    <3> QED
      BY <1>2, <2>1, <3>1, CollectMoves DEF Claimant, Item
  <2> QED
    BY <1>2, <1>k, <2>1 DEF Collect
<1>3. ASSUME NEW f \in Flushes, NEW i \in DOMAIN uploads[f],
             Upload(f, i)
      PROVE  OneClaimant'
  <2>0. PICK o \in Outcomes \union {"claimed"} :
            /\ Become(f, i, o)
            /\ \A e \in Flushes : \A j \in DOMAIN answer[e] :
                answer'[e][j] = IF e = f /\ j = i THEN o ELSE answer[e][j]
    BY <1>3, UploadMoves
  <2>1. /\ UNCHANGED uploads /\ i \in DOMAIN answer[f]
        /\ \A e \in Flushes : DOMAIN answer'[e] = DOMAIN answer[e]
    BY <1>3, UploadMoves
  <2>2. answer'[f][i] = o
    BY <2>0, <2>1
  <2>3. \A p \in Packets, e \in Flushes : \A j :
            /\ Claimant(e, j, p)'
            /\ o # "claimed" \/ ~(e = f /\ j = i)
            => Claimant(e, j, p) /\ ~(e = f /\ j = i)
    BY <2>0, <2>1 DEF Claimant, Item
  <2>4. \A a : Become(f, i, a) => answer'[f][i] = a
    BY <2>1 DEF Become, TypeOK
  <2>5. CASE UploadClaim(f, i) /\ Item(f, i) \notin claims
    <3> DEFINE q == Item(f, i)
    <3>1. \A e \in Flushes : \A j : q \in Packets => ~Claimant(e, j, q)
      BY <2>5 DEF OneClaimant
    <3>2. q \in Packets => tx[q] = "NONE"
      BY <2>5 DEF OneClaimant
    <3>3. claims' = claims \union {q} /\ UNCHANGED tx
      BY <2>5 DEF UploadClaim, Item
    <3>4. \A p \in Packets : Claimant(f, i, p)' => p = q
      BY <2>1 DEF Claimant, Item
    <3> HIDE DEF q
    <3>5. ASSUME NEW p \in Packets, NEW e \in Flushes, NEW j, Claimant(e, j, p)'
          PROVE  (Claimant(e, j, p) /\ p # q) \/ (p = q /\ e = f /\ j = i)
      BY <2>3, <3>1, <3>4, <3>5
    <3> QED
      BY <3>2, <3>3, <3>5 DEF OneClaimant
  <2>6. CASE UploadClaim(f, i) /\ Item(f, i) \in claims
    <3>1. o # "claimed" /\ claims' = claims /\ UNCHANGED tx
      BY <2>2, <2>4, <2>6 DEF UploadClaim, Item
    <3> QED
      BY <1>k, <2>3, <3>1
  <2>7. CASE UploadOpaque(f, i) \/ UploadStale(f, i) \/ UploadRaises(f, i)
    <3>1. o # "claimed" /\ UNCHANGED <<claims, tx>>
      BY <2>2, <2>4, <2>7 DEF UploadOpaque, UploadStale, UploadRaises
    <3> QED
      BY <1>k, <2>3, <3>1
  <2>8. CASE UploadSettle(f, i)
    <3> DEFINE q == Item(f, i)
    <3>1. q \in Packets /\ Claimant(f, i, q) /\ UNCHANGED claims
      BY <2>1, <2>8 DEF UploadSettle, Settling, Claimant, Item
    <3>2. o # "claimed"
      BY <2>2, <2>4, <2>8 DEF UploadSettle
    <3>3. \A p \in Packets \ {q} : tx'[p] = tx[p]
      BY <2>8 DEF UploadSettle, Item, TypeOK
    <3>4. q \in claims
      BY <3>1 DEF OneClaimant
    <3>5. \A e \in Flushes : \A j : Claimant(e, j, q) => e = f /\ j = i
      BY <3>1 DEF OneClaimant
    <3> HIDE DEF q
    <3>6. ASSUME NEW p \in Packets, NEW e \in Flushes, NEW j, Claimant(e, j, p)'
          PROVE  Claimant(e, j, p) /\ p # q
      BY <2>3, <3>2, <3>5, <3>6
    <3> QED
      BY <3>1, <3>3, <3>4, <3>6 DEF OneClaimant
  <2> QED
    BY <1>3, <2>5, <2>6, <2>7, <2>8 DEF Upload
<1>4. ASSUME NEW f \in Flushes, EndFlush(f) PROVE OneClaimant'
  BY <1>4, <1>k DEF EndFlush, payVars, Claimant, Item
<1>5. ASSUME NEW z \in Resets, ClearClaims(z) PROVE FALSE
  BY <1>5, CallsOf, GotoType DEF ClearClaims, TypeOK, Remembered
<1> QED
  BY <1>1, <1>2, <1>3, <1>4, <1>5, QuietSteps DEF Next, Flush, Reset

Settled == {p \in Packets : tx[p] = "SETTLED"}

Explained ==
    \A a \in Accounts : balance[a] = InitBalance[a] + NetOf(Settled, a)

\* What moves the balances moves the transactions with them.
LEMMA NextExplained ==
    ASSUME TypeOK, IsFiniteSet(Settled), [Next]_vars
    PROVE  /\ IsFiniteSet(Settled')
           /\ OneClaimant /\ AnswersFit /\ Explained => Explained'
<1>1. CASE UNCHANGED <<balance, tx>>
  <2>1. Settled' = Settled
    BY <1>1 DEF Settled
  <2>2. \A a \in Accounts : NetOf(Settled', a) = NetOf(Settled, a)
    BY <2>1, Zenon
  <2> QED
    BY <1>1, <2>1, <2>2 DEF Explained
<1>2. ASSUME NEW f \in Flushes, NEW i \in DOMAIN uploads[f], UploadSettle(f, i)
      PROVE  /\ IsFiniteSet(Settled')
             /\ OneClaimant /\ AnswersFit /\ Explained => Explained'
  <2> DEFINE p      == Item(f, i)
             funded == balance[Sender(p)] >= Amount(p)
  <2>1. /\ p \in Packets
        /\ stage[f] = "upload" /\ answer[f][i] = "claimed"
        /\ balance' = IF funded THEN CreditReceiver(DebitSender(balance, p), p)
                                ELSE balance
        /\ tx' = IF tx[p] = "NONE"
                 THEN [tx EXCEPT ![p] = IF funded THEN "SETTLED" ELSE "REJECTED"]
                 ELSE tx
    BY <1>2 DEF UploadSettle, Settling, Item
  <2> HIDE DEF p, funded
  <2>2. tx \in [Packets -> {"NONE", "SETTLED", "REJECTED"}]
        /\ balance \in [Accounts -> Int]
    BY DEF TypeOK
  <2>3. Settled' = IF tx[p] = "NONE" /\ funded THEN Settled \union {p} ELSE Settled
    BY <2>1, <2>2 DEF Settled
  <2>4. IsFiniteSet(Settled')
    BY <2>3, FS_AddElement
  <2>5. ASSUME OneClaimant, AnswersFit, Explained PROVE Explained'
    <3>1. tx[p] = "NONE"
      <4>1. Claimant(f, i, p)
        BY <2>1, <2>5 DEF Claimant, AnswersFit, p
      <4> QED
        BY <2>1, <2>5, <4>1 DEF OneClaimant
    <3>2. CASE funded
      <4>1. p \notin Settled /\ Settled \in SUBSET Packets
        BY <3>1 DEF Settled
      <4>2. Settled' = Settled \union {p}
        BY <2>3, <3>1, <3>2
      <4> SUFFICES ASSUME NEW a \in Accounts
                   PROVE  balance'[a] = InitBalance[a] + NetOf(Settled', a)
        BY DEF Explained
      <4>3. NetOf(Settled', a) = NetOf(Settled \union {p}, a)
        BY <4>2, Zenon
      <4>4. /\ NetOf(Settled, a) \in Int
            /\ NetOf(Settled \union {p}, a) =
                  NetOf(Settled, a) + (IF a = Receiver(p) THEN Amount(p) ELSE 0)
                                    - (IF a = Sender(p) THEN Amount(p) ELSE 0)
        BY <2>1, <4>1, NetOfSettled
      <4>5. balance'[a] =
                balance[a] + (IF a = Receiver(p) THEN Amount(p) ELSE 0)
                           - (IF a = Sender(p) THEN Amount(p) ELSE 0)
        BY <2>1, <2>2, <3>2, TransferEffect
      <4>6. balance[a] = InitBalance[a] + NetOf(Settled, a)
        BY <2>5 DEF Explained
      <4>7. Amount(p) \in Int /\ InitBalance[a] \in Int /\ balance[a] \in Int
        BY <2>1, <2>2, AmountType, BalanceAssumption
      <4> QED
        BY <4>3, <4>4, <4>5, <4>6, <4>7
    <3>3. CASE ~funded
      <4>1. Settled' = Settled /\ balance' = balance
        BY <2>1, <2>3, <3>3
      <4>2. \A a \in Accounts : NetOf(Settled', a) = NetOf(Settled, a)
        BY <4>1, Zenon
      <4> QED
        BY <2>5, <4>1, <4>2 DEF Explained
    <3> QED
      BY <3>2, <3>3
  <2> QED
    BY <2>4, <2>5
<1>3. CASE Quiet
  BY <1>1, <1>3 DEF Quiet, payVars
<1>4. ASSUME NEW f \in Flushes, Flush(f)
      PROVE  UNCHANGED <<balance, tx>>
             \/ \E i \in DOMAIN uploads[f] : UploadSettle(f, i)
  BY <1>4 DEF Flush, Collect, Upload, UploadClaim, UploadOpaque, UploadStale,
              UploadRaises, EndFlush, payVars
<1>5. ASSUME NEW z \in Resets, ClearClaims(z) PROVE UNCHANGED <<balance, tx>>
  BY <1>5 DEF ClearClaims
<1> QED
  BY <1>1, <1>2, <1>3, <1>4, <1>5, QuietSteps DEF Next, Reset

\* Until a reset forgets the claims, the balances are what the settled
\* transactions explain, whatever flushes, gossip and kills interleave.
THEOREM LedgerExplains == Spec => []BalancesExplained
<1> DEFINE Inv == /\ TypeOK /\ AnswersFit
                  /\ IsFiniteSet(Settled)
                  /\ Remembered => OneClaimant /\ Explained
<1>1. Init => Inv
  <2> SUFFICES ASSUME Init PROVE Inv
    OBVIOUS
  <2>1. Settled = {}
    BY DEF Init, Settled
  <2>2. \A a \in Accounts : NetOf(Settled, a) = 0
    BY <2>1, NetOfNone, Zenon
  <2>3. Explained
    BY <2>2, BalanceAssumption DEF Init, Explained
  <2> QED
    BY <2>1, <2>3, FS_EmptySet, PayInitTypeOK, InitAnswersFit, InitOneClaimant
<1>2. Inv /\ [Next]_vars => Inv'
  <2> SUFFICES ASSUME Inv, [Next]_vars PROVE Inv'
    OBVIOUS
  <2>1. TypeOK' /\ AnswersFit' /\ IsFiniteSet(Settled')
    BY NextPayTypeOK, NextAnswersFit, NextExplained
  <2>2. ASSUME Remembered' PROVE OneClaimant' /\ Explained'
    <3>1. Remembered
      BY <2>2, MeshEffect
    <3> QED
      BY <2>2, <3>1, NextOneClaimant, NextExplained
  <2> QED
    BY <2>1, <2>2
<1>3. Inv => BalancesExplained
  BY DEF Explained, Settled, Remembered, BalancesExplained
<1> QED
  BY <1>1, <1>2, <1>3, PTL DEF Spec
=============================================================================
