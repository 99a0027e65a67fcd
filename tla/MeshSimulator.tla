--------------------------- MODULE MeshSimulator ----------------------------
(***************************************************************************)
(* The simulated Bluetooth mesh (app/mesh_simulator.py): virtual devices   *)
(* that hold copies of packets, and the calls that walk over them.         *)
(*                                                                         *)
(* Every call runs in a request thread of its own.  A device guards its    *)
(* packets by its own lock, so a call is one step per device visited; the  *)
(* dictionary of devices has no lock at all, and the kill-switch can       *)
(* delete from it while another thread iterates: Python raises there, and  *)
(* the request fails half-way.  gossip_once iterates over a copied list    *)
(* and so goes on handing packets to a device that has been killed.        *)
(***************************************************************************)
EXTENDS Integers, SequencesExt

CONSTANTS
    Seeded,    \* the devices in the order _seed_default_devices adds them
    Bridges,   \* the devices that have internet
    Messages,  \* packet ids
    Ttl,       \* TTL of a packet when its sender injects it
    Rounds,    \* clients that call gossip_once, again and again
    Flushes,   \* clients that call collect_bridge_uploads, again and again
    Resets,    \* calls of reset_mesh
    Senders,   \* bound of the model: the devices packets start from
    Doomed     \* bound of the model: the devices that may be killed

Devices == ToSet(Seeded)

Calls == Rounds \union Flushes \union Resets

ASSUME MeshAssumption ==
    /\ Bridges \subseteq Devices
    /\ Ttl \in Nat
    /\ Senders \subseteq Devices /\ Doomed \subseteq Devices
    /\ Rounds \intersect Flushes = {}
    /\ Rounds \intersect Resets = {}
    /\ Flushes \intersect Resets = {}

VARIABLES
    devices,  \* the devices still in the dictionary
    held,     \* copies each device holds, oldest first
    sent,     \* the packets injected so far
    stage,    \* how far each call has got
    route,    \* the devices a call found in the dictionary
    todo,     \* those of them it has yet to visit
    plan,     \* what each gossip round has yet to hand over, from its snapshot
    uploads   \* what each flush has collected

meshVars == <<devices, held, sent, stage, route, todo, plan, uploads>>

Copies == [message : Messages, ttl : 0..Ttl]

\* A copy to hand over, with its place in what its holder held.
Handoffs == [from : Devices, pos : Nat, message : Messages, ttl : 0..Ttl,
             to : Devices]

Stages == {"idle", "snapshot", "offer", "hand", "count",
           "collect", "upload", "clear", "cleared", "done", "failed"}

\* No request is under way.
Resting == {"idle", "done", "failed"}

\* The type invariant.  That no copy has a negative TTL is part of it.
MeshTypeOK ==
    /\ devices \subseteq Devices
    /\ held \in [Devices -> Seq(Copies)]
    /\ sent \subseteq Messages
    /\ stage \in [Calls -> Stages]
    /\ route \in [Calls -> SUBSET Devices]
    /\ todo \in [Calls -> SUBSET Devices]
    /\ plan \in [Rounds -> SUBSET Handoffs]
    /\ uploads \in [Flushes -> Seq([bridge : Bridges, copy : Copies])]

MeshInit ==
    /\ devices = Devices
    /\ held = [d \in Devices |-> <<>>]
    /\ sent = {}
    /\ stage = [c \in Calls |-> "idle"]
    /\ route = [c \in Calls |-> {}]
    /\ todo = [c \in Calls |-> {}]
    /\ plan = [g \in Rounds |-> {}]
    /\ uploads = [f \in Flushes |-> <<>>]

-----------------------------------------------------------------------------
(* Devices and the dictionary of devices.                                  *)

Holds(d, m) == \E i \in DOMAIN held[d] : held[d][i].message = m

\* Mutant of WithCopy: hold() does not look before it appends.
WithRepeatedCopy(d, copy) == [held EXCEPT ![d] = Append(@, copy)]

\* Mutant of WithCopy: the copy handed over last replaces the one held.
WithLatestCopy(d, copy) ==
    [held EXCEPT ![d] =
        Append(SelectSeq(@, LAMBDA c : c.message # copy.message), copy)]

\* VirtualDevice.hold(): the first copy of a packet stays.
WithCopy(d, copy) ==
    [held EXCEPT ![d] = IF Holds(d, copy.message) THEN @ ELSE Append(@, copy)]

\* self.devices.values() is in the order of insertion, less the devices
\* removed; none is ever added.
Place == [d \in Devices |-> CHOOSE i \in DOMAIN Seeded : Seeded[i] = d]

\* The next device a call comes to.
Turn(c, d) == d \in todo[c] /\ \A e \in todo[c] : Place[d] <= Place[e]

\* The iteration of call c notices that the dictionary has shrunk.
Shrunk(c) == devices # route[c]

Walk(c, first) ==
    /\ stage' = [stage EXCEPT ![c] = first]
    /\ route' = [route EXCEPT ![c] = devices]
    /\ todo' = [todo EXCEPT ![c] = devices]

\* The loop is over, and its iterator gone.
Leave(c, next) ==
    /\ stage' = [stage EXCEPT ![c] = next]
    /\ route' = [route EXCEPT ![c] = {}]
    /\ todo' = [todo EXCEPT ![c] = {}]

Goto(c, next) ==
    /\ stage' = [stage EXCEPT ![c] = next]
    /\ UNCHANGED <<route, todo>>

Visited(c, d) ==
    /\ todo' = [todo EXCEPT ![c] = @ \ {d}]
    /\ UNCHANGED <<stage, route>>

\* One more turn of a loop over the dictionary itself.
Visiting(c, during, d) == stage[c] = during /\ ~Shrunk(c) /\ Turn(c, d)

\* Mutant of LoopEnds: an error leaves the request without an answer.
LoopEndsNormally(c, during, next) ==
    /\ stage[c] = during
    /\ ~Shrunk(c) /\ todo[c] = {} /\ Leave(c, next)

LoopEnds(c, during, next) ==
    /\ stage[c] = during
    /\ \/ Shrunk(c) /\ Leave(c, "failed")
       \/ ~Shrunk(c) /\ todo[c] = {} /\ Leave(c, next)

\* inject(), with a packet that is new: its id is a fresh UUID.
Inject(d, m) ==
    /\ m \notin sent
    /\ d \in devices
    /\ sent' = sent \union {m}
    /\ held' = WithCopy(d, [message |-> m, ttl |-> Ttl])
    /\ UNCHANGED <<devices, stage, route, todo, plan, uploads>>

\* remove_device().  The device object lives on for whoever refers to it.
Kill(d) ==
    /\ d \in devices
    /\ devices' = devices \ {d}
    /\ UNCHANGED <<held, sent, stage, route, todo, plan, uploads>>

-----------------------------------------------------------------------------
(* gossip_once().                                                          *)

StartRound(g) ==
    /\ stage[g] \in Resting
    /\ Walk(g, "snapshot")
    /\ UNCHANGED <<devices, held, sent, plan, uploads>>

\* Mutant of Handouts: the loop over the other devices ends after the first.
HandoutsToFirst(g, d) ==
    {[from |-> d, pos |-> i, message |-> held[d][i].message,
      ttl |-> held[d][i].ttl - 1, to |-> e] :
        i \in {j \in DOMAIN held[d] : held[d][j].ttl > 0},
        e \in {f \in route[g] \ {d} :
                   \A h \in route[g] \ {d} : Place[f] <= Place[h]}}

\* What a device found holding these copies is to hand to every other one.
Handouts(g, d) ==
    {[from |-> d, pos |-> i, message |-> held[d][i].message,
      ttl |-> held[d][i].ttl - 1, to |-> e] :
        i \in {j \in DOMAIN held[d] : held[d][j].ttl > 0},
        e \in route[g] \ {d}}

\* The order of the loops: by sender, packet and receiver.
Before(x, y) ==
    \/ Place[x.from] < Place[y.from]
    \/ x.from = y.from /\ x.pos < y.pos
    \/ x.from = y.from /\ x.pos = y.pos /\ Place[x.to] < Place[y.to]

NextUp(g, x) == x \in plan[g] /\ \A y \in plan[g] \ {x} : Before(x, y)

\* The snapshot is taken device by device, of the list copied before.
SnapshotDevice(g, d) ==
    /\ stage[g] = "snapshot"
    /\ Turn(g, d)
    /\ plan' = [plan EXCEPT ![g] = @ \union Handouts(g, d)]
    /\ Visited(g, d)
    /\ UNCHANGED <<devices, held, sent, uploads>>

SnapshotTaken(g) ==
    /\ stage[g] = "snapshot"
    /\ todo[g] = {}
    /\ Leave(g, "offer")
    /\ UNCHANGED <<devices, held, sent, plan, uploads>>

Done(g, x) == plan' = [plan EXCEPT ![g] = @ \ {x}]

\* dst.holds() and dst.hold() take the lock of the device one after the
\* other, and others may hand it the same packet in between.
Offer(g, x) ==
    /\ stage[g] = "offer"
    /\ NextUp(g, x)
    /\ IF Holds(x.to, x.message)
       THEN Done(g, x) /\ UNCHANGED stage
       ELSE UNCHANGED plan /\ stage' = [stage EXCEPT ![g] = "hand"]
    /\ UNCHANGED <<devices, held, sent, route, todo, uploads>>

HandOver(g, x) ==
    /\ stage[g] = "hand"
    /\ NextUp(g, x)
    /\ held' = WithCopy(x.to, [message |-> x.message, ttl |-> x.ttl])
    /\ Done(g, x)
    /\ Goto(g, "offer")
    /\ UNCHANGED <<devices, sent, uploads>>

\* snapshot_map() for the answer: it changes nothing, and raises if a
\* device is killed between its first and its last turn.
StartCount(g) ==
    /\ stage[g] = "offer"
    /\ plan[g] = {}
    /\ Walk(g, "count")
    /\ UNCHANGED <<devices, held, sent, plan, uploads>>

EndCount(g) ==
    /\ stage[g] = "count"
    /\ Leave(g, IF Shrunk(g) THEN "failed" ELSE "done")
    /\ UNCHANGED <<devices, held, sent, plan, uploads>>

GossipStep(g) ==
    \/ StartRound(g)
    \/ \E d \in todo[g] : SnapshotDevice(g, d)
    \/ SnapshotTaken(g)
    \/ \E x \in plan[g] : Offer(g, x) \/ HandOver(g, x)
    \/ StartCount(g)
    \/ EndCount(g)

-----------------------------------------------------------------------------
(* collect_bridge_uploads() and reset_mesh().                              *)

StartFlush(f) ==
    /\ stage[f] \in Resting
    /\ Walk(f, "collect")
    /\ uploads' = [uploads EXCEPT ![f] = <<>>]
    /\ UNCHANGED <<devices, held, sent, plan>>

CollectDevice(f, d) ==
    /\ Visiting(f, "collect", d)
    /\ uploads' = IF d \in Bridges
                  THEN [uploads EXCEPT ![f] = @ \o
                          [i \in DOMAIN held[d] |->
                              [bridge |-> d, copy |-> held[d][i]]]]
                  ELSE uploads
    /\ Visited(f, d)
    /\ UNCHANGED <<devices, held, sent, plan>>

EndCollect(f) ==
    /\ LoopEnds(f, "collect", "upload")
    /\ UNCHANGED <<devices, held, sent, plan, uploads>>

CollectStep(f) ==
    \/ StartFlush(f)
    \/ \E d \in todo[f] : CollectDevice(f, d)
    \/ EndCollect(f)

StartReset(z) ==
    /\ stage[z] = "idle"
    /\ Walk(z, "clear")
    /\ UNCHANGED <<devices, held, sent, plan, uploads>>

ClearDevice(z, d) ==
    /\ Visiting(z, "clear", d)
    /\ held' = [held EXCEPT ![d] = <<>>]
    /\ Visited(z, d)
    /\ UNCHANGED <<devices, sent, plan, uploads>>

EndClear(z) ==
    /\ LoopEnds(z, "clear", "cleared")
    /\ UNCHANGED <<devices, held, sent, plan, uploads>>

ClearStep(z) ==
    \/ StartReset(z)
    \/ \E d \in todo[z] : ClearDevice(z, d)
    \/ EndClear(z)

MeshStep ==
    \/ \E d \in Senders, m \in Messages : Inject(d, m)
    \/ \E d \in Doomed : Kill(d)
    \/ \E g \in Rounds : GossipStep(g)
    \/ \E f \in Flushes : CollectStep(f)
    \/ \E z \in Resets : ClearStep(z)

MeshSpec == MeshInit /\ [][MeshStep]_meshVars

\* A request under way is scheduled; that anyone makes one is not promised.
MeshFairness ==
    /\ \A g \in Rounds  : WF_meshVars(stage[g] \notin Resting /\ GossipStep(g))
    /\ \A f \in Flushes : WF_meshVars(stage[f] \notin Resting /\ CollectStep(f))
    /\ \A z \in Resets  : WF_meshVars(stage[z] \notin Resting /\ ClearStep(z))

FairMeshSpec == MeshSpec /\ MeshFairness

-----------------------------------------------------------------------------
(* Properties.                                                             *)

TtlHeld(d, m) == {held[d][i].ttl : i \in {j \in DOMAIN held[d] : held[d][j].message = m}}

\* Two rounds may both find a device without a packet and both hand it one;
\* the device keeps a single copy, so a flush uploads it once per bridge.
OneCopyPerDevice ==
    \A d \in Devices, m \in Messages :
        \A i, j \in DOMAIN held[d] :
            held[d][i].message = m /\ held[d][j].message = m => i = j

\* A copy, once held, is never replaced by another with a different TTL,
\* neither by a racing round nor by a later one: only a reset removes it.
HeldCopyIsStable ==
    [][\A d \in Devices, m \in Messages :
          Holds(d, m) /\ Holds(d, m)' => TtlHeld(d, m)' = TtlHeld(d, m)]_meshVars

Undisturbed == \A z \in Resets : stage[z] = "idle"

\* One round carries a packet with hops left from any device to all those
\* still there, whatever else runs, unless the mesh is reset.
OneRoundIsEnough ==
    \A g \in Rounds, m \in Messages :
        ( /\ stage[g] = "snapshot" /\ todo[g] = route[g]
          /\ \E d \in route[g] : \E t \in TtlHeld(d, m) : t > 0 )
        ~> (Undisturbed => \A d \in devices : Holds(d, m))

\* A request that walks over the devices ends, though devices disappear
\* under it: with an answer or with an error.
RequestsEnd ==
    \A c \in Calls : stage[c] # "idle" ~>
        stage[c] \in {"done", "failed", "upload", "cleared"}
=============================================================================
