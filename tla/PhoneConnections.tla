-------------------------- MODULE PhoneConnections --------------------------
(***************************************************************************)
(* The app's connections: to the phones around it (bluetoothService.ts),   *)
(* and to the backend's stream of events (useMeshStore.ts).                *)
(*                                                                         *)
(* Links come up and break on their own.  The browser rejects what is      *)
(* under way on a link that breaks, and queues an event; until that event  *)
(* is handled the service believes in the link.  The scan goes on every    *)
(* ten seconds whether or not the attempt before has ended, so attempts,   *)
(* also to one device, overlap.                                            *)
(***************************************************************************)
EXTENDS Naturals, FiniteSets

CONSTANTS
    Neighbours,  \* the devices one may connect to
    Attempts,    \* bound of the model: scans at once
    Gossips,     \* bound of the model: calls of gossipPacket() at once
    Sources,     \* bound of the model: EventSource objects at once
    MaxTimers,   \* bound of the model: reconnections waited for at once
    None         \* no device, no source

ASSUME TimersAssumption == MaxTimers \in Nat

VARIABLES
    service,    \* "new", "scanning", or "shut" by shutdown()
    attempts,   \* the scans and connection attempts under way
    up,         \* the devices whose GATT link is up
    known,      \* the keys of the service's map of devices
    believed,   \* those of them whose isConnected is set
    listening,  \* devices with a listener for gattserverdisconnected
    dropped,    \* devices whose disconnection has still to be handled
    writes,     \* the writes of each call of gossipPacket()
    stream,     \* the store's eventSource
    open,       \* the EventSource objects that have not been closed
    timers      \* how many timers are set to reconnect

linkVars   == <<service, attempts, up, known, believed, listening, dropped, writes>>
streamVars == <<stream, open, timers>>
vars == <<linkVars, streamVars>>

Free == [stage |-> "none", to |-> None]

\* fresh: the write refers to the map's present entry for the device.
NoWrite == [stage |-> "none", fresh |-> FALSE]

\* The type invariant.
TypeOK ==
    /\ service \in {"new", "scanning", "shut"}
    /\ attempts \in [Attempts -> [stage : {"none", "choosing", "connecting", "setup"},
                                  to : Neighbours \union {None}]]
    /\ up \subseteq Neighbours
    /\ known \subseteq Neighbours /\ believed \subseteq known
    /\ dropped \subseteq listening /\ listening \subseteq Neighbours
    /\ writes \in [Gossips -> [Neighbours -> [stage : {"none", "sent", "rejected"},
                                              fresh : BOOLEAN]]]
    /\ stream \in Sources \union {None}
    /\ open \subseteq Sources
    /\ timers \in 0..MaxTimers

Init ==
    /\ service = "new"
    /\ attempts = [a \in Attempts |-> Free]
    /\ up = {} /\ known = {} /\ believed = {}
    /\ listening = {} /\ dropped = {}
    /\ writes = [g \in Gossips |-> [d \in Neighbours |-> NoWrite]]
    /\ stream = None /\ open = {} /\ timers = 0

-----------------------------------------------------------------------------
(* Scanning and connecting.                                                *)

\* initialize() starts the scan, once; the chooser it shows first connects
\* to nothing.
Initialize ==
    /\ service = "new"
    /\ service' = "scanning"
    /\ UNCHANGED <<attempts, up, known, believed, listening, dropped, writes,
                   streamVars>>

Become(a, attempt) == attempts' = [attempts EXCEPT ![a] = attempt]

\* The interval's callback shows the browser's chooser.
Scan(a) ==
    /\ service = "scanning"
    /\ attempts[a] = Free
    /\ Become(a, [stage |-> "choosing", to |-> None])
    /\ UNCHANGED <<service, up, known, believed, listening, dropped, writes,
                   streamVars>>

\* connectToDevice() returns for a device it has ever been connected to.
Choose(a, d) ==
    /\ attempts[a].stage = "choosing"
    /\ Become(a, IF d \in known THEN Free ELSE [stage |-> "connecting", to |-> d])
    /\ UNCHANGED <<service, up, known, believed, listening, dropped, writes,
                   streamVars>>

\* Mutant of Connected: the device counts as connected as soon as the link is
\* up, before it has an entry.
ConnectedAtOnce(a) ==
    /\ attempts[a].stage = "connecting"
    /\ up' = up \union {attempts[a].to}
    /\ believed' = believed \union {attempts[a].to}
    /\ Become(a, [attempts[a] EXCEPT !.stage = "setup"])
    /\ UNCHANGED <<service, known, listening, dropped, writes, streamVars>>

\* device.gatt.connect() resolves, at once if the link is up already.
Connected(a) ==
    /\ attempts[a].stage = "connecting"
    /\ up' = up \union {attempts[a].to}
    /\ Become(a, [attempts[a] EXCEPT !.stage = "setup"])
    /\ UNCHANGED <<service, known, believed, listening, dropped, writes,
                   streamVars>>

\* Writes under way to d keep the entry that is replaced or removed.
Outdated(ds) ==
    [g \in Gossips |-> [d \in Neighbours |->
        IF d \in ds THEN [writes[g][d] EXCEPT !.fresh = FALSE] ELSE writes[g][d]]]

\* Mutant of SetUp: no listener for the disconnection.
SetUpUnheard(a) ==
    /\ attempts[a].stage = "setup"
    /\ known' = known \union {attempts[a].to}
    /\ believed' = believed \union {attempts[a].to}
    /\ writes' = Outdated({attempts[a].to})
    /\ Become(a, Free)
    /\ UNCHANGED <<service, up, listening, dropped, streamVars>>

\* Services, characteristics, notifications and the exchange of device infos
\* are done: the device gets an entry, new or instead of the one that another
\* attempt has made meanwhile, and a listener more.
SetUp(a) ==
    /\ attempts[a].stage = "setup"
    /\ known' = known \union {attempts[a].to}
    /\ believed' = believed \union {attempts[a].to}
    /\ listening' = listening \union {attempts[a].to}
    /\ writes' = Outdated({attempts[a].to})
    /\ Become(a, Free)
    /\ UNCHANGED <<service, up, dropped, streamVars>>

\* Nothing chosen, no link, or an error of the device.
AttemptFails(a) ==
    /\ attempts[a] # Free
    /\ Become(a, Free)
    /\ UNCHANGED <<service, up, known, believed, listening, dropped, writes,
                   streamVars>>

-----------------------------------------------------------------------------
(* Links break.                                                            *)

\* What the browser does to a link that goes down.
LinksEnd(ds) ==
    /\ up' = up \ ds
    /\ dropped' = dropped \union (ds \intersect listening)
    /\ attempts' = [a \in Attempts |->
          IF attempts[a].stage = "setup" /\ attempts[a].to \in ds THEN Free
          ELSE attempts[a]]

\* Writes under way on these links are rejected.
Rejected(ws, ds) ==
    [g \in Gossips |-> [d \in Neighbours |->
        IF d \in ds /\ ws[g][d].stage = "sent"
        THEN [ws[g][d] EXCEPT !.stage = "rejected"] ELSE ws[g][d]]]

Drop(d) ==
    /\ d \in up
    /\ LinksEnd({d})
    /\ writes' = Rejected(writes, {d})
    /\ UNCHANGED <<service, known, believed, listening, streamVars>>

\* Mutant of HandleDisconnect: it looks for the entry under the device's name,
\* not its id, and finds none: the flag stays set.
EntryNotFound(d) ==
    /\ d \in dropped
    /\ dropped' = dropped \ {d}
    /\ UNCHANGED <<service, attempts, up, known, believed, listening, writes,
                   streamVars>>

\* handleDisconnect(), which finds no entry after a shutdown.
HandleDisconnect(d) ==
    /\ d \in dropped
    /\ dropped' = dropped \ {d}
    /\ believed' = believed \ {d}
    /\ UNCHANGED <<service, attempts, up, known, listening, writes, streamVars>>

\* shutdown() disconnects the devices of the map, and forgets them.  Scans
\* and attempts under way go on.
Shutdown ==
    /\ service = "scanning"
    /\ service' = "shut"
    /\ LinksEnd(known)
    /\ writes' = Rejected(Outdated(known), known)
    /\ known' = {} /\ believed' = {}
    /\ stream' = None /\ open' = open \ {stream}
    /\ UNCHANGED <<listening, timers>>

-----------------------------------------------------------------------------
(* gossipPacket().                                                         *)

GossipPacket(g) ==
    /\ writes[g] = [d \in Neighbours |-> NoWrite]
    /\ writes' = [writes EXCEPT ![g] = [d \in Neighbours |->
          IF d \in believed
          THEN [stage |-> IF d \in up THEN "sent" ELSE "rejected", fresh |-> TRUE]
          ELSE NoWrite]]
    /\ UNCHANGED <<service, attempts, up, known, believed, listening, dropped,
                   streamVars>>

Settled(g, d) == writes' = [writes EXCEPT ![g][d] = NoWrite]

\* A write succeeds; or fails, with the link up or down, and the entry it
\* refers to is no longer used.  None is ever set to be used again.
WriteEnds(g, d) ==
    /\ \/ writes[g][d].stage = "sent" /\ UNCHANGED believed
       \/ /\ writes[g][d].stage \in {"sent", "rejected"}
          /\ believed' = IF writes[g][d].fresh THEN believed \ {d} ELSE believed
    /\ Settled(g, d)
    /\ UNCHANGED <<service, attempts, up, known, listening, dropped, streamVars>>

-----------------------------------------------------------------------------
(* The event stream.                                                       *)

\* Mutant of Connect: the stream before is not closed.
ConnectAnother ==
    \E s \in Sources \ open :
        /\ stream' = s
        /\ open' = open \union {s}

\* connectEventStream().
Connect ==
    \E s \in Sources \ open :
        /\ stream' = s
        /\ open' = (open \ {stream}) \union {s}

\* At the end of the store's initialize(), which runs twice in development.
OpenStream ==
    /\ service = "scanning"
    /\ Connect
    /\ UNCHANGED <<linkVars, timers>>

\* onerror: the browser has given the source up, or retries on its own, and
\* may fail again; every failure sets a timer.
StreamFails(s) ==
    /\ s \in open
    /\ timers < MaxTimers
    /\ timers' = timers + 1
    /\ open' \in {open, open \ {s}}
    /\ UNCHANGED <<linkVars, stream>>

\* The five seconds are over, for a source that may have been replaced, or
\* in an app that has been shut down.
Reconnect ==
    /\ timers > 0
    /\ timers' = timers - 1
    /\ Connect
    /\ UNCHANGED linkVars

-----------------------------------------------------------------------------

Next ==
    \/ Initialize \/ Shutdown
    \/ \E a \in Attempts :
          \/ Scan(a) \/ Connected(a) \/ SetUp(a) \/ AttemptFails(a)
          \/ \E d \in Neighbours : Choose(a, d)
    \/ \E d \in Neighbours : Drop(d) \/ HandleDisconnect(d)
    \/ \E g \in Gossips : GossipPacket(g)
    \/ \E g \in Gossips, d \in Neighbours : WriteEnds(g, d)
    \/ OpenStream \/ Reconnect
    \/ \E s \in Sources : StreamFails(s)

Spec == Init /\ [][Next]_vars

\* An event the browser has queued is dispatched.
Fairness == \A d \in Neighbours : WF_vars(HandleDisconnect(d))

FairSpec == Spec /\ Fairness

-----------------------------------------------------------------------------
(* Properties.                                                             *)

\* Whatever attempts to one device overlap, and whichever of them, of the
\* drops and of a shutdown comes first: a device the app takes for connected
\* is, or the event that will tell it otherwise is on its way.
BelievedLinksAreUp == believed \subseteq up \union dropped

\* However errors, timers, starts and shutdown follow each other, at most one
\* stream is open, and it is the one that disconnectEventStream() can close.
OneStream == open \subseteq {stream}

\* A device that is gone does not stay connected for the app: it learns of it,
\* unless the device is back first.
GoneIsNoticed ==
    \A d \in Neighbours : (d \in believed /\ d \notin up) ~> (d \notin believed \/ d \in up)
=============================================================================
