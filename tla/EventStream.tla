---------------------------- MODULE EventStream -----------------------------
(***************************************************************************)
(* From the event log of the server (app/event_log.py) to the dashboard:   *)
(* threads that log, the SSE generator of /api/mesh/events/stream, the     *)
(* polling endpoint, and what dashboard.html does with what it gets.       *)
(*                                                                         *)
(* A writer stamps its event before it takes the lock to append it, so the *)
(* list is in the order of appending and not of the stamps.  Both ways to  *)
(* read the list ask for the events stamped at or after a cursor, and for  *)
(* the newest of those when there are many.                                *)
(*                                                                         *)
(* A read takes the list under the lock and goes through it without.  What *)
(* is appended meanwhile, it meets.  A list that grows too long gives way  *)
(* to its end, and the read stays with the old one.  A clear empties the   *)
(* list under the read, which keeps its place and so passes over what is   *)
(* appended afterwards.  How far a read has come matters at a clear only,  *)
(* and is chosen there.                                                    *)
(***************************************************************************)
EXTENDS Integers, SequencesExt

CONSTANTS
    Events,     \* the events that threads log, each once
    MaxEvents,  \* MeshEventLog.max_events
    Limit,      \* events asked for at a time (100, of the 10000 kept)
    Window,     \* bound of the model: messages in the SSE connection
    Polls,      \* polling requests that may be in flight at once
    MaxTime,    \* bound of the model: the clock stops here
    MaxResets   \* bound of the model: calls of /api/mesh/reset

ASSUME LogAssumption ==
    /\ IsFiniteSet(Events)
    /\ Limit \in Nat \ {0} /\ MaxEvents \in Nat /\ Limit <= MaxEvents
    /\ Window \in Nat \ {0}
    /\ MaxTime \in Nat /\ MaxResets \in Nat
    /\ "sse" \notin Polls

VARIABLES
    now,      \* the server's clock, in milliseconds
    stamp,    \* timestamp_ms of each event, or Unstamped
    log,      \* MeshEventLog._events
    reads,    \* the calls of get_events() under way
    cursor,   \* last_timestamp of the SSE generator
    batch,    \* what the generator has read and not yet yielded
    wire,     \* what it has yielded and the browser not yet received
    mode,     \* "sse", or "polling" after the connection was lost
    polls,    \* the polling requests in flight
    latest,   \* lastEventTimestamp of the dashboard
    resets,   \* how many resets were made
    appended, \* history: every event logged, in the order of the appends
    sighted,  \* history: every event received, in the order of first receipt
    skipped   \* history: the events appended where a read had passed

logVars    == <<now, stamp, log, appended, skipped>>
streamVars == <<cursor, batch, wire>>
dashVars   == <<latest, sighted>>
vars == <<logVars, reads, streamVars, mode, polls, dashVars, resets>>

Unstamped == -1

Times == 0..MaxTime

EventSeqs == UNION {[1..n -> Events] : n \in 0..Cardinality(Events)}

NoPoll == [stage |-> "none", since |-> 0, events |-> <<>>]

Generator == "sse"

\* The generator of the stream reads, and so does each polling request.
Readers == Polls \union {Generator}

\* A read has left the events `seen` behind it, and the first `next` of the
\* list that is the log's.  When that list was replaced, `seen` is the whole
\* list that the read goes through.
NoRead == [stage |-> "none", seen |-> <<>>, next |-> 0]
BeginRead == [stage |-> "live", seen |-> <<>>, next |-> 0]

\* The type invariant.
TypeOK ==
    /\ now \in Times
    /\ stamp \in [Events -> Times \union {Unstamped}]
    /\ log \in EventSeqs /\ Len(log) <= MaxEvents
    /\ reads \in [Readers -> [stage : {"none", "live", "replaced"},
                              seen : EventSeqs, next : 0..MaxEvents]]
    /\ cursor \in Times
    /\ batch \in EventSeqs /\ Len(batch) <= Limit
    /\ Len(wire) <= Window /\ ToSet(wire) \subseteq Events
    /\ mode \in {"sse", "polling"}
    /\ polls \in [Polls -> [stage : {"none", "asked", "answered"},
                            since : Times, events : EventSeqs]]
    /\ latest \in Times
    /\ resets \in 0..MaxResets
    /\ appended \in EventSeqs
    /\ sighted \in EventSeqs
    /\ skipped \subseteq Events

Init ==
    /\ now = 0
    /\ stamp = [e \in Events |-> Unstamped]
    /\ log = <<>>
    /\ reads = [r \in Readers |-> NoRead]
    /\ cursor = 0
    /\ batch = <<>>
    /\ wire = <<>>
    /\ mode = "sse"
    /\ polls = [q \in Polls |-> NoPoll]
    /\ latest = 0
    /\ resets = 0
    /\ appended = <<>>
    /\ sighted = <<>>
    /\ skipped = {}

\* The elements of a sequence that are in a set: SelectSeq, by a recursive
\* function.
Only(s, S) ==
    LET kept[n \in 0..Len(s)] ==
            IF n = 0 THEN <<>>
            ELSE IF s[n] \in S THEN Append(kept[n - 1], s[n]) ELSE kept[n - 1]
    IN  kept[Len(s)]

Newest(s, n) == SubSeq(s, IF Len(s) > n THEN Len(s) - n + 1 ELSE 1, Len(s))

-----------------------------------------------------------------------------
(* MeshEventLog.                                                           *)

\* log_gossip_hop() and log_bridge_upload(): the event gets its time ...
StampEvent(e) ==
    /\ stamp[e] = Unstamped
    /\ stamp' = [stamp EXCEPT ![e] = now]
    /\ UNCHANGED <<now, log, appended, skipped, reads, streamVars, mode, polls,
                   dashVars, resets>>

\* What read r meets when it goes through the list to its end.
Met(r, list) == reads[r].seen \o SubSeq(list, reads[r].next + 1, Len(list))

\* The reads under way stay with the list that is replaced.
Replaced(list) ==
    reads' = [r \in Readers |->
                 IF reads[r].stage = "live"
                 THEN [stage |-> "replaced", seen |-> Met(r, list), next |-> 0]
                 ELSE reads[r]]

\* ... and is appended, once the lock is free: _append().
AppendEvent(e) ==
    /\ stamp[e] # Unstamped
    /\ e \notin ToSet(appended)
    /\ log' = Newest(Append(log, e), MaxEvents)
    /\ IF Len(log) < MaxEvents THEN UNCHANGED reads ELSE Replaced(Append(log, e))
    /\ appended' = Append(appended, e)
    /\ skipped' = IF \E r \in Readers : reads[r].next > Len(log)
                  THEN skipped \union {e} ELSE skipped
    /\ UNCHANGED <<now, stamp, streamVars, mode, polls, dashVars, resets>>

\* The events stamped at a time or later.
From(time) == {e \in Events : stamp[e] >= time}

Since(r) == IF r = Generator THEN cursor ELSE polls[r].since

View(r) == IF reads[r].stage = "live" THEN Met(r, log) ELSE reads[r].seen

\* Mutant of GetEvents: events of the cursor's millisecond are left out.
GetEventsAfter(r) ==
    Newest(Only(View(r), From(Since(r) + 1)), Limit)

\* Mutant of GetEvents: the newest event comes first, as from a query with
\* ORDER BY timestamp DESC.
GetEventsNewestFirst(r) ==
    Reverse(Newest(Only(View(r), From(Since(r))), Limit))

\* Mutant of GetEvents: the limit is not applied.
GetEventsUnlimited(r) == Only(View(r), From(Since(r)))

\* What get_events() returns.
GetEvents(r) ==
    Newest(Only(View(r), From(Since(r))), Limit)

\* A millisecond passes.
Tick ==
    /\ now < MaxTime
    /\ now' = now + 1
    /\ UNCHANGED <<stamp, log, appended, skipped, reads, streamVars, mode, polls,
                   dashVars, resets>>

-----------------------------------------------------------------------------
(* The two ways to the dashboard.                                          *)

\* handleMeshEvent() for a sequence of events, in their order: the latest
\* time is kept.  What is drawn, and the races counted, is left out.
Handle(events) ==
    /\ latest' = Max({latest} \union {stamp[e] : e \in ToSet(events)})
    /\ sighted' = sighted \o Only(events, Events \ ToSet(sighted))

\* The generator of /api/mesh/events/stream wakes up and takes the list ...
StreamWake ==
    /\ mode = "sse"
    /\ batch = <<>>
    /\ reads[Generator].stage = "none"
    /\ reads' = [reads EXCEPT ![Generator] = BeginRead]
    /\ UNCHANGED <<logVars, streamVars, mode, polls, dashVars, resets>>

\* ... and has gone through it.
StreamRead ==
    /\ reads[Generator].stage # "none"
    /\ batch' = GetEvents(Generator)
    /\ reads' = [reads EXCEPT ![Generator] = NoRead]
    /\ UNCHANGED <<logVars, cursor, wire, mode, polls, dashVars, resets>>

\* It moves its cursor to each event it yields.  A full connection holds it.
StreamYield ==
    /\ mode = "sse"
    /\ batch # <<>>
    /\ Len(wire) < Window
    /\ cursor' = stamp[Head(batch)]
    /\ wire' = Append(wire, Head(batch))
    /\ batch' = Tail(batch)
    /\ UNCHANGED <<logVars, reads, mode, polls, dashVars, resets>>

\* eventSource.onmessage.
Receive ==
    /\ wire # <<>>
    /\ Handle(<<Head(wire)>>)
    /\ wire' = Tail(wire)
    /\ UNCHANGED <<logVars, reads, cursor, batch, mode, polls, resets>>

\* eventSource.onerror: what was on the way is lost, the generator ends,
\* and the dashboard polls from then on.
ConnectionLost ==
    /\ mode = "sse"
    /\ mode' = "polling"
    /\ batch' = <<>>
    /\ wire' = <<>>
    /\ reads' = [reads EXCEPT ![Generator] = NoRead]
    /\ UNCHANGED <<logVars, cursor, polls, dashVars, resets>>

\* The interval of startPollingFallback() sends a request every second,
\* whether or not the previous one was answered.
Ask(q) ==
    /\ mode = "polling"
    /\ polls[q].stage = "none"
    /\ polls' = [polls EXCEPT ![q] = [stage |-> "asked", since |-> latest,
                                      events |-> <<>>]]
    /\ UNCHANGED <<logVars, reads, streamVars, mode, dashVars, resets>>

\* /api/mesh/events takes the list ...
BeginPoll(q) ==
    /\ polls[q].stage = "asked"
    /\ reads[q].stage = "none"
    /\ reads' = [reads EXCEPT ![q] = BeginRead]
    /\ UNCHANGED <<logVars, streamVars, mode, polls, dashVars, resets>>

\* ... and answers.
AnswerPoll(q) ==
    /\ reads[q].stage # "none"
    /\ polls' = [polls EXCEPT ![q].stage = "answered",
                              ![q].events = GetEvents(q)]
    /\ reads' = [reads EXCEPT ![q] = NoRead]
    /\ UNCHANGED <<logVars, streamVars, mode, dashVars, resets>>

\* The answer arrives, before or after that of another request.
HandlePoll(q) ==
    /\ polls[q].stage = "answered"
    /\ Handle(polls[q].events)
    /\ polls' = [polls EXCEPT ![q] = NoPoll]
    /\ UNCHANGED <<logVars, reads, streamVars, mode, resets>>

\* It is lost: a warning, and the next second another try.  To lose the
\* request comes to the same, as reading the log changes nothing.
LosePoll(q) ==
    /\ polls[q].stage = "answered"
    /\ polls' = [polls EXCEPT ![q] = NoPoll]
    /\ UNCHANGED <<logVars, reads, streamVars, mode, dashVars, resets>>

\* A read has come as far as place n of the list when it is emptied.
Emptied(r, n) ==
    [stage |-> "live", seen |-> reads[r].seen \o SubSeq(log, reads[r].next + 1, n),
     next |-> Max({n, reads[r].next})]

\* /api/mesh/reset clears the log.  The dashboard keeps its latest time.
ResetLog ==
    /\ resets < MaxResets
    /\ resets' = resets + 1
    /\ log' = <<>>
    /\ \E at \in [Readers -> 0..Len(log)] :
          reads' = [r \in Readers |-> IF reads[r].stage = "live"
                                     THEN Emptied(r, at[r]) ELSE reads[r]]
    /\ UNCHANGED <<now, stamp, appended, skipped, streamVars, mode, polls, dashVars>>

Stream == StreamWake \/ StreamRead \/ StreamYield

Next ==
    \/ \E e \in Events : StampEvent(e) \/ AppendEvent(e)
    \/ Tick
    \/ Stream
    \/ Receive
    \/ ConnectionLost
    \/ \E q \in Polls : \/ Ask(q) \/ BeginPoll(q) \/ AnswerPoll(q)
                        \/ HandlePoll(q) \/ LosePoll(q)
    \/ ResetLog

Spec == Init /\ [][Next]_vars

\* The generator, the browser and the interval timer keep running; a request
\* sent over and over is answered some time, however many are lost.  Which of
\* the requests in flight it is, is not said.
Fairness ==
    /\ WF_vars(Stream)
    /\ WF_vars(Receive)
    /\ WF_vars(\E q \in Polls : Ask(q) \/ BeginPoll(q) \/ AnswerPoll(q))
    /\ SF_vars(\E q \in Polls : HandlePoll(q))

FairSpec == Spec /\ Fairness

-----------------------------------------------------------------------------
(* Properties.                                                             *)

Position(e) == CHOOSE i \in DOMAIN appended : appended[i] = e

\* An event with a later stamp was appended before e.
Overtaken(e) ==
    \E f \in ToSet(appended) : Position(f) < Position(e) /\ stamp[f] > stamp[e]

\* Enough events came after e to fill an answer without it.
Displaced(e) == Len(appended) - Position(e) >= Limit

\* An event in the log reaches the dashboard, over the stream or, when the
\* connection breaks at whatever moment, over the polls that replace it.  The
\* exceptions are events cleared or crowded out by newer ones, those that
\* another thread's later event overtook on the way into the list, and those
\* appended to a list emptied under a read that had come further.
EventsReachDashboard ==
    \A e \in Events :
        e \in ToSet(log) ~> \/ e \in ToSet(sighted)
                            \/ e \notin ToSet(log)
                            \/ Overtaken(e)
                            \/ Displaced(e)
                            \/ e \in skipped

\* Until the log is cleared the dashboard meets events in the order of the
\* log, though connections break and answers to polls overtake each other;
\* only the events that may be missed for good may also come late.
SeenInLogOrder ==
    resets = 0 =>
        \A i, j \in DOMAIN sighted :
            i < j => \/ Position(sighted[i]) < Position(sighted[j])
                     \/ Overtaken(sighted[j])
                     \/ Displaced(sighted[j])
=============================================================================
