---------------------- MODULE PhoneConnectionsProofs ------------------------
(***************************************************************************)
(* What PhoneConnections guarantees for any set of devices and any number  *)
(* of scans, writes, streams and timers at once: types, that a device the  *)
(* app takes for connected is, or is about to be corrected, and that there *)
(* is one stream of events.                                                *)
(***************************************************************************)
EXTENDS PhoneConnections, TLAPS

Attempt == [stage : {"none", "choosing", "connecting", "setup"},
            to : Neighbours \union {None}]

Write == [stage : {"none", "sent", "rejected"}, fresh : BOOLEAN]

-----------------------------------------------------------------------------
(* The inductive invariant.                                                *)

\* An attempt that is past the chooser has a device.
HasDevice ==
    \A a \in Attempts :
        attempts[a].stage \in {"connecting", "setup"} => attempts[a].to \in Neighbours

\* The link of a device being set up is up: when it breaks, the browser
\* rejects what the attempt awaits.
SetUpIsUp ==
    \A a \in Attempts : attempts[a].stage = "setup" => attempts[a].to \in up

\* A device that is believed in was set up, and so has a listener, which
\* outlives its entry and is what the browser queues the event for.
BelievedIsHeard == believed \subseteq listening

LinkInv ==
    /\ TypeOK
    /\ HasDevice
    /\ SetUpIsUp
    /\ BelievedIsHeard
    /\ BelievedLinksAreUp
    /\ OneStream

-----------------------------------------------------------------------------
(* The helpers.                                                            *)

\* TypeOK with its record types named.
LEMMA TypeOKUnfolded ==
    TypeOK <=> /\ service \in {"new", "scanning", "shut"}
               /\ attempts \in [Attempts -> Attempt]
               /\ up \subseteq Neighbours
               /\ known \subseteq Neighbours /\ believed \subseteq known
               /\ dropped \subseteq listening /\ listening \subseteq Neighbours
               /\ writes \in [Gossips -> [Neighbours -> Write]]
               /\ stream \in Sources \union {None}
               /\ open \subseteq Sources
               /\ timers \in 0..MaxTimers
BY DEF TypeOK, Attempt, Write

LEMMA FreeType == Free \in Attempt /\ Free.stage = "none"
BY DEF Free, Attempt

LEMMA NoWriteType == NoWrite \in Write
BY DEF NoWrite, Write

\* An attempt that goes on, or ends, leaves the others as they are.
LEMMA BecomeType ==
    ASSUME attempts \in [Attempts -> Attempt], NEW a \in Attempts,
           NEW attempt \in Attempt, Become(a, attempt)
    PROVE  /\ attempts' \in [Attempts -> Attempt]
           /\ attempts'[a] = attempt
           /\ \A b \in Attempts \ {a} : attempts'[b] = attempts[b]
BY DEF Become

\* Marking writes as outdated or rejected keeps them writes.
LEMMA OutdatedType ==
    ASSUME writes \in [Gossips -> [Neighbours -> Write]], NEW ds
    PROVE  Outdated(ds) \in [Gossips -> [Neighbours -> Write]]
<1>1. ASSUME NEW w \in Write, NEW v \in BOOLEAN PROVE [w EXCEPT !.fresh = v] \in Write
  BY DEF Write
<1>2. ASSUME NEW w \in Write PROVE [w EXCEPT !.fresh = FALSE] \in Write
  BY <1>1
<1> QED
  BY <1>2 DEF Outdated

LEMMA RejectedType ==
    ASSUME NEW ws \in [Gossips -> [Neighbours -> Write]], NEW ds
    PROVE  Rejected(ws, ds) \in [Gossips -> [Neighbours -> Write]]
<1>1. ASSUME NEW g \in Gossips, NEW d \in Neighbours
      PROVE  [ws[g][d] EXCEPT !.stage = "rejected"] \in Write /\ ws[g][d] \in Write
  BY DEF Write
<1> QED
  BY <1>1 DEF Rejected

\* A write that ends leaves the others as they are.
LEMMA SettledType ==
    ASSUME writes \in [Gossips -> [Neighbours -> Write]],
           NEW g \in Gossips, NEW d \in Neighbours, Settled(g, d)
    PROVE  writes' \in [Gossips -> [Neighbours -> Write]]
<1>1. [writes[g] EXCEPT ![d] = NoWrite] \in [Neighbours -> Write]
  BY NoWriteType
<1> QED
  BY <1>1 DEF Settled

\* Links that go down free the attempts that were setting them up, and the
\* event is queued for every device that is heard.
LEMMA LinksEndFrees ==
    ASSUME LinkInv, NEW ds, LinksEnd(ds)
    PROVE  /\ up' = up \ ds
           /\ dropped' = dropped \union (ds \intersect listening)
           /\ attempts' \in [Attempts -> Attempt]
           /\ HasDevice'
           /\ SetUpIsUp'
<1>1. attempts \in [Attempts -> Attempt]
  BY TypeOKUnfolded DEF LinkInv
<1>2. \A a \in Attempts : \/ attempts'[a] = Free
                          \/ /\ attempts'[a] = attempts[a]
                             /\ ~(attempts[a].stage = "setup" /\ attempts[a].to \in ds)
  BY DEF LinksEnd
<1>3. attempts' \in [Attempts -> Attempt]
  BY <1>1, FreeType DEF LinksEnd
<1> QED
  BY <1>2, <1>3, FreeType DEF LinksEnd, LinkInv, HasDevice, SetUpIsUp

\* What connectEventStream() does to the streams.
LEMMA ConnectType ==
    ASSUME stream \in Sources \union {None}, open \subseteq Sources, OneStream, Connect
    PROVE  /\ stream' \in Sources \union {None}
           /\ open' \subseteq Sources
           /\ OneStream'
BY DEF Connect, OneStream

-----------------------------------------------------------------------------
(* The invariant is inductive.                                             *)

LEMMA InitLinkInv == Init => LinkInv
<1> SUFFICES ASSUME Init PROVE LinkInv
  OBVIOUS
<1>1. attempts \in [Attempts -> Attempt] /\ \A a \in Attempts : attempts[a].stage = "none"
  BY FreeType DEF Init
<1>2. writes \in [Gossips -> [Neighbours -> Write]]
  BY NoWriteType DEF Init
<1>3. TypeOK
  BY <1>1, <1>2, TypeOKUnfolded, TimersAssumption DEF Init
<1> QED
  BY <1>1, <1>3 DEF Init, LinkInv, HasDevice, SetUpIsUp, BelievedIsHeard,
                    BelievedLinksAreUp, OneStream

\* An attempt's own step, when it changes nothing but the attempt.
LEMMA AttemptStep ==
    ASSUME LinkInv, NEW a \in Attempts, NEW attempt \in Attempt, Become(a, attempt),
           attempt.stage \in {"connecting", "setup"} => attempt.to \in Neighbours,
           attempt.stage = "setup" => attempt.to \in up',
           up \subseteq up', up' \subseteq Neighbours,
           service' = service,
           UNCHANGED <<known, believed, listening, dropped, writes, streamVars>>
    PROVE  LinkInv'
<1>1. attempts \in [Attempts -> Attempt]
  BY TypeOKUnfolded DEF LinkInv
<1>2. /\ attempts' \in [Attempts -> Attempt]
      /\ attempts'[a] = attempt
      /\ \A b \in Attempts \ {a} : attempts'[b] = attempts[b]
  BY <1>1, BecomeType
<1>3. TypeOK'
  BY <1>2, TypeOKUnfolded DEF LinkInv, TypeOK, streamVars, Attempt
<1>4. HasDevice' /\ SetUpIsUp'
  BY <1>2 DEF LinkInv, HasDevice, SetUpIsUp
<1> QED
  BY <1>3, <1>4 DEF LinkInv, BelievedIsHeard, BelievedLinksAreUp, OneStream, streamVars

LEMMA NextLinkInv == LinkInv /\ [Next]_vars => LinkInv'
<1> SUFFICES ASSUME LinkInv, [Next]_vars PROVE LinkInv'
  OBVIOUS
<1> USE DEF linkVars, streamVars
<1>0. /\ attempts \in [Attempts -> Attempt]
      /\ writes \in [Gossips -> [Neighbours -> Write]]
      /\ TypeOK
  BY TypeOKUnfolded DEF LinkInv
<1>1. CASE Initialize
  BY <1>1 DEF Initialize, LinkInv, TypeOK, HasDevice, SetUpIsUp, BelievedIsHeard,
              BelievedLinksAreUp, OneStream
<1>2. ASSUME NEW a \in Attempts, Scan(a) PROVE LinkInv'
  <2>1. [stage |-> "choosing", to |-> None] \in Attempt
    BY DEF Attempt
  <2> QED
    BY <1>0, <1>2, <2>1, AttemptStep DEF Scan, TypeOK
<1>3. ASSUME NEW a \in Attempts, NEW d \in Neighbours, Choose(a, d) PROVE LinkInv'
  <2>1. [stage |-> "connecting", to |-> d] \in Attempt
    BY DEF Attempt
  <2>2. CASE d \in known
    BY <1>0, <1>3, <2>2, FreeType, AttemptStep DEF Choose, TypeOK
  <2>3. CASE d \notin known
    BY <1>0, <1>3, <2>3, <2>1, AttemptStep DEF Choose, TypeOK
  <2> QED
    BY <2>2, <2>3
<1>4. ASSUME NEW a \in Attempts, Connected(a) PROVE LinkInv'
  <2>1. /\ [attempts[a] EXCEPT !.stage = "setup"] \in Attempt
        /\ [attempts[a] EXCEPT !.stage = "setup"].to = attempts[a].to
    BY <1>0 DEF Attempt
  <2>2. attempts[a].to \in Neighbours
    BY <1>4 DEF Connected, LinkInv, HasDevice
  <2> QED
    BY <1>0, <1>4, <2>1, <2>2, AttemptStep DEF Connected, TypeOK
<1>5. ASSUME NEW a \in Attempts, SetUp(a) PROVE LinkInv'
  <2>1. attempts[a].to \in Neighbours \intersect up
    BY <1>5 DEF SetUp, LinkInv, HasDevice, SetUpIsUp
  <2>2. /\ attempts' \in [Attempts -> Attempt]
        /\ attempts'[a] = Free
        /\ \A b \in Attempts \ {a} : attempts'[b] = attempts[b]
    BY <1>0, <1>5, FreeType, BecomeType DEF SetUp
  <2>3. writes' \in [Gossips -> [Neighbours -> Write]]
    BY <1>0, <1>5, OutdatedType DEF SetUp
  <2>4. TypeOK'
    BY <1>5, <2>1, <2>2, <2>3, TypeOKUnfolded DEF SetUp, LinkInv, Attempt, Write, TypeOK
  <2>5. HasDevice' /\ SetUpIsUp'
    BY <1>5, <2>2, FreeType DEF SetUp, LinkInv, HasDevice, SetUpIsUp
  <2> QED
    BY <1>5, <2>1, <2>4, <2>5 DEF SetUp, LinkInv, BelievedIsHeard, BelievedLinksAreUp,
                                  OneStream
<1>6. ASSUME NEW a \in Attempts, AttemptFails(a) PROVE LinkInv'
  BY <1>0, <1>6, FreeType, AttemptStep DEF AttemptFails, TypeOK
<1>7. ASSUME NEW d \in Neighbours, Drop(d) PROVE LinkInv'
  <2>1. /\ up' = up \ {d}
        /\ dropped' = dropped \union ({d} \intersect listening)
        /\ attempts' \in [Attempts -> Attempt]
        /\ HasDevice' /\ SetUpIsUp'
    BY <1>7, LinksEndFrees DEF Drop
  <2>2. writes' \in [Gossips -> [Neighbours -> Write]]
    BY <1>0, <1>7, RejectedType DEF Drop
  <2>3. TypeOK'
    BY <1>0, <1>7, <2>1, <2>2 DEF Drop, TypeOK, Attempt, Write
  <2> QED
    BY <1>7, <2>1, <2>3 DEF Drop, LinkInv, BelievedIsHeard, BelievedLinksAreUp, OneStream
<1>8. ASSUME NEW d \in Neighbours, HandleDisconnect(d) PROVE LinkInv'
  BY <1>8 DEF HandleDisconnect, LinkInv, TypeOK, HasDevice, SetUpIsUp,
              BelievedIsHeard, BelievedLinksAreUp, OneStream
<1>9. CASE Shutdown
  <2>1. /\ up' = up \ known
        /\ dropped' = dropped \union (known \intersect listening)
        /\ attempts' \in [Attempts -> Attempt]
        /\ HasDevice' /\ SetUpIsUp'
    BY <1>9, LinksEndFrees DEF Shutdown
  <2>2. writes' \in [Gossips -> [Neighbours -> Write]]
    BY <1>0, <1>9, OutdatedType, RejectedType DEF Shutdown
  <2>3. TypeOK'
    BY <1>0, <1>9, <2>1, <2>2 DEF Shutdown, TypeOK, Attempt, Write
  <2> QED
    BY <1>9, <2>1, <2>3 DEF Shutdown, LinkInv, BelievedIsHeard, BelievedLinksAreUp,
                            OneStream
<1>10. ASSUME NEW g \in Gossips, GossipPacket(g) PROVE LinkInv'
  <2>1. \A stage \in {"sent", "rejected"} : [stage |-> stage, fresh |-> TRUE] \in Write
    BY DEF Write
  <2>2. [d \in Neighbours |->
            IF d \in believed
            THEN [stage |-> IF d \in up THEN "sent" ELSE "rejected", fresh |-> TRUE]
            ELSE NoWrite] \in [Neighbours -> Write]
    BY <2>1, NoWriteType
  <2>3. writes' \in [Gossips -> [Neighbours -> Write]]
    BY <1>0, <1>10, <2>2 DEF GossipPacket
  <2>4. TypeOK'
    BY <1>0, <1>10, <2>3 DEF GossipPacket, TypeOK, Write
  <2> QED
    BY <1>10, <2>4 DEF GossipPacket, LinkInv, HasDevice, SetUpIsUp, BelievedIsHeard,
                       BelievedLinksAreUp, OneStream
<1>11. ASSUME NEW g \in Gossips, NEW d \in Neighbours, WriteEnds(g, d) PROVE LinkInv'
  <2>1. writes' \in [Gossips -> [Neighbours -> Write]]
    BY <1>0, <1>11, SettledType DEF WriteEnds
  <2>2. believed' \subseteq believed
    BY <1>11 DEF WriteEnds
  <2>3. TypeOK'
    BY <1>0, <1>11, <2>1, <2>2 DEF WriteEnds, TypeOK, Write
  <2> QED
    BY <1>11, <2>2, <2>3 DEF WriteEnds, LinkInv, HasDevice, SetUpIsUp, BelievedIsHeard,
                             BelievedLinksAreUp, OneStream
<1>12. CASE OpenStream
  <2>1. stream' \in Sources \union {None} /\ open' \subseteq Sources /\ OneStream'
    BY <1>12, ConnectType DEF OpenStream, LinkInv, TypeOK
  <2> QED
    BY <1>12, <2>1 DEF OpenStream, LinkInv, TypeOK, HasDevice, SetUpIsUp,
                       BelievedIsHeard, BelievedLinksAreUp
<1>13. CASE Reconnect
  <2>1. stream' \in Sources \union {None} /\ open' \subseteq Sources /\ OneStream'
    BY <1>13, ConnectType DEF Reconnect, LinkInv, TypeOK
  <2>2. timers' \in 0..MaxTimers
    BY <1>0, <1>13, TimersAssumption DEF Reconnect, TypeOK
  <2> QED
    BY <1>13, <2>1, <2>2 DEF Reconnect, LinkInv, TypeOK, HasDevice, SetUpIsUp,
                             BelievedIsHeard, BelievedLinksAreUp
<1>14. ASSUME NEW s \in Sources, StreamFails(s) PROVE LinkInv'
  <2>1. timers' \in 0..MaxTimers
    BY <1>0, <1>14, TimersAssumption DEF StreamFails, TypeOK
  <2> QED
    BY <1>14, <2>1 DEF StreamFails, LinkInv, TypeOK, HasDevice, SetUpIsUp,
                       BelievedIsHeard, BelievedLinksAreUp, OneStream
<1>15. CASE UNCHANGED vars
  BY <1>15 DEF vars, LinkInv, TypeOK, HasDevice, SetUpIsUp, BelievedIsHeard,
               BelievedLinksAreUp, OneStream
<1> QED
  BY <1>1, <1>2, <1>3, <1>4, <1>5, <1>6, <1>7, <1>8, <1>9, <1>10, <1>11, <1>12,
     <1>13, <1>14, <1>15 DEF Next

LEMMA LinkInvHolds == Spec => []LinkInv
BY InitLinkInv, NextLinkInv, PTL DEF Spec

-----------------------------------------------------------------------------
(* The theorems.                                                           *)

\* Type correctness: whatever links, scans, writes and streams overlap, what
\* bluetoothService keeps of them is of its type.
THEOREM TypeCorrect == Spec => []TypeOK
<1>1. LinkInv => TypeOK
  BY DEF LinkInv
<1> QED
  BY <1>1, LinkInvHolds, PTL

\* A device the app takes for connected is, or the browser has queued the
\* event that handleDisconnect() corrects it with.
THEOREM BelievedAreUpOrDropped == Spec => []BelievedLinksAreUp
<1>1. LinkInv => BelievedLinksAreUp
  BY DEF LinkInv
<1> QED
  BY <1>1, LinkInvHolds, PTL

\* However errors, timers and starts follow each other, the one stream that
\* is open is the one disconnectEventStream() closes.
THEOREM OneStreamAtMost == Spec => []OneStream
<1>1. LinkInv => OneStream
  BY DEF LinkInv
<1> QED
  BY <1>1, LinkInvHolds, PTL
=============================================================================
