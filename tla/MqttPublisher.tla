----------------------------- MODULE MqttPublisher -----------------------------
(***************************************************************************)
(* The task of the MQTT publisher (src/src/mqtt/mod.rs, mqtt/dedupe.rs):   *)
(* retained documents of zones and knobs on a broker, sent by one task     *)
(* that also polls its own connection.                                     *)
(*                                                                         *)
(* A handler of the task is one action: the broker and the bus go on       *)
(* meanwhile, but what it queues is read when it begins, and only the task *)
(* itself drains its request channel.  A handler that finds no room in the *)
(* channel therefore never returns, which is `stuck' here.                 *)
(*                                                                         *)
(* External are the broker, which publishes the last will of a connection  *)
(* it loses, and the client library, which may resend or forget what was   *)
(* queued when a connection broke.                                         *)
(***************************************************************************)
EXTENDS Integers, Sequences, SequencesExt, FiniteSets

CONSTANTS
    Zones, Knobs,
    Docs,           \* what a zone's or a knob's documents may show
    Absent,         \* no zone, no retained message, the empty payload
    Unknown,        \* not in the cache
    Availability, Subscription,
    Capacity,       \* REQUEST_CHANNEL_CAPACITY (4096 in the code)
    BusCapacity,    \* of a receiver of the event bus
    MaxStarts,      \* bound on the publisher tasks of one process
    MaxChanges,     \* bound on changes of zones and knobs
    MaxFaults       \* bound on lost connections and on birth messages

\* What a knob's documents show: its state, and the zones it may be given.
KnobDocs == [state : Docs, options : SUBSET Zones]

ASSUME PublisherAssumption ==
    /\ IsFiniteSet(Zones) /\ IsFiniteSet(Knobs)
    /\ Zones \cap Knobs = {} /\ Availability \notin Zones \cup Knobs
    /\ Subscription \notin Zones \cup Knobs \cup {Availability}
    /\ Absent \notin Docs \cup KnobDocs
    /\ Unknown \notin Docs \cup KnobDocs \cup {Absent, "online"}
    /\ Capacity \in Nat \ {0} /\ BusCapacity \in Nat \ {0}
    /\ MaxStarts \in Nat /\ MaxChanges \in Nat /\ MaxFaults \in Nat

Topics == Zones \cup Knobs \cup {Availability}

VARIABLES
    zones,          \* the aggregator's zones
    knobs,          \* the knob store
    reachable,      \* the broker can be reached
    retained,       \* what the broker retains, by topic
    session,        \* the broker serves the task's connection
    task,           \* the publisher task
    starts, changes, faults

world == <<zones, knobs>>
broker == <<reachable, retained, session>>
vars == <<world, broker, task, starts, changes, faults>>

NoTask == [running |-> FALSE, cancelled |-> FALSE, stuck |-> FALSE, connected |-> FALSE,
           cache |-> [topic \in Topics |-> Unknown], requests |-> <<>>,
           slugs |-> {}, known |-> {}, bus |-> <<>>, lagged |-> FALSE, missed |-> {}]

Init ==
    /\ zones \in [Zones -> Docs \cup {Absent}]
    /\ knobs \in [Knobs -> Docs \cup {Absent}]
    /\ reachable = TRUE /\ session = FALSE
    /\ retained = [topic \in Topics |-> Absent]
    /\ task = NoTask
    /\ starts = 0 /\ changes = 0 /\ faults = 0

Present == {z \in Zones : zones[z] # Absent}
Paired == {k \in Knobs : knobs[k] # Absent}
Live == task.running /\ ~task.stuck

\* A knob's discovery offers the present zones as options.
KnobDoc(k) == [state |-> knobs[k], options |-> Present]
-------------------------------------------------------------------------------
(* What a handler of the task queues.                                                  *)

\* The subscriptions of an announcement are one message, that of the knobs.
Message(topic, payload) == [topic |-> topic, payload |-> payload]
Subscribe == Message(Subscription, Absent)

\* A task that waits for room in its own channel: nothing else of it is read again.
Stuck(p) == [NoTask EXCEPT !.running = TRUE, !.cancelled = p.cancelled, !.stuck = TRUE]

Queue(p, messages, cache) ==
    IF p.stuck \/ Len(p.requests \o messages) > Capacity THEN Stuck(p)
    ELSE [p EXCEPT !.requests = p.requests \o messages, !.cache = cache]

\* What the cache holds already is not sent again.
Fresh(p, messages) == {m \in messages : p.cache[m.topic] # m.payload}

Recorded(cache, sent) ==
    [topic \in Topics |-> IF \E m \in sent : m.topic = topic
                          THEN (CHOOSE m \in sent : m.topic = topic).payload
                          ELSE cache[topic]]

\* MqttClient::publish, for each of a set of messages on different topics.
Publish(p, messages) ==
    LET sent == Fresh(p, messages) IN Queue(p, SetToSeq(sent), Recorded(p.cache, sent))

\* Documents of zones or knobs, as messages.
Each(docs) == {Message(x, docs[x]) : x \in DOMAIN docs}
Gone(S) == [x \in S |-> Absent]
Shown(S) == [z \in S |-> zones[z]]

AnnounceZones(p) ==
    Publish(Publish([p EXCEPT !.slugs = Present], {Message(Availability, "online")}),
            Each(Shown(Present)))

\* A subscription is always sent.
AnnounceKnobs(p) ==
    LET gone == Publish([p EXCEPT !.known = Paired], Each(Gone(p.known \ Paired)))
        shown == Publish(gone, Each([k \in Paired |-> KnobDoc(k)]))
    IN  Queue(shown, <<Subscribe>>, shown.cache)

AnnounceAll(p) == AnnounceKnobs(AnnounceZones(p))
ResetDedupe(p) == [p EXCEPT !.cache = [topic \in Topics |-> Unknown]]

\* publish_zone for those of S that the aggregator still has.
Refresh(p, S) ==
    Publish([p EXCEPT !.slugs = @ \cup (S \cap Present)], Each(Shown(S \cap Present)))

\* handle_bus_event.
Handled(p, event) ==
    CASE event.kind = "discovered" ->
           AnnounceKnobs(Publish([p EXCEPT !.slugs = @ \cup event.zones],
                                 Each([z \in event.zones |-> event.doc])))
      [] event.kind = "removed" ->
           AnnounceKnobs(Publish([p EXCEPT !.slugs = @ \ event.zones,
                                           !.missed = @ \ event.zones],
                                 Each(Gone(event.zones))))
      [] event.kind = "updated" -> Refresh(p, event.zones)
      [] event.kind = "volume" -> Refresh(p, p.slugs)
-------------------------------------------------------------------------------
(* The world: every change is committed to the aggregator before its event is          *)
(* published; the knob store has no events.                                            *)

\* A receiver that is full loses its oldest event, and learns that it has lagged.
Received(p, event) ==
    IF ~p.running \/ p.stuck THEN p
    ELSE IF Len(p.bus) < BusCapacity THEN [p EXCEPT !.bus = Append(@, event)]
    ELSE [p EXCEPT !.bus = Append(Tail(@), event), !.lagged = TRUE,
                   !.missed = IF Head(p.bus).kind = "removed" THEN @ \cup Head(p.bus).zones
                              ELSE @]

Event(kind, S, doc) ==
    task' = Received(task, [kind |-> kind, zones |-> S, doc |-> doc])

Change ==
    /\ changes < MaxChanges
    /\ changes' = changes + 1
    /\ UNCHANGED <<broker, starts, faults>>

ZoneAppears(z) ==
    /\ zones[z] = Absent
    /\ \E d \in Docs : zones' = [zones EXCEPT ![z] = d] /\ Event("discovered", {z}, d)
    /\ UNCHANGED knobs
    /\ Change

ZoneChanges(z) ==
    /\ zones[z] # Absent
    /\ \E d \in Docs \ {zones[z]}, kind \in {"updated", "volume"} :
          zones' = [zones EXCEPT ![z] = d] /\ Event(kind, {z}, d)
    /\ UNCHANGED knobs
    /\ Change

\* ZoneRemoved, or ZonesFlushed of several.
ZonesGo(S) ==
    /\ S # {} /\ S \subseteq Present
    /\ zones' = [z \in Zones |-> IF z \in S THEN Absent ELSE zones[z]]
    /\ Event("removed", S, Absent)
    /\ UNCHANGED knobs
    /\ Change

KnobChanges(k) ==
    /\ \E d \in (Docs \cup {Absent}) \ {knobs[k]} : knobs' = [knobs EXCEPT ![k] = d]
    /\ UNCHANGED <<zones, task>>
    /\ Change
-------------------------------------------------------------------------------
(* The broker.                                                                         *)

Will(r) == [r EXCEPT ![Availability] = "offline"]

\* The network or the broker fails: a broker that lives publishes the will, one that
\* restarts may have retained all, or nothing.
BrokerLost ==
    /\ reachable /\ faults < MaxFaults
    /\ faults' = faults + 1
    /\ reachable' = FALSE /\ session' = FALSE
    /\ retained' \in {retained, [topic \in Topics |-> Absent]}
                   \cup (IF session THEN {Will(retained)} ELSE {})
    /\ UNCHANGED <<world, task, starts, changes>>

BrokerReturns ==
    /\ ~reachable /\ reachable' = TRUE
    /\ UNCHANGED <<world, retained, session, task, starts, changes, faults>>

\* A task that no longer polls sends no pings.
KeepAliveEnds ==
    /\ session /\ task.stuck
    /\ session' = FALSE /\ retained' = Will(retained)
    /\ UNCHANGED <<world, reachable, task, starts, changes, faults>>
-------------------------------------------------------------------------------
(* The publisher task: the arms of run's select.                                       *)

Select == Live /\ UNCHANGED <<world, starts, changes>>

\* The gone zones and knobs that the broker shows and whose retraction is neither queued
\* nor due.
Overlooked(p) ==
    {x \in (Zones \ Present) \cup (Knobs \ Paired) :
        /\ retained[x] # Absent /\ x \notin p.known
        /\ ~\E i \in DOMAIN p.requests : p.requests[i] = Message(x, Absent)
        /\ ~\E i \in DOMAIN p.bus : p.bus[i].kind = "removed" /\ x \in p.bus[i].zones}

\* ConnAck.
\* Mutant of Connect: what was published before is not forgotten.
ConnectKeeping ==
    /\ Select /\ reachable /\ ~task.connected
    /\ task' = AnnounceAll([task EXCEPT !.connected = TRUE, !.missed = @ \cup Overlooked(task)])
    /\ session' = TRUE
    /\ UNCHANGED <<reachable, retained, faults>>

\* Mutant of Connect: the knobs announced to the former session are forgotten.
ConnectForgetting ==
    /\ Select /\ reachable /\ ~task.connected
    /\ task' = AnnounceAll(ResetDedupe([task EXCEPT !.connected = TRUE, !.known = {},
                                                    !.missed = @ \cup Overlooked(task)]))
    /\ session' = TRUE
    /\ UNCHANGED <<reachable, retained, faults>>

Connect ==
    /\ Select /\ reachable /\ ~task.connected
    /\ task' = AnnounceAll(ResetDedupe([task EXCEPT !.connected = TRUE,
                                                    !.missed = @ \cup Overlooked(task)]))
    /\ session' = TRUE
    /\ UNCHANGED <<reachable, retained, faults>>

\* The poll fails.  What was queued is resent after the next ConnAck, or is lost.
Interrupted ==
    /\ Select /\ task.connected /\ ~session
    /\ \E queue \in {task.requests, <<>>} :
          task' = [task EXCEPT !.connected = FALSE, !.requests = queue]
    /\ UNCHANGED <<broker, faults>>

Send ==
    /\ Select /\ task.connected /\ session /\ task.requests # <<>>
    /\ LET m == Head(task.requests) IN
       retained' = IF m.topic = Subscription THEN retained
                   ELSE [retained EXCEPT ![m.topic] = m.payload]
    /\ task' = [task EXCEPT !.requests = Tail(@)]
    /\ UNCHANGED <<reachable, session, faults>>

\* Home Assistant's birth message.
Birth ==
    /\ Select /\ task.connected /\ session /\ faults < MaxFaults
    /\ faults' = faults + 1
    /\ task' = AnnounceAll(ResetDedupe(task))
    /\ UNCHANGED broker

Handle ==
    /\ Select /\ ~task.lagged /\ task.bus # <<>>
    /\ task' = Handled([task EXCEPT !.bus = Tail(@)], Head(task.bus))
    /\ UNCHANGED <<broker, faults>>

\* RecvError::Lagged.
Resync ==
    /\ Select /\ task.lagged
    /\ task' = AnnounceAll([task EXCEPT !.lagged = FALSE])
    /\ UNCHANGED <<broker, faults>>

\* knob_tick.  A connection that lives sends a subscription within the two seconds of a
\* tick; without one they pile up.
Tick ==
    /\ Select
    /\ task.connected => Subscribe \notin Range(task.requests)
    /\ task' = AnnounceKnobs(task)
    /\ UNCHANGED <<broker, faults>>

\* The token is cancelled: "offline" and a disconnect are queued, which takes room, and
\* the loop is left, so that nothing more is sent and the broker publishes the will.
Exit ==
    /\ Select /\ task.cancelled
    /\ IF Len(task.requests) + 2 > Capacity
       THEN task' = Stuck(task) /\ UNCHANGED broker
       ELSE /\ task' = NoTask
            /\ session' = FALSE
            /\ retained' = IF session THEN Will(retained) ELSE retained
            /\ UNCHANGED reachable
    /\ UNCHANGED faults
-------------------------------------------------------------------------------
(* MqttPublisher: configure, set_enabled and shutdown, which start the task, cancel it   *)
(* and give up joining it after five seconds.  Calls do not overlap here.                *)

Start ==
    /\ ~task.running /\ starts < MaxStarts
    /\ starts' = starts + 1
    /\ task' = [NoTask EXCEPT !.running = TRUE]
    /\ UNCHANGED <<world, broker, changes, faults>>

Cancel ==
    /\ task.running /\ ~task.cancelled
    /\ task' = [task EXCEPT !.cancelled = TRUE]
    /\ UNCHANGED <<world, broker, starts, changes, faults>>

\* A task that does not end is left behind.
Abandon ==
    /\ task.running /\ task.cancelled /\ task.stuck
    /\ task' = NoTask /\ session' = FALSE
    /\ retained' = IF session THEN Will(retained) ELSE retained
    /\ UNCHANGED <<world, reachable, starts, changes, faults>>
-------------------------------------------------------------------------------
Next ==
    \/ \E z \in Zones : ZoneAppears(z) \/ ZoneChanges(z)
    \/ \E S \in SUBSET Zones : ZonesGo(S)
    \/ \E k \in Knobs : KnobChanges(k)
    \/ BrokerLost \/ BrokerReturns \/ KeepAliveEnds
    \/ Connect \/ Interrupted \/ Send \/ Birth \/ Handle \/ Resync \/ Tick \/ Exit
    \/ Start \/ Cancel \/ Abandon

Spec == Init /\ [][Next]_vars
-------------------------------------------------------------------------------
Serving == Live /\ task.connected /\ session

\* Nothing is due: no event, no request, and the next tick will only subscribe.
Quiet ==
    /\ ~task.lagged /\ task.bus = <<>> /\ task.requests = <<>>
    /\ AnnounceKnobs(task).requests = <<Subscribe>>

\* A connected publisher that has nothing left to send has brought the broker to what the
\* aggregator and the knob store hold, whatever was lost with earlier connections, with the
\* broker's memory or by lagging behind the bus, and routes the commands for every zone it
\* shows: the cache never claims what the broker has not got (MqttClient::publish,
\* reset_dedupe, announce_all_zones, handle_bus_event).
QuietMeansCurrent ==
    Serving /\ Quiet =>
        /\ retained[Availability] = "online"
        /\ \A z \in Present : retained[z] = zones[z] /\ z \in task.slugs
        /\ \A k \in Paired : retained[k] = KnobDoc(k)

\* A zone or a knob that is gone stays on the broker of a quiet publisher only if its
\* retraction was lost: with a connection, while no task was running, or by lagging behind
\* the bus (retract_zone, announce_all_knobs; a new announcement retracts nothing).
GoneIsRetracted ==
    Serving /\ Quiet =>
        \A x \in (Zones \ Present) \cup (Knobs \ Paired) :
            retained[x] = Absent \/ x \in task.missed
===============================================================================
