---------------------------- MODULE ZoneAggregator ----------------------------
(***************************************************************************)
(* The read model of the bridge (src/src/aggregator.rs) and the actor that *)
(* writes it (ProjectionActor of src/src/bus/runtime.rs).                  *)
(*                                                                         *)
(* Zones are written by two hands.  The reliable lane commits updates in   *)
(* the order of its one queue, fenced by the epoch and the sequence of     *)
(* their source.  After each commit, and after the lock is released, the   *)
(* aggregate publishes broadcast hints, and its own subscriber loop, an    *)
(* independent task, receives those hints and writes the zone again.       *)
(*                                                                         *)
(* The sources here are the HQPlayer instances, the only provider that     *)
(* keeps a second document (HqpSnapshot) beside its zone, and their        *)
(* manager.  A document is abstracted to the reading of the daemon that it *)
(* shows: which reading it was, and in which native session it was taken.  *)
(***************************************************************************)
EXTENDS Integers, Sequences

CONSTANTS
    Instances,          \* the HQPlayer instances
    Lifecycle,          \* the source "hqplayer-lifecycle" of the manager
    Publishers,         \* the tasks that submit updates
    Nil,                \* no value (Option::None)
    IngressCapacity,    \* bound of the ProjectionIngress channel (64 in the code)
    MaxReadings,        \* bound on readings of the daemons
    MaxEpoch            \* bound on native sessions of an instance

Sources == Instances \cup {Lifecycle}

\* What one coherent read of a daemon produced.
Reading == [id : 1 .. MaxReadings, epoch : 1 .. MaxEpoch]

\* ProjectionUpdate with its one or two entries: an observation carries the zone
\* and the native snapshot of one reading.  A marker is kept with the read-back that
\* it confirms.
ReadingTypes == {"observation", "advanced", "marker"}
PlainTypes == {"failure", "removed"}
KindOf(type) == IF type \in {"observation", "stopped"} THEN "Snapshot" ELSE "Delta"
Update ==
    [source : Instances, epoch : 0 .. MaxEpoch, seq : Nat, type : ReadingTypes,
     reading : Reading, retires : {0}, by : Publishers]
    \cup
    [source : Instances, epoch : 0 .. MaxEpoch, seq : Nat, type : PlainTypes,
     reading : {Nil}, retires : 0 .. MaxEpoch, by : Publishers]
    \cup
    [source : {Lifecycle}, epoch : {0}, seq : Nat, type : {"stopped"},
     reading : {Nil}, retires : {0}, by : Publishers]

\* HqpSnapshot: the observation, the pipeline it shows, and the advanced options.
Snapshot == [obs : Reading, pipeline : Reading, advanced : Reading \cup {Nil}, live : BOOLEAN]

Cursor == [epoch : 0 .. MaxEpoch, seq : Nat]

\* BusEvent: the hints of one committed zone (ZoneDiscovered and what follows it)
\* are one event, for they are published together and tell of the same zone.
Event == [type : {"found"}, inst : Instances, reading : Reading]
            \cup [type : {"gone"}, inst : Instances]
            \cup [type : {"stopping"}]

ASSUME AggregatorAssumption ==
    /\ Lifecycle \notin Instances
    /\ Nil \notin Reading /\ Nil \notin Snapshot /\ Nil \notin Cursor
    /\ Nil \notin [update : Update, outcome : {"committed", "stale", "gap"}, echo : Seq(Event)]
    /\ IngressCapacity \in Nat \ {0}
    /\ MaxReadings \in Nat /\ MaxEpoch \in Nat

VARIABLES
    ingress,    \* the bounded queue of submitted updates
    acting,     \* the update just committed, whose hints are not yet published
    cursor,     \* AggregateState.source_cursors
    zones,      \* AggregateState.zones: the reading each direct zone shows
    snapshot,   \* AggregateState.hqplayer_snapshots
    bus,        \* the events the aggregator's subscriber has not yet received
    canonical,  \* history: the zones as the reliable lane alone would leave them
    lost        \* history: instances whose latest event the subscriber lost to lag

aggregateVars == <<cursor, zones, snapshot, canonical>>
busVars == <<bus, lost>>
aggregatorVars == <<ingress, acting, aggregateVars, busVars>>

AggregatorInit ==
    /\ ingress = << >> /\ acting = Nil
    /\ cursor = [s \in Sources |-> Nil]
    /\ zones = [i \in Instances |-> Nil]
    /\ snapshot = [i \in Instances |-> Nil]
    /\ canonical = [i \in Instances |-> Nil]
    /\ bus = << >> /\ lost = {}

-----------------------------------------------------------------------------
(* commit_reliable_projection: admission.                                  *)

\* Mutant of Stale: only the sequence is compared, which no epoch resets.
StaleBySequence(u) ==
    /\ cursor[u.source] # Nil
    /\ u.seq <= cursor[u.source].seq

\* An older session, or one of the same session that was already seen.
Stale(u) ==
    /\ cursor[u.source] # Nil
    /\ \/ u.epoch < cursor[u.source].epoch
       \/ u.epoch = cursor[u.source].epoch /\ u.seq <= cursor[u.source].seq

\* A Delta that follows a hole in the sequence of its own session.
Gap(u) ==
    /\ cursor[u.source] # Nil
    /\ u.epoch = cursor[u.source].epoch /\ u.seq > cursor[u.source].seq + 1
    /\ KindOf(u.type) = "Delta"

Outcome(u) == IF Stale(u) THEN "stale" ELSE IF Gap(u) THEN "gap" ELSE "committed"

-----------------------------------------------------------------------------
(* commit_reliable_projection: the entries.                                *)

\* HqpObservation: fenced by the session, and the advanced options are kept only
\* within the session they were read in.
Observed(current, r) ==
    IF current # Nil /\ current.obs.epoch > r.epoch THEN current
    ELSE [obs |-> r, pipeline |-> r, live |-> TRUE,
          advanced |-> IF current # Nil /\ current.obs.epoch = r.epoch
                       THEN current.advanced ELSE Nil]

\* Mutant of WithAdvanced: the session is not compared.
WithAdvancedUnfenced(current, r) ==
    IF current # Nil THEN [current EXCEPT !.pipeline = r, !.advanced = r] ELSE current

\* HqpAdvanced: only for the session the snapshot shows.
WithAdvanced(current, r) ==
    IF current # Nil /\ current.obs.epoch = r.epoch
    THEN [current EXCEPT !.pipeline = r, !.advanced = r] ELSE current

\* HqpTransientFailure and HqpManagerStopped: presence becomes LastKnown.
LastKnown(current) == IF current = Nil THEN Nil ELSE [current EXCEPT !.live = FALSE]

\* HqpRemoved retires the snapshot of exactly the session it names.
Retires(u) ==
    /\ u.type = "removed"
    /\ snapshot[u.source] # Nil /\ snapshot[u.source].obs.epoch = u.retires

NextSnapshot(u) ==
    CASE u.type = "observation" ->
            [snapshot EXCEPT ![u.source] = Observed(@, u.reading)]
      [] u.type = "advanced" ->
            [snapshot EXCEPT ![u.source] = WithAdvanced(@, u.reading)]
      [] u.type = "failure" -> [snapshot EXCEPT ![u.source] = LastKnown(@)]
      [] Retires(u) -> [snapshot EXCEPT ![u.source] = Nil]
      [] u.type = "stopped" -> [i \in Instances |-> LastKnown(snapshot[i])]
      [] OTHER -> snapshot

\* The zone of an observation is inserted without a fence of its own; the manager's
\* stop drops every zone of the provider.
WrittenBy(u, written) ==
    CASE u.type = "observation" -> [written EXCEPT ![u.source] = u.reading]
      [] Retires(u) -> [written EXCEPT ![u.source] = Nil]
      [] u.type = "stopped" -> [i \in Instances |-> Nil]
      [] OTHER -> written

\* Mutant of Echo: a committed zone is not announced, only its removal.
EchoOfRemovals(u) ==
    IF Retires(u) /\ zones[u.source] # Nil THEN <<[type |-> "gone", inst |-> u.source]>> ELSE << >>

\* The hints a commit publishes: a removal only if there was a zone to remove,
\* and none for the zones the manager's stop drops.
Echo(u) ==
    CASE u.type = "observation" ->
            <<[type |-> "found", inst |-> u.source, reading |-> u.reading]>>
      [] Retires(u) /\ zones[u.source] # Nil -> <<[type |-> "gone", inst |-> u.source]>>
      [] OTHER -> << >>

-----------------------------------------------------------------------------
(* The actor.                                                              *)

\* Receive one update and commit it under the write lock.
Commit ==
    LET u == Head(ingress)
        committed == Outcome(u) = "committed" IN
    /\ acting = Nil /\ ingress # << >>
    /\ ingress' = Tail(ingress)
    /\ acting' = [update |-> u, outcome |-> Outcome(u),
                  echo |-> IF committed THEN Echo(u) ELSE << >>]
    /\ \/ /\ committed
          /\ cursor' = [cursor EXCEPT ![u.source] = [epoch |-> u.epoch, seq |-> u.seq]]
          /\ snapshot' = NextSnapshot(u)
          /\ zones' = WrittenBy(u, zones)
          /\ canonical' = WrittenBy(u, canonical)
       \/ /\ ~committed
          /\ UNCHANGED aggregateVars
    /\ UNCHANGED busVars

Concerns(e, i) == e.type = "stopping" \/ e.inst = i

\* EventBus::publish, as far as the aggregator's subscription is concerned.
Publish(events) ==
    /\ bus' = bus \o events
    /\ lost' = {i \in lost : ~\E k \in 1 .. Len(events) : Concerns(events[k], i)}

\* After the lock is released: the hints, and then the answer to the submitter.
PublishEchoes ==
    /\ acting # Nil
    /\ acting' = Nil
    /\ Publish(acting.echo)
    /\ UNCHANGED <<ingress, aggregateVars>>

-----------------------------------------------------------------------------
(* The subscriber loop.                                                    *)

\* ZoneDiscovered inserts what it carries, ZoneRemoved and AdapterStopping remove.
\* The snapshots and the cursors are not touched.
Deliver ==
    LET e == Head(bus) IN
    /\ bus # << >>
    /\ bus' = Tail(bus)
    /\ zones' = CASE e.type = "found" -> [zones EXCEPT ![e.inst] = e.reading]
                  [] e.type = "gone" -> [zones EXCEPT ![e.inst] = Nil]
                  [] e.type = "stopping" -> [i \in Instances |-> Nil]
    /\ UNCHANGED <<ingress, acting, cursor, snapshot, canonical, lost>>

\* RecvError::Lagged: a burst of other events has overwritten the oldest one.
Lag ==
    /\ bus # << >>
    /\ bus' = Tail(bus)
    /\ lost' = lost \cup
          {i \in Instances : /\ Concerns(Head(bus), i)
                             /\ ~\E k \in 2 .. Len(bus) : Concerns(bus[k], i)}
    /\ UNCHANGED <<ingress, acting, aggregateVars>>

=============================================================================
