---------------------- MODULE HqplayerProjection_proofs ----------------------
(***************************************************************************)
(* Proofs about HqplayerProjection, for every set of instances, every      *)
(* capacity of the ingress and every bound.                                *)
(*                                                                         *)
(* The argument: a submission belongs to the task that waits for it        *)
(* (JobsFormed), the manager waits for each of its own (QueueFormed), and  *)
(* an instance whose removal has joined its tasks has none left            *)
(* (RemovalFormed).  So nothing can enter the queue behind a retirement    *)
(* (RetirementLast).  On the side of the aggregate the cursor of a source  *)
(* has seen every session that its snapshot shows (SnapshotBehindCursor),  *)
(* so an observation that is not stale is not refused by the snapshot.     *)
(*                                                                         *)
(* That late hints converge is an invariant of its own (EchoInv): whatever *)
(* the subscriber has not yet received leaves an instance with what the    *)
(* reliable lane committed for it, and with nothing after a stop, which    *)
(* the lane admits and behind which nothing is observed.                   *)
(***************************************************************************)
EXTENDS HqplayerProjection, TLAPS

(* The tasks that publish are told apart by their kind and their instance. *)
LEMMA Tasks ==
    /\ Manager \in Publishers
    /\ \A i \in Instances :
          /\ Worker(i) \in Publishers /\ Endpoint(i) \in Publishers
          /\ Worker(i) # Manager /\ Endpoint(i) # Manager
    /\ \A i, j \in Instances :
          /\ Worker(i) # Endpoint(j)
          /\ Worker(i) = Worker(j) => i = j
          /\ Endpoint(i) = Endpoint(j) => i = j
    /\ \A p \in Publishers :
          \/ p = Manager
          \/ \E i \in Instances : p = Worker(i) \/ p = Endpoint(i)
BY PublishersAssumption DEF Worker, Endpoint, Manager

(* Bounds are natural numbers, and Nil is none of the records.             *)
LEMMA Constants ==
    /\ MaxReadings \in Nat /\ MaxEpoch \in Nat /\ MaxOps \in Nat
    /\ MaxCommands \in Nat /\ MaxFailures \in Nat
    /\ Nil \notin Reading /\ Nil \notin Snapshot /\ Nil \notin Cursor
    /\ Nil \notin Job /\ Nil \notin Op /\ Nil \notin Publishers
    /\ Lifecycle \notin Instances
BY AggregatorAssumption, PublishersAssumption, JobsAssumption

(* What a task asks to be published is a well-typed submission.            *)
LEMMA WantsTyped ==
    ASSUME BridgeOK, NEW p \in Publishers, NEW i \in Instances,
           NEW type, NEW e \in 0 .. MaxEpoch, NEW r, NEW retires,
           \/ type \in ReadingTypes /\ r \in Reading /\ retires = 0
           \/ type \in PlainTypes /\ r = Nil /\ retires \in 0 .. MaxEpoch,
           Wants(p, i, type, e, r, retires)
    PROVE  job' \in [Publishers -> Job \cup {Nil}]
<1> DEFINE u == [source |-> i, epoch |-> e, seq |-> 0, type |-> type,
                 reading |-> r, retires |-> retires, by |-> p]
<1>1. u \in Update
    BY DEF Update
<1>2. [phase |-> "want", update |-> u] \in Job
    BY <1>1 DEF Job
<1> QED BY <1>2 DEF Wants, BridgeOK

-----------------------------------------------------------------------------
(* Types.                                                                  *)

(* What a commit writes is well typed.                                     *)
LEMMA CommitTyped ==
    ASSUME AggregatorOK, Commit
    PROVE  AggregatorOK'
<1> DEFINE u == Head(ingress)
<1> USE Constants
<1>1. u \in Update /\ ingress' \in Seq(Update)
    BY DEF Commit, AggregatorOK
<1>2. Outcome(u) \in {"committed", "stale", "gap"}
    BY DEF Outcome
<1>e. Echo(u) \in Seq(Event) /\ << >> \in Seq(Event)
  <2>1. CASE u.type = "observation"
    <3>1. [type |-> "found", inst |-> u.source, reading |-> u.reading] \in Event
        BY <1>1, <2>1 DEF Update, ReadingTypes, PlainTypes, Event
    <3>2. Echo(u) = <<[type |-> "found", inst |-> u.source, reading |-> u.reading]>>
        BY <1>1, <2>1 DEF Echo, Retires
    <3> HIDE DEF u
    <3> QED BY <3>1, <3>2
  <2>2. CASE Retires(u) /\ zones[u.source] # Nil
    <3>1. u.type = "removed" /\ [type |-> "gone", inst |-> u.source] \in Event
        BY <1>1, <2>2 DEF Retires, Update, ReadingTypes, PlainTypes, Event
    <3>2. Echo(u) = <<[type |-> "gone", inst |-> u.source]>>
        BY <2>2, <3>1 DEF Echo
    <3> HIDE DEF u
    <3> QED BY <3>1, <3>2
  <2>3. CASE u.type # "observation" /\ ~(Retires(u) /\ zones[u.source] # Nil)
    BY <2>3 DEF Echo
  <2> QED BY <2>1, <2>2, <2>3
<1>3. acting' \in [update : Update, outcome : {"committed", "stale", "gap"}, echo : Seq(Event)]
    BY <1>1, <1>2, <1>e DEF Commit
<1>4. /\ u.epoch \in 0 .. MaxEpoch /\ u.seq \in Nat
      /\ u.type = "observation" => u.reading \in Reading
      /\ u.type = "advanced" => u.reading \in Reading
    BY <1>1 DEF Update, ReadingTypes, PlainTypes
<1>5. cursor' \in [Sources -> Cursor \cup {Nil}]
    BY <1>4 DEF Commit, AggregatorOK, Cursor, aggregateVars
<1>6. NextSnapshot(u) \in [Instances -> Snapshot \cup {Nil}]
  <2>1. \A s \in Snapshot \cup {Nil}, r \in Reading :
            Observed(s, r) \in Snapshot /\ WithAdvanced(s, r) \in Snapshot \cup {Nil}
      BY DEF Observed, WithAdvanced, Snapshot
  <2>2. \A s \in Snapshot \cup {Nil} : LastKnown(s) \in Snapshot \cup {Nil}
      BY DEF LastKnown, Snapshot
  <2>3. snapshot \in [Instances -> Snapshot \cup {Nil}]
      BY DEF AggregatorOK
  <2>4. CASE u.type = "observation"
      BY <2>1, <2>3, <2>4, <1>4 DEF NextSnapshot
  <2>5. CASE u.type = "advanced"
      BY <2>1, <2>3, <2>5, <1>4 DEF NextSnapshot
  <2>6. CASE u.type = "failure"
      BY <2>2, <2>3, <2>6 DEF NextSnapshot
  <2>7. CASE u.type = "stopped"
      BY <2>2, <2>3, <2>7 DEF NextSnapshot, Retires
  <2>8. CASE u.type \notin {"observation", "advanced", "failure", "stopped"}
      BY <2>3, <2>8 DEF NextSnapshot, Retires
  <2> QED BY <2>4, <2>5, <2>6, <2>7, <2>8
<1>7. \A w \in [Instances -> Reading \cup {Nil}] :
          WrittenBy(u, w) \in [Instances -> Reading \cup {Nil}]
    BY <1>4 DEF WrittenBy, Retires
<1>8. /\ snapshot' \in [Instances -> Snapshot \cup {Nil}]
      /\ zones' \in [Instances -> Reading \cup {Nil}]
      /\ canonical' \in [Instances -> Reading \cup {Nil}]
    BY <1>6, <1>7 DEF Commit, AggregatorOK, aggregateVars
<1>9. bus' \in Seq(Event) /\ lost' \in SUBSET Instances
    BY DEF Commit, AggregatorOK, busVars
<1> QED BY <1>1, <1>3, <1>5, <1>8, <1>9 DEF AggregatorOK

(* Publishing events keeps the bus well typed.                             *)
LEMMA PublishTyped ==
    ASSUME AggregatorOK, NEW events \in Seq(Event), Publish(events)
    PROVE  bus' \in Seq(Event) /\ lost' \in SUBSET Instances
BY DEF Publish, AggregatorOK

LEMMA StoppingIsEvent == <<[type |-> "stopping"]>> \in Seq(Event)
BY DEF Event

(* So do the subscriber and the lag.                                       *)
LEMMA SubscriberTyped ==
    ASSUME AggregatorOK, Deliver \/ Lag
    PROVE  AggregatorOK'
<1>1. Head(bus) \in Event /\ Tail(bus) \in Seq(Event)
    BY DEF AggregatorOK, Deliver, Lag
<1>2. CASE Deliver
    BY <1>1, <1>2 DEF Deliver, AggregatorOK, Event
<1>3. CASE Lag
    BY <1>1, <1>3 DEF Lag, AggregatorOK, aggregateVars
<1> QED BY <1>2, <1>3

(* The state is well typed, and stays so.                                  *)
LEMMA TypeStep ==
    ASSUME TypeOK, JobsFormed, ReadBackKept, [Next]_vars
    PROVE  TypeOK'
<1> USE Constants DEF TypeOK, vars, aggregatorVars, aggregateVars, busVars, bridgeVars,
        adapterVars, taskVars, managerVars, endpointFrame
<1>1. ASSUME Commit /\ UNCHANGED <<bridgeVars, adapterVars, taskVars, managerVars>> PROVE TypeOK'
  <2>1. AggregatorOK'
    BY <1>1, CommitTyped
  <2>2. BridgeOK' /\ AdapterOK' /\ TasksOK' /\ ManagerOK'
    BY <1>1 DEF Commit, BridgeOK, AdapterOK, TasksOK, ManagerOK
  <2> QED BY <2>1, <2>2
<1>2. ASSUME Answer PROVE TypeOK'
  <2>1. acting \in [update : Update, outcome : {"committed", "stale", "gap"}, echo : Seq(Event)]
    BY <1>2 DEF Answer, PublishEchoes, AggregatorOK
  <2>2. AggregatorOK'
    <3>1. bus' \in Seq(Event) /\ lost' \in SUBSET Instances
        BY <1>2, <2>1, PublishTyped DEF Answer, PublishEchoes
    <3> QED BY <1>2, <3>1 DEF Answer, PublishEchoes, AggregatorOK
  <2>3. BridgeOK'
    <3>1. acting.update.by \in Publishers
        BY <2>1 DEF Update
    <3> QED BY <1>2, <3>1 DEF Answer, Release, BridgeOK
  <2>4. AdapterOK' /\ TasksOK' /\ ManagerOK'
    BY <1>2 DEF Answer, AdapterOK, TasksOK, ManagerOK
  <2> QED BY <2>2, <2>3, <2>4
<1>3. ASSUME Subscriber PROVE TypeOK'
  <2>1. AggregatorOK'
    BY <1>3, SubscriberTyped DEF Subscriber
  <2>2. BridgeOK' /\ AdapterOK' /\ TasksOK' /\ ManagerOK'
    BY <1>3 DEF Subscriber, BridgeOK, AdapterOK, TasksOK, ManagerOK
  <2> QED BY <2>1, <2>2
<1>4. ASSUME NEW p \in Publishers, Stamp(p) PROVE TypeOK'
  <2> DEFINE u == job[p].update
             e == IF u.epoch = 0 THEN laneEpoch[u.source] ELSE u.epoch
             v == [u EXCEPT !.epoch = e, !.seq = laneSeq[u.source] + 1]
  <2>1. job[p] \in Job /\ u \in Update /\ u.type # "stopped"
    BY <1>4 DEF Stamp, BridgeOK, Job, JobsFormed
  <2>2. u.source \in Instances /\ u.epoch \in 0 .. MaxEpoch
    BY <2>1 DEF Update, ReadingTypes, PlainTypes
  <2>3. e \in 0 .. MaxEpoch /\ laneSeq[u.source] + 1 \in Nat
    BY <2>2 DEF BridgeOK
  <2>4. v \in Update
    <3> HIDE DEF e
    <3> QED BY <2>1, <2>2, <2>3 DEF Update, ReadingTypes, PlainTypes
  <2>5. BridgeOK'
    <3>1. [phase |-> "stamped", update |-> v] \in Job
        BY <2>4 DEF Job
    <3>2. job' \in [Publishers -> Job \cup {Nil}]
        BY <1>4, <3>1 DEF Stamp, BridgeOK
    <3>3. /\ permit' \in [Instances -> Publishers \cup {Nil}]
          /\ laneEpoch' \in [Instances -> 0 .. MaxEpoch]
          /\ laneSeq' \in [Instances -> Nat] /\ marker' \in Nat
        BY <1>4, <2>3 DEF Stamp, BridgeOK
    <3> QED BY <3>2, <3>3 DEF BridgeOK
  <2>6. AggregatorOK' /\ AdapterOK' /\ TasksOK' /\ ManagerOK'
    BY <1>4 DEF Stamp, AggregatorOK, AdapterOK, TasksOK, ManagerOK
  <2> QED BY <2>5, <2>6
<1>5. ASSUME NEW p \in Publishers, Send(p) PROVE TypeOK'
  <2>1. job[p] \in Job /\ job[p].update \in Update
    BY <1>5 DEF Send, BridgeOK, Job
  <2>2. AggregatorOK'
    <3>1. ingress' \in Seq(Update)
        BY <1>5, <2>1 DEF Send, AggregatorOK
    <3> QED BY <1>5, <3>1 DEF Send, AggregatorOK
  <2>3. BridgeOK'
    BY <1>5, <2>1 DEF Send, BridgeOK, Job
  <2>4. AdapterOK' /\ TasksOK' /\ ManagerOK'
    BY <1>5 DEF Send, AdapterOK, TasksOK, ManagerOK
  <2> QED BY <2>2, <2>3, <2>4
<1>6. ASSUME NEW i \in Instances, OpenSession(i) PROVE TypeOK'
  <2>1. AdapterOK'
    BY <1>6 DEF OpenSession, AdapterOK
  <2>2. AggregatorOK' /\ BridgeOK' /\ TasksOK' /\ ManagerOK'
    BY <1>6 DEF OpenSession, AggregatorOK, BridgeOK, TasksOK, ManagerOK
  <2> QED BY <2>1, <2>2
<1>7. ASSUME NEW i \in Instances, Poll(i) PROVE TypeOK'
  <2>1. BridgeOK'
    <3>1. PICK r \in Reading : Wants(Worker(i), i, "observation", r.epoch, r, 0)
        BY <1>7 DEF Poll
    <3>2. r.epoch \in 0 .. MaxEpoch
        BY DEF Reading
    <3>3. job' \in [Publishers -> Job \cup {Nil}]
        BY <3>1, <3>2, Tasks, WantsTyped DEF ReadingTypes
    <3> QED BY <1>7, <3>3 DEF Poll, BridgeOK
  <2>2. AdapterOK' /\ TasksOK'
    BY <1>7 DEF Poll, AdapterOK, TasksOK, Reads
  <2>3. AggregatorOK' /\ ManagerOK'
    BY <1>7 DEF Poll, AggregatorOK, ManagerOK
  <2> QED BY <2>1, <2>2, <2>3
<1>8. ASSUME NEW i \in Instances, PollFails(i) PROVE TypeOK'
  <2>1. BridgeOK'
    <3>1. job' \in [Publishers -> Job \cup {Nil}]
        BY <1>8, Tasks, WantsTyped DEF PollFails, PlainTypes
    <3> QED BY <1>8, <3>1 DEF PollFails, BridgeOK
  <2>2. AdapterOK'
    BY <1>8 DEF PollFails, AdapterOK, ReadFails
  <2>3. TasksOK'
    BY <1>8 DEF PollFails, TasksOK
  <2>4. AggregatorOK' /\ ManagerOK'
    BY <1>8 DEF PollFails, AggregatorOK, ManagerOK
  <2> QED BY <2>1, <2>2, <2>3, <2>4
<1>9. ASSUME NEW i \in Instances, PollDone(i) PROVE TypeOK'
  <2>1. AdapterOK' /\ TasksOK'
    BY <1>9 DEF PollDone, AdapterOK, TasksOK
  <2>2. AggregatorOK' /\ BridgeOK' /\ ManagerOK'
    BY <1>9 DEF PollDone, AggregatorOK, BridgeOK, ManagerOK
  <2> QED BY <2>1, <2>2
<1>10. ASSUME NEW i \in Instances, FailureDone(i) PROVE TypeOK'
  <2>1. AdapterOK' /\ TasksOK'
    BY <1>10 DEF FailureDone, AdapterOK, TasksOK
  <2>2. AggregatorOK' /\ BridgeOK' /\ ManagerOK'
    BY <1>10 DEF FailureDone, AggregatorOK, BridgeOK, ManagerOK
  <2> QED BY <2>1, <2>2
<1>11. ASSUME NEW i \in Instances, WorkerCancelled(i) PROVE TypeOK'
  <2>1. BridgeOK'
    BY <1>11 DEF WorkerCancelled, Release, BridgeOK
  <2>2. TasksOK'
    BY <1>11 DEF WorkerCancelled, TasksOK
  <2>3. AggregatorOK' /\ AdapterOK' /\ ManagerOK'
    BY <1>11 DEF WorkerCancelled, AggregatorOK, AdapterOK, ManagerOK
  <2> QED BY <2>1, <2>2, <2>3
<1>12. ASSUME NEW i \in Instances, WorkerCloses(i) PROVE TypeOK'
  <2>1. AdapterOK' /\ TasksOK'
    BY <1>12 DEF WorkerCloses, AdapterOK, TasksOK
  <2>2. AggregatorOK' /\ BridgeOK' /\ ManagerOK'
    BY <1>12 DEF WorkerCloses, AggregatorOK, BridgeOK, ManagerOK
  <2> QED BY <2>1, <2>2
<1>13. ASSUME NEW i \in Instances, NEW accepted \in BOOLEAN, ReadBack(i, accepted)
      PROVE  TypeOK'
  <2>1. BridgeOK'
    <3>1. job' \in [Publishers -> Job \cup {Nil}]
      <4>1. CASE UNCHANGED job
        BY <4>1 DEF BridgeOK
      <4>2. CASE \E r \in Reading : Wants(Endpoint(i), i, "observation", r.epoch, r, 0)
        <5>1. PICK r \in Reading : Wants(Endpoint(i), i, "observation", r.epoch, r, 0)
            BY <4>2
        <5>2. r.epoch \in 0 .. MaxEpoch
            BY DEF Reading
        <5> QED BY <5>1, <5>2, Tasks, WantsTyped DEF ReadingTypes
      <4> QED BY <1>13, <4>1, <4>2 DEF ReadBack
    <3> QED BY <1>13, <3>1 DEF ReadBack, BridgeOK
  <2>2. AdapterOK'
    <3>1. CASE \E r \in Reading : Reads(i, r)
        BY <3>1 DEF Reads, AdapterOK
    <3>2. CASE ReadFails(i)
        BY <3>2 DEF ReadFails, AdapterOK
    <3> QED BY <1>13, <3>1, <3>2 DEF ReadBack
  <2>3. TasksOK'
    <3>1. budget' \in [Instances -> [commands : 0 .. MaxCommands, failures : 0 .. MaxFailures]]
        BY <1>13 DEF ReadBack, TasksOK
    <3>2. /\ readback' \in [Instances -> Reading \cup {Nil}]
          /\ endpoint' \in [Instances -> {"off", "idle", "observing", "readback", "advancing",
                                        "confirming"}]
      <4>1. CASE UNCHANGED <<readback, endpoint>>
        BY <4>1 DEF TasksOK
      <4>2. CASE \E r \in Reading :
                    /\ readback' = [readback EXCEPT ![i] = IF accepted THEN r ELSE Nil]
                    /\ endpoint' = [endpoint EXCEPT ![i] = "observing"]
        BY <4>2 DEF TasksOK
      <4> QED BY <1>13, <4>1, <4>2 DEF ReadBack
    <3> QED BY <1>13, <3>1, <3>2 DEF ReadBack, TasksOK
  <2>4. AggregatorOK' /\ ManagerOK'
    BY <1>13 DEF ReadBack, AggregatorOK, ManagerOK
  <2> QED BY <2>1, <2>2, <2>3, <2>4
<1>14. ASSUME NEW i \in Instances, ReadBackDone(i) PROVE TypeOK'
  <2>1. TasksOK'
    BY <1>14 DEF ReadBackDone, TasksOK, AdapterOK
  <2>2. AggregatorOK' /\ BridgeOK' /\ AdapterOK' /\ ManagerOK'
    BY <1>14 DEF ReadBackDone, AggregatorOK, BridgeOK, AdapterOK, ManagerOK
  <2> QED BY <2>1, <2>2
<1>15. ASSUME NEW i \in Instances, ReadsAdvanced(i) PROVE TypeOK'
  <2>1. BridgeOK'
    <3>1. job' \in [Publishers -> Job \cup {Nil}]
      <4>1. CASE UNCHANGED job
        BY <4>1 DEF BridgeOK
      <4>2. CASE \E r \in Reading : Wants(Endpoint(i), i, "advanced", r.epoch, r, 0)
        <5>1. PICK r \in Reading : Wants(Endpoint(i), i, "advanced", r.epoch, r, 0)
            BY <4>2
        <5>2. r.epoch \in 0 .. MaxEpoch
            BY DEF Reading
        <5> QED BY <5>1, <5>2, Tasks, WantsTyped DEF ReadingTypes
      <4> QED BY <1>15, <4>1, <4>2 DEF ReadsAdvanced
    <3> QED BY <1>15, <3>1 DEF ReadsAdvanced, BridgeOK
  <2>2. AdapterOK'
    <3>1. CASE \E r \in Reading : Reads(i, r)
        BY <3>1 DEF Reads, AdapterOK
    <3>2. CASE ReadFails(i)
        BY <3>2 DEF ReadFails, AdapterOK
    <3> QED BY <1>15, <3>1, <3>2 DEF ReadsAdvanced
  <2>3. TasksOK'
    BY <1>15 DEF ReadsAdvanced, TasksOK
  <2>4. AggregatorOK' /\ ManagerOK'
    BY <1>15 DEF ReadsAdvanced, AggregatorOK, ManagerOK
  <2> QED BY <2>1, <2>2, <2>3, <2>4
<1>16. ASSUME NEW i \in Instances, Confirm(i) PROVE TypeOK'
  <2>1. BridgeOK'
    <3>1. readback[i] \in Reading /\ markEpoch[i] \in 0 .. MaxEpoch
        BY <1>16 DEF Confirm, ReadBackKept, TasksOK
    <3>2. job' \in [Publishers -> Job \cup {Nil}]
        BY <1>16, <3>1, Tasks, WantsTyped DEF Confirm, ReadingTypes
    <3> QED BY <1>16, <3>2 DEF Confirm, BridgeOK
  <2>2. TasksOK'
    BY <1>16 DEF Confirm, TasksOK
  <2>3. AggregatorOK' /\ AdapterOK' /\ ManagerOK'
    BY <1>16 DEF Confirm, AggregatorOK, AdapterOK, ManagerOK
  <2> QED BY <2>1, <2>2, <2>3
<1>17. ASSUME NEW i \in Instances, ConfirmDone(i) PROVE TypeOK'
  <2>1. TasksOK'
    BY <1>17 DEF ConfirmDone, TasksOK
  <2>2. AggregatorOK' /\ BridgeOK' /\ AdapterOK' /\ ManagerOK'
    BY <1>17 DEF ConfirmDone, AggregatorOK, BridgeOK, AdapterOK, ManagerOK
  <2> QED BY <2>1, <2>2
<1>18. ASSUME NEW i \in Instances, EndpointCancelled(i) PROVE TypeOK'
  <2>1. TasksOK'
    BY <1>18 DEF EndpointCancelled, TasksOK
  <2>2. AggregatorOK' /\ BridgeOK' /\ AdapterOK' /\ ManagerOK'
    BY <1>18 DEF EndpointCancelled, AggregatorOK, BridgeOK, AdapterOK, ManagerOK
  <2> QED BY <2>1, <2>2
<1>19. ASSUME NEW i \in Instances, AddInstance(i) PROVE TypeOK'
  <2>1. AdapterOK'
    BY <1>19 DEF AddInstance, AdapterOK, ManagerOK
  <2>2. TasksOK'
    <3>1. CASE running
      <4>1. Spawn({i})
          BY <1>19, <3>1 DEF AddInstance
      <4>2. /\ worker' \in [Instances -> {"off", "poll", "observing", "failing", "closing"}]
            /\ endpoint' \in [Instances -> {"off", "idle", "observing", "readback", "advancing",
                                            "confirming"}]
          BY <4>1 DEF TasksOK, Spawn
      <4>3. cancelled' \in [Instances -> BOOLEAN] /\ UNCHANGED <<readback, markEpoch, budget>>
          BY <4>1 DEF TasksOK, Spawn
      <4> QED BY <4>2, <4>3 DEF TasksOK
    <3>2. CASE ~running
        BY <1>19, <3>2 DEF AddInstance, TasksOK, taskVars
    <3> QED BY <3>1, <3>2
  <2>3. ManagerOK'
    BY <1>19 DEF AddInstance, ManagerOK, Begins
  <2>4. AggregatorOK' /\ BridgeOK'
    BY <1>19 DEF AddInstance, AggregatorOK, BridgeOK
  <2> QED BY <2>1, <2>2, <2>3, <2>4
<1>20. ASSUME NEW i \in Instances, RemoveInstance(i) PROVE TypeOK'
  <2>0. [kind |-> "remove", inst |-> i, epoch |-> epoch[i], at |-> "stop"] \in Op
    BY <1>20 DEF AdapterOK, Op
  <2>1. ManagerOK'
    BY <1>20, <2>0 DEF RemoveInstance, ManagerOK, Begins, AdapterOK
  <2>2. AggregatorOK' /\ BridgeOK' /\ AdapterOK' /\ TasksOK'
    BY <1>20 DEF RemoveInstance, AggregatorOK, BridgeOK, AdapterOK, TasksOK
  <2> QED BY <2>1, <2>2
<1>21. ASSUME StartManager PROVE TypeOK'
  <2>1. TasksOK'
    BY <1>21 DEF StartManager, TasksOK, Spawn
  <2>2. ManagerOK'
    BY <1>21 DEF StartManager, ManagerOK, Begins
  <2>3. AggregatorOK' /\ BridgeOK' /\ AdapterOK'
    BY <1>21 DEF StartManager, AggregatorOK, BridgeOK, AdapterOK
  <2> QED BY <2>1, <2>2, <2>3
<1>22. ASSUME StopIdleManager PROVE TypeOK'
  <2>1. ManagerOK'
    BY <1>22 DEF StopIdleManager, ManagerOK, Begins
  <2>2. AggregatorOK' /\ BridgeOK' /\ AdapterOK' /\ TasksOK'
    BY <1>22 DEF StopIdleManager, AggregatorOK, BridgeOK, AdapterOK, TasksOK
  <2> QED BY <2>1, <2>2
<1>23. ASSUME StopManager PROVE TypeOK'
  <2>0. [kind |-> "stop", at |-> "join"] \in Op
    BY DEF Op
  <2>1. AggregatorOK'
    BY <1>23, StoppingIsEvent, PublishTyped DEF StopManager, AggregatorOK
  <2>2. TasksOK'
    BY <1>23 DEF StopManager, TasksOK
  <2>3. ManagerOK'
    <3>1. op' \in Op
        BY <1>23, <2>0 DEF StopManager
    <3>2. ops' \in 0 .. MaxOps
        BY <1>23 DEF StopManager, Begins, ManagerOK
    <3> QED BY <1>23, <3>1, <3>2 DEF StopManager, ManagerOK
  <2>4. BridgeOK' /\ AdapterOK'
    BY <1>23 DEF StopManager, BridgeOK, AdapterOK
  <2> QED BY <2>1, <2>2, <2>3, <2>4
<1>24. ASSUME StopWorker PROVE TypeOK'
  <2>1. TasksOK'
    BY <1>24 DEF StopWorker, TasksOK
  <2>2. ManagerOK'
    BY <1>24 DEF StopWorker, ManagerOK, Op
  <2>3. AggregatorOK' /\ BridgeOK' /\ AdapterOK'
    BY <1>24 DEF StopWorker, AggregatorOK, BridgeOK, AdapterOK
  <2> QED BY <2>1, <2>2, <2>3
<1>25. ASSUME Retire PROVE TypeOK'
  <2>1. BridgeOK'
    <3>1. op.inst \in Instances /\ op.epoch \in 0 .. MaxEpoch
        BY <1>25 DEF Retire, ManagerOK, Op
    <3>2. job' \in [Publishers -> Job \cup {Nil}]
        BY <1>25, <3>1, Tasks, WantsTyped DEF Retire, PlainTypes
    <3> QED BY <1>25, <3>2 DEF Retire, BridgeOK
  <2>2. ManagerOK'
    BY <1>25 DEF Retire, ManagerOK, Op
  <2>3. AggregatorOK' /\ AdapterOK' /\ TasksOK'
    BY <1>25 DEF Retire, AggregatorOK, AdapterOK, TasksOK
  <2> QED BY <2>1, <2>2, <2>3
<1>26. ASSUME Disconnect PROVE TypeOK'
  <2>1. BridgeOK'
    <3>1. op.inst \in Instances
        BY <1>26 DEF Disconnect, ManagerOK, Op
    <3>2. epoch[op.inst] \in 0 .. MaxEpoch
        BY <3>1 DEF AdapterOK
    <3>3. job' \in [Publishers -> Job \cup {Nil}]
      <4>1. CASE UNCHANGED job
        BY <4>1 DEF BridgeOK
      <4>2. CASE Wants(Manager, op.inst, "removed", epoch[op.inst], Nil, epoch[op.inst])
        BY <3>1, <3>2, <4>2, Tasks, WantsTyped DEF PlainTypes
      <4> QED BY <1>26, <4>1, <4>2 DEF Disconnect
    <3> QED BY <1>26, <3>3 DEF Disconnect, BridgeOK
  <2>2. AdapterOK'
    BY <1>26 DEF Disconnect, AdapterOK
  <2>3. ManagerOK'
    BY <1>26 DEF Disconnect, ManagerOK, Op
  <2>4. AggregatorOK' /\ TasksOK'
    BY <1>26 DEF Disconnect, AggregatorOK, TasksOK
  <2> QED BY <2>1, <2>2, <2>3, <2>4
<1>27. ASSUME Removed PROVE TypeOK'
  <2>1. ManagerOK'
    BY <1>27 DEF Removed, ManagerOK
  <2>2. AggregatorOK' /\ BridgeOK' /\ AdapterOK' /\ TasksOK'
    BY <1>27 DEF Removed, AggregatorOK, BridgeOK, AdapterOK, TasksOK
  <2> QED BY <2>1, <2>2
<1>28. ASSUME AnnounceStop PROVE TypeOK'
  <2>1. BridgeOK'
    <3> DEFINE u == [source |-> Lifecycle, epoch |-> 0, seq |-> marker, type |-> "stopped",
                     reading |-> Nil, retires |-> 0, by |-> Manager]
    <3>1. u \in Update
        BY Tasks DEF BridgeOK, Update
    <3>2. [phase |-> "stamped", update |-> u] \in Job
        BY <3>1 DEF Job
    <3>3. job' = [job EXCEPT ![Manager] = [phase |-> "stamped", update |-> u]]
        BY <1>28 DEF AnnounceStop
    <3> HIDE DEF u
    <3>4. job' \in [Publishers -> Job \cup {Nil}]
        BY <3>2, <3>3 DEF BridgeOK
    <3> QED BY <1>28, <3>4 DEF AnnounceStop, BridgeOK
  <2>2. ManagerOK'
    BY <1>28 DEF AnnounceStop, ManagerOK, Op
  <2>3. AggregatorOK' /\ AdapterOK' /\ TasksOK'
    BY <1>28 DEF AnnounceStop, AggregatorOK, AdapterOK, TasksOK
  <2> QED BY <2>1, <2>2, <2>3
<1>29. ASSUME Stopped PROVE TypeOK'
  <2>1. ManagerOK'
    BY <1>29 DEF Stopped, ManagerOK
  <2>2. AggregatorOK' /\ BridgeOK' /\ AdapterOK' /\ TasksOK'
    BY <1>29 DEF Stopped, AggregatorOK, BridgeOK, AdapterOK, TasksOK
  <2> QED BY <2>1, <2>2
<1>30. ASSUME Flush PROVE TypeOK'
  <2>1. AggregatorOK'
    BY <1>30, StoppingIsEvent, PublishTyped DEF Flush, AggregatorOK
  <2>2. ManagerOK'
    BY <1>30 DEF Flush, ManagerOK
  <2>3. BridgeOK' /\ AdapterOK' /\ TasksOK'
    BY <1>30 DEF Flush, BridgeOK, AdapterOK, TasksOK
  <2> QED BY <2>1, <2>2, <2>3
<1>31. CASE UNCHANGED vars
    BY <1>31 DEF AggregatorOK, BridgeOK, AdapterOK, TasksOK, ManagerOK
<1> QED
    BY <1>1, <1>2, <1>3, <1>4, <1>5, <1>6, <1>7, <1>8,
       <1>9, <1>10, <1>11, <1>12, <1>13, <1>14, <1>15, <1>16,
       <1>17, <1>18, <1>19, <1>20, <1>21, <1>22, <1>23, <1>24,
       <1>25, <1>26, <1>27, <1>28, <1>29, <1>30, <1>31
    DEF Next, Actor, WorkerStep, EndpointStep, ManagerStep

-----------------------------------------------------------------------------
(* What the invariants rest on.                                            *)

(* An instance whose removal has joined its tasks keeps none.              *)
LEMMA RemovalStep ==
    ASSUME TypeOK, RemovalFormed, [Next]_vars
    PROVE  RemovalFormed'
<1> USE Constants DEF vars, aggregatorVars, aggregateVars, busVars, bridgeVars,
        adapterVars, taskVars, managerVars, endpointFrame, TasksGone
<1>1. ASSUME UNCHANGED <<worker, endpoint, present, op, running>> PROVE RemovalFormed'
    BY <1>1 DEF RemovalFormed, Joinless
<1>2. ASSUME NEW i \in Instances, worker[i] # "off", NEW w,
             worker' = [worker EXCEPT ![i] = w],
             UNCHANGED <<endpoint, present, op, running>>
      PROVE  RemovalFormed'
    BY <1>2 DEF RemovalFormed, Joinless, TypeOK, TasksOK
<1>3. ASSUME NEW i \in Instances, endpoint[i] # "off", NEW w,
             endpoint' = [endpoint EXCEPT ![i] = w],
             UNCHANGED <<worker, present, op, running>>
      PROVE  RemovalFormed'
    BY <1>3 DEF RemovalFormed, Joinless, TypeOK, TasksOK
<1>4. ASSUME Actor \/ Subscriber PROVE RemovalFormed'
    BY <1>1, <1>4 DEF Actor, Subscriber, Answer
<1>5. ASSUME NEW p \in Publishers, Stamp(p) \/ Send(p) PROVE RemovalFormed'
    BY <1>1, <1>5 DEF Stamp, Send
<1>6. ASSUME NEW i \in Instances, OpenSession(i) \/ WorkerStep(i) PROVE RemovalFormed'
  <2>1. CASE OpenSession(i)
    BY <1>1, <2>1 DEF OpenSession
  <2>2. CASE WorkerStep(i)
    BY <1>2, <2>2 DEF WorkerStep, Poll, PollFails, PollDone, FailureDone, WorkerCancelled,
                      WorkerCloses
  <2> QED BY <1>6, <2>1, <2>2
<1>7. ASSUME NEW i \in Instances, EndpointStep(i) PROVE RemovalFormed'
  <2>1. ASSUME NEW accepted \in BOOLEAN, ReadBack(i, accepted) PROVE RemovalFormed'
    <3>1. CASE UNCHANGED endpoint
      BY <1>1, <2>1, <3>1 DEF ReadBack
    <3>2. CASE endpoint' = [endpoint EXCEPT ![i] = "observing"]
      BY <1>3, <2>1, <3>2 DEF ReadBack
    <3> QED BY <2>1, <3>1, <3>2 DEF ReadBack
  <2>2. CASE ReadBackDone(i) \/ ReadsAdvanced(i) \/ Confirm(i)
    BY <1>3, <2>2 DEF ReadBackDone, ReadsAdvanced, Confirm
  <2>3. CASE ConfirmDone(i) \/ EndpointCancelled(i)
    BY <1>3, <2>3 DEF ConfirmDone, EndpointCancelled
  <2> QED BY <1>7, <2>1, <2>2, <2>3 DEF EndpointStep
<1>8. ASSUME NEW i \in Instances, AddInstance(i) PROVE RemovalFormed'
    BY <1>8 DEF AddInstance, Begins, Spawn, RemovalFormed, Joinless
<1>9. ASSUME NEW i \in Instances, RemoveInstance(i) PROVE RemovalFormed'
  <2>1. op' \in Op
    BY <1>9 DEF RemoveInstance, Op, TypeOK, AdapterOK
  <2>2. op = Nil /\ op'.kind = "remove" /\ op'.inst = i /\ op'.at = "stop"
    BY <1>9 DEF RemoveInstance, Begins
  <2>3. op' # Nil
    BY <2>1
  <2>4. UNCHANGED <<worker, endpoint, running>> /\ present' = present \ {i}
    BY <1>9 DEF RemoveInstance
  <2> QED BY <2>2, <2>3, <2>4 DEF RemovalFormed, Joinless
<1>10. ASSUME StartManager PROVE RemovalFormed'
    BY <1>10 DEF StartManager, Begins, Spawn, RemovalFormed, Joinless
<1>11. ASSUME StopIdleManager \/ StopManager PROVE RemovalFormed'
  <2>1. CASE StopIdleManager
    BY <1>1, <2>1 DEF StopIdleManager
  <2>2. CASE StopManager
    <3>1. op' = [kind |-> "stop", at |-> "join"] /\ op = Nil
        BY <2>2 DEF StopManager, Begins
    <3>2. op' \in Op /\ op'.kind = "stop" /\ op'.at = "join"
        BY <3>1 DEF Op
    <3>3. op' # Nil
        BY <3>2
    <3> QED BY <2>2, <3>1, <3>2, <3>3 DEF StopManager, RemovalFormed, Joinless
  <2> QED BY <1>11, <2>1, <2>2
<1>12. ASSUME ManagerStep PROVE RemovalFormed'
  <2> USE DEF RemovalFormed, Joinless, Joined, TypeOK, ManagerOK, Op
  <2>1. CASE StopWorker
    BY <2>1 DEF StopWorker
  <2>2. CASE Retire
    BY <2>2 DEF Retire
  <2>3. CASE Disconnect
    BY <2>3 DEF Disconnect
  <2>4. CASE Removed
    BY <2>4 DEF Removed
  <2>5. CASE AnnounceStop
    BY <2>5 DEF AnnounceStop
  <2>6. CASE Stopped \/ Flush
    BY <2>6 DEF Stopped, Flush
  <2> QED BY <1>12, <2>1, <2>2, <2>3, <2>4, <2>5, <2>6 DEF ManagerStep
<1>13. CASE UNCHANGED vars
    BY <1>1, <1>13
<1> QED
    BY <1>4, <1>5, <1>6, <1>7, <1>8, <1>9, <1>10, <1>11, <1>12, <1>13 DEF Next

(* The endpoint keeps the read-back of the write that it will confirm.     *)
LEMMA ReadBackStep ==
    ASSUME TypeOK, ReadBackKept, [Next]_vars
    PROVE  ReadBackKept'
<1> USE Constants DEF vars, aggregatorVars, aggregateVars, busVars, bridgeVars,
        adapterVars, taskVars, managerVars, endpointFrame
<1>1. ASSUME UNCHANGED <<endpoint, readback>> PROVE ReadBackKept'
    BY <1>1 DEF ReadBackKept
<1>2. ASSUME NEW i \in Instances, NEW w,
             endpoint' = [endpoint EXCEPT ![i] = w], UNCHANGED readback,
             w \in {"readback", "advancing"} => readback[i] # Nil
      PROVE  ReadBackKept'
    BY <1>2 DEF ReadBackKept, TypeOK, TasksOK
<1>3. ASSUME Actor \/ Subscriber PROVE ReadBackKept'
    BY <1>1, <1>3 DEF Actor, Subscriber, Answer
<1>4. ASSUME NEW p \in Publishers, Stamp(p) \/ Send(p) PROVE ReadBackKept'
    BY <1>1, <1>4 DEF Stamp, Send
<1>5. ASSUME NEW i \in Instances, OpenSession(i) \/ WorkerStep(i) PROVE ReadBackKept'
    BY <1>1, <1>5 DEF OpenSession, WorkerStep, Poll, PollFails, PollDone, FailureDone,
                      WorkerCancelled, WorkerCloses
<1>6. ASSUME NEW i \in Instances, EndpointStep(i) PROVE ReadBackKept'
  <2>1. ASSUME NEW accepted \in BOOLEAN, ReadBack(i, accepted) PROVE ReadBackKept'
    <3>1. CASE UNCHANGED <<readback, endpoint>>
      BY <1>1, <3>1
    <3>2. CASE \E r \in Reading :
                  /\ readback' = [readback EXCEPT ![i] = IF accepted THEN r ELSE Nil]
                  /\ endpoint' = [endpoint EXCEPT ![i] = "observing"]
      BY <3>2 DEF ReadBackKept, TypeOK, TasksOK
    <3> QED BY <2>1, <3>1, <3>2 DEF ReadBack
  <2>2. CASE ReadBackDone(i)
    BY <1>2, <2>2 DEF ReadBackDone
  <2>3. CASE ReadsAdvanced(i)
    BY <1>2, <2>3 DEF ReadsAdvanced, ReadBackKept
  <2>4. CASE Confirm(i) \/ ConfirmDone(i) \/ EndpointCancelled(i)
    BY <1>2, <2>4 DEF Confirm, ConfirmDone, EndpointCancelled
  <2> QED BY <1>6, <2>1, <2>2, <2>3, <2>4 DEF EndpointStep
<1>7. ASSUME NEW i \in Instances, AddInstance(i) \/ RemoveInstance(i) PROVE ReadBackKept'
    BY <1>7 DEF AddInstance, RemoveInstance, Spawn, ReadBackKept
<1>8. ASSUME StartManager \/ StopManager \/ StopIdleManager PROVE ReadBackKept'
    BY <1>8 DEF StartManager, StopManager, StopIdleManager, Spawn, ReadBackKept
<1>9. ASSUME ManagerStep PROVE ReadBackKept'
    BY <1>1, <1>9 DEF ManagerStep, StopWorker, Retire, Disconnect, Removed, AnnounceStop,
                      Stopped, Flush
<1>10. CASE UNCHANGED vars
    BY <1>1, <1>10
<1> QED
    BY <1>3, <1>4, <1>5, <1>6, <1>7, <1>8, <1>9, <1>10 DEF Next

(* Whoever has a submission is in the phase that waits for it.              *)
LEMMA JobsStep ==
    ASSUME TypeOK, JobsFormed, ReadBackKept, RemovalFormed, [Next]_vars
    PROVE  JobsFormed'
<1> USE Constants, Tasks DEF vars, aggregatorVars, aggregateVars, busVars, bridgeVars,
        adapterVars, taskVars, managerVars, endpointFrame
<1>1. ASSUME UNCHANGED <<job, worker, endpoint, op>> PROVE JobsFormed'
    BY <1>1 DEF JobsFormed, SameSession
<1>2. job \in [Publishers -> Job \cup {Nil}] /\ op \in Op \cup {Nil}
      /\ worker \in [Instances -> {"off", "poll", "observing", "failing", "closing"}]
      /\ endpoint \in [Instances -> {"off", "idle", "observing", "readback", "advancing",
                                     "confirming"}]
    BY DEF TypeOK, BridgeOK, ManagerOK, TasksOK
(* A task that waits for nothing goes on.                                   *)
<1>3. ASSUME NEW i \in Instances, job[Worker(i)] = Nil, NEW w,
             worker' = [worker EXCEPT ![i] = w], UNCHANGED <<job, endpoint, op>>
      PROVE  JobsFormed'
    BY <1>2, <1>3 DEF JobsFormed, SameSession
<1>4. ASSUME NEW i \in Instances, job[Endpoint(i)] = Nil, NEW w,
             endpoint' = [endpoint EXCEPT ![i] = w], UNCHANGED <<job, worker, op>>
      PROVE  JobsFormed'
    BY <1>2, <1>4 DEF JobsFormed, SameSession
(* A task submits.                                                          *)
<1>5. ASSUME NEW i \in Instances, NEW w \in {"observing", "failing"},
             worker' = [worker EXCEPT ![i] = w], UNCHANGED <<endpoint, op>>,
             NEW type \in {"observation", "failure"}, NEW e, NEW r,
             type = "observation" => e = r.epoch,
             Wants(Worker(i), i, type, e, r, 0)
      PROVE  JobsFormed'
    BY <1>2, <1>5 DEF JobsFormed, SameSession, Wants
<1>6. ASSUME NEW i \in Instances, NEW w \in {"observing", "advancing", "confirming"},
             endpoint' = [endpoint EXCEPT ![i] = w], UNCHANGED <<worker, op>>,
             NEW type \in ReadingTypes, NEW e, NEW r,
             type = "observation" => e = r.epoch,
             Wants(Endpoint(i), i, type, e, r, 0)
      PROVE  JobsFormed'
    BY <1>2, <1>6 DEF JobsFormed, SameSession, Wants, ReadingTypes
(* A submission moves on, or ends.                                          *)
<1>7. ASSUME NEW p \in Publishers, job[p] # Nil, NEW x,
             job' = [job EXCEPT ![p] = x], UNCHANGED <<worker, endpoint, op>>,
             \/ x = Nil
             \/ /\ x.update.by = p /\ x.update.source = job[p].update.source
                /\ x.update.type = job[p].update.type
                /\ x.phase # "want" /\ SameSession(x.update)
      PROVE  JobsFormed'
    BY <1>2, <1>7 DEF JobsFormed, SameSession
<1>8. ASSUME Actor PROVE JobsFormed'
  <2>1. CASE Commit /\ UNCHANGED <<bridgeVars, adapterVars, taskVars, managerVars>>
    BY <1>1, <2>1
  <2>2. CASE Answer
    <3>1. CASE UNCHANGED job
      BY <1>1, <2>2, <3>1 DEF Answer
    <3>2. CASE /\ job[acting.update.by] = [phase |-> "queued", update |-> acting.update]
               /\ job' = [job EXCEPT ![acting.update.by] = Nil]
      <4>1. acting.update \in Update /\ acting.update.by \in Publishers
          BY <2>2 DEF Answer, PublishEchoes, TypeOK, AggregatorOK, Update
      <4>2. [phase |-> "queued", update |-> acting.update] \in Job
          BY <4>1 DEF Job
      <4>3. job[acting.update.by] # Nil
          BY <3>2, <4>2
      <4> QED BY <1>7, <2>2, <3>2, <4>1, <4>3 DEF Answer
    <3> QED BY <2>2, <3>1, <3>2 DEF Answer
  <2> QED BY <1>8, <2>1, <2>2 DEF Actor
<1>9. ASSUME Subscriber PROVE JobsFormed'
    BY <1>1, <1>9 DEF Subscriber
<1>10. ASSUME NEW p \in Publishers, Stamp(p) PROVE JobsFormed'
  <2> DEFINE u == job[p].update
             e == IF u.epoch = 0 THEN laneEpoch[u.source] ELSE u.epoch
             v == [u EXCEPT !.epoch = e, !.seq = laneSeq[u.source] + 1]
  <2>1. job[p] # Nil /\ u \in Update /\ u.by = p /\ SameSession(u)
    BY <1>2, <1>10 DEF Stamp, Job, JobsFormed
  <2>2. u.type = "observation" => e = u.epoch
    BY <2>1 DEF SameSession, Update, ReadingTypes, PlainTypes, Reading
  <2>3. /\ v.by = p /\ v.source = u.source /\ v.type = u.type
        /\ v.reading = u.reading /\ v.epoch = e
    <3> HIDE DEF e
    <3> QED BY <2>1 DEF Update
  <2>4. job' = [job EXCEPT ![p] = [phase |-> "stamped", update |-> v]]
    BY <1>10 DEF Stamp
  <2>5. UNCHANGED <<worker, endpoint, op>>
    BY <1>10 DEF Stamp
  <2> HIDE DEF u, e, v
  <2>6. SameSession(v)
    BY <2>1, <2>2, <2>3 DEF SameSession
  <2> QED BY <1>7, <2>1, <2>3, <2>4, <2>5, <2>6 DEF u
<1>11. ASSUME NEW p \in Publishers, Send(p) PROVE JobsFormed'
    BY <1>2, <1>7, <1>11 DEF Send, JobsFormed, Job
<1>12. ASSUME NEW i \in Instances, OpenSession(i) \/ WorkerStep(i) PROVE JobsFormed'
  <2>1. CASE OpenSession(i)
    BY <1>1, <2>1 DEF OpenSession
  <2>2. CASE Poll(i)
    <3>1. PICK r \in Reading : Wants(Worker(i), i, "observation", r.epoch, r, 0)
        BY <2>2 DEF Poll
    <3> QED BY <1>5, <2>2, <3>1 DEF Poll
  <2>3. CASE PollFails(i)
    BY <1>5, <2>3 DEF PollFails
  <2>4. CASE PollDone(i) \/ FailureDone(i)
    BY <1>3, <2>4 DEF PollDone, FailureDone
  <2>5. CASE WorkerCancelled(i)
    BY <1>2, <2>5 DEF WorkerCancelled, JobsFormed, SameSession
  <2>6. CASE WorkerCloses(i)
    <3>1. job[Worker(i)] = Nil
        BY <2>6 DEF WorkerCloses, JobsFormed
    <3> QED BY <1>3, <2>6, <3>1 DEF WorkerCloses
  <2> QED BY <1>12, <2>1, <2>2, <2>3, <2>4, <2>5, <2>6 DEF WorkerStep
<1>13. ASSUME NEW i \in Instances, EndpointStep(i) PROVE JobsFormed'
  <2>1. ASSUME NEW accepted \in BOOLEAN, ReadBack(i, accepted) PROVE JobsFormed'
    <3>1. CASE UNCHANGED <<job, readback, endpoint>>
      BY <1>1, <2>1, <3>1 DEF ReadBack
    <3>2. CASE /\ endpoint' = [endpoint EXCEPT ![i] = "observing"]
               /\ \E r \in Reading : Wants(Endpoint(i), i, "observation", r.epoch, r, 0)
      <4>1. PICK r \in Reading : Wants(Endpoint(i), i, "observation", r.epoch, r, 0)
          BY <3>2
      <4> QED BY <1>6, <2>1, <3>2, <4>1 DEF ReadBack, ReadingTypes
    <3> QED BY <2>1, <3>1, <3>2 DEF ReadBack
  <2>2. CASE ReadBackDone(i)
    BY <1>4, <2>2 DEF ReadBackDone
  <2>3. CASE ReadsAdvanced(i)
    <3>1. job[Endpoint(i)] = Nil
        BY <2>3 DEF ReadsAdvanced, JobsFormed
    <3>2. CASE UNCHANGED job
      BY <1>4, <2>3, <3>1, <3>2 DEF ReadsAdvanced
    <3>3. CASE /\ endpoint' = [endpoint EXCEPT ![i] = "advancing"]
               /\ \E r \in Reading : Wants(Endpoint(i), i, "advanced", r.epoch, r, 0)
      <4>1. PICK r \in Reading : Wants(Endpoint(i), i, "advanced", r.epoch, r, 0)
          BY <3>3
      <4> QED BY <1>6, <2>3, <3>3, <4>1 DEF ReadsAdvanced, ReadingTypes
    <3> QED BY <2>3, <3>2, <3>3 DEF ReadsAdvanced
  <2>4. CASE Confirm(i)
    BY <1>6, <2>4 DEF Confirm, ReadingTypes
  <2>5. CASE ConfirmDone(i)
    BY <1>4, <2>5 DEF ConfirmDone
  <2>6. CASE EndpointCancelled(i)
    <3>1. job[Endpoint(i)] = Nil
        BY <2>6 DEF EndpointCancelled, JobsFormed
    <3> QED BY <1>4, <2>6, <3>1 DEF EndpointCancelled
  <2> QED BY <1>13, <2>1, <2>2, <2>3, <2>4, <2>5, <2>6 DEF EndpointStep
<1>14. ASSUME NEW I \in SUBSET Instances, \A i \in I : TasksGone(i), op = Nil,
              Spawn(I), UNCHANGED <<job, op>>
       PROVE  JobsFormed'
  <2>1. \A i \in I : job[Worker(i)] = Nil /\ job[Endpoint(i)] = Nil
    BY <1>14 DEF JobsFormed, TasksGone
  <2> QED BY <1>14, <2>1 DEF JobsFormed, SameSession, Spawn
<1>15. ASSUME NEW i \in Instances, AddInstance(i) PROVE JobsFormed'
  <2>1. TasksGone(i) /\ op = Nil
    BY <1>15 DEF AddInstance, Begins, RemovalFormed, Joinless
  <2>2. CASE Spawn({i})
    BY <1>14, <1>15, <2>1, <2>2 DEF AddInstance
  <2>3. CASE UNCHANGED taskVars
    BY <1>1, <1>15, <2>3 DEF AddInstance
  <2> QED BY <1>15, <2>2, <2>3 DEF AddInstance
<1>16. ASSUME StartManager PROVE JobsFormed'
  <2>1. op = Nil /\ \A i \in present : TasksGone(i)
    BY <1>16 DEF StartManager, Begins, RemovalFormed, TypeOK, ManagerOK
  <2> QED BY <1>14, <1>16, <2>1 DEF StartManager, TypeOK, ManagerOK
<1>17. ASSUME NEW i \in Instances, RemoveInstance(i) PROVE JobsFormed'
    BY <1>17 DEF RemoveInstance, Begins, JobsFormed, SameSession
<1>18. ASSUME StopManager \/ StopIdleManager PROVE JobsFormed'
    BY <1>18 DEF StopManager, StopIdleManager, Begins, JobsFormed, SameSession
<1>19. ASSUME ManagerStep PROVE JobsFormed'
  <2>1. CASE StopWorker
    BY <1>2, <2>1 DEF StopWorker, JobsFormed, SameSession, Op
  <2>2. CASE Retire
    <3>1. op.inst \in Instances /\ op' \in Op /\ op'.at = "retire"
          /\ op'.kind = "remove" /\ op'.inst = op.inst
        BY <1>2, <2>2 DEF Retire, Op
    <3> QED BY <1>2, <2>2, <3>1 DEF Retire, Wants, JobsFormed, SameSession
  <2>3. CASE Disconnect
    <3>1. op.inst \in Instances /\ op \in Op /\ op.kind = "remove"
        BY <1>2, <2>3 DEF Disconnect, Op
    <3>2. CASE ~connected[op.inst]
        BY <2>3, <3>2 DEF Disconnect, JobsFormed, SameSession
    <3>3. CASE connected[op.inst]
      <4>1. op' \in Op /\ op'.at = "disconnect" /\ op'.kind = "remove" /\ op'.inst = op.inst
          BY <2>3, <3>1, <3>3 DEF Disconnect, Op
      <4> QED BY <1>2, <2>3, <3>1, <3>3, <4>1 DEF Disconnect, Wants, JobsFormed, SameSession
    <3> QED BY <3>2, <3>3
  <2>4. CASE Removed
    BY <2>4 DEF Removed, JobsFormed, SameSession
  <2>5. CASE AnnounceStop
    <3> DEFINE u == [source |-> Lifecycle, epoch |-> 0, seq |-> marker, type |-> "stopped",
                     reading |-> Nil, retires |-> 0, by |-> Manager]
    <3>1. op' \in Op /\ op'.at = "announce" /\ op'.kind = "stop"
        BY <1>2, <2>5 DEF AnnounceStop, Op
    <3>2. /\ u.by = Manager /\ u.type = "stopped" /\ u.source = Lifecycle
          /\ job' = [job EXCEPT ![Manager] = [phase |-> "stamped", update |-> u]]
        BY <2>5 DEF AnnounceStop
    <3> HIDE DEF u
    <3> QED BY <1>2, <2>5, <3>1, <3>2 DEF AnnounceStop, JobsFormed, SameSession
  <2>6. CASE Stopped \/ Flush
    BY <2>6 DEF Stopped, Flush, JobsFormed, SameSession
  <2> QED BY <1>19, <2>1, <2>2, <2>3, <2>4, <2>5, <2>6 DEF ManagerStep
<1>20. CASE UNCHANGED vars
    BY <1>1, <1>20
<1> QED
    BY <1>8, <1>9, <1>10, <1>11, <1>12, <1>13, <1>15, <1>16, <1>17, <1>18, <1>19, <1>20
    DEF Next

(* The manager waits for each update that it has in the queue.             *)
LEMMA QueueStep ==
    ASSUME TypeOK, JobsFormed, QueueFormed, [Next]_vars
    PROVE  QueueFormed'
<1> USE Constants, Tasks DEF vars, aggregatorVars, aggregateVars, busVars, bridgeVars,
        adapterVars, taskVars, managerVars, endpointFrame
<1>1. ASSUME UNCHANGED <<ingress, acting>>, UNCHANGED job[Manager] PROVE QueueFormed'
    BY <1>1 DEF QueueFormed, SameSession
<1>2. job \in [Publishers -> Job \cup {Nil}] /\ ingress \in Seq(Update)
    BY DEF TypeOK, BridgeOK, AggregatorOK
<1>3. ASSUME NEW p \in Publishers, p # Manager, NEW i, NEW type, NEW e, NEW r, NEW retires,
             Wants(p, i, type, e, r, retires), UNCHANGED <<ingress, acting>>
      PROVE  QueueFormed'
    BY <1>1, <1>2, <1>3 DEF Wants
(* The manager submits only when nothing of its own is under way.           *)
<1>4. ASSUME job[Manager] = Nil \/ job[Manager].phase # "queued", UNCHANGED <<ingress, acting>>
      PROVE  QueueFormed'
  <2>1. \A x \in Update : [phase |-> "queued", update |-> x] \in Job
    BY DEF Job
  <2>2. ASSUME NEW x \in Update, job[Manager] = [phase |-> "queued", update |-> x] PROVE FALSE
    <3>1. job[Manager] # Nil
        BY <2>1, <2>2
    <3>2. job[Manager].phase = "queued"
        BY <2>2
    <3> QED BY <1>4, <3>1, <3>2
  <2>3. /\ \A k \in 1 .. Len(ingress) : ingress[k] \in Update
        /\ acting # Nil => acting.update \in Update
    BY <1>2 DEF TypeOK, AggregatorOK
  <2> QED BY <1>4, <2>2, <2>3 DEF QueueFormed, SameSession
<1>5. ASSUME Commit, UNCHANGED job PROVE QueueFormed'
  <2> DEFINE u == Head(ingress)
  <2>1. /\ ingress # << >> /\ acting = Nil /\ ingress' = Tail(ingress)
        /\ acting'.update = u
    BY <1>5 DEF Commit
  <2>2. /\ Len(ingress) \in Nat /\ Len(ingress) > 0 /\ u = ingress[1]
        /\ Len(ingress') = Len(ingress) - 1
        /\ \A k \in 1 .. Len(ingress') : ingress'[k] = ingress[k + 1] /\ k + 1 \in 1 .. Len(ingress)
    BY <1>2, <2>1
  <2> HIDE DEF u
  <2>3. /\ \A k \in 1 .. Len(ingress') :
             /\ SameSession(ingress'[k])
             /\ ingress'[k].type = "removed" => ingress'[k].by = Manager
             /\ ingress'[k].by = Manager =>
                    job[Manager] = [phase |-> "queued", update |-> ingress'[k]]
        /\ \A k, l \in 1 .. Len(ingress') :
             k < l /\ ingress'[k].by = Manager => ingress'[l].by # Manager
    <3>1. \A k \in 1 .. Len(ingress) :
             /\ SameSession(ingress[k])
             /\ ingress[k].type = "removed" => ingress[k].by = Manager
             /\ ingress[k].by = Manager =>
                    job[Manager] = [phase |-> "queued", update |-> ingress[k]]
        BY DEF QueueFormed
    <3>2. ASSUME NEW k \in 1 .. Len(ingress'), NEW l \in 1 .. Len(ingress'), k < l,
                 ingress'[k].by = Manager
          PROVE  ingress'[l].by # Manager
      <4>1. /\ k + 1 \in 1 .. Len(ingress) /\ l + 1 \in 1 .. Len(ingress)
            /\ ingress'[k] = ingress[k + 1] /\ ingress'[l] = ingress[l + 1]
          BY <2>2
      <4>2. k + 1 < l + 1
          BY <3>2
      <4>3. \A m, n \in 1 .. Len(ingress) :
               m < n /\ ingress[m].by = Manager => ingress[n].by # Manager
          BY DEF QueueFormed
      <4> HIDE DEF QueueFormed
      <4> QED BY <3>2, <4>1, <4>2, <4>3
    <3>3. ASSUME NEW k \in 1 .. Len(ingress')
          PROVE  /\ SameSession(ingress'[k])
                 /\ ingress'[k].type = "removed" => ingress'[k].by = Manager
                 /\ ingress'[k].by = Manager =>
                        job[Manager] = [phase |-> "queued", update |-> ingress'[k]]
      <4>1. ingress'[k] = ingress[k + 1] /\ k + 1 \in 1 .. Len(ingress)
          BY <2>2
      <4> QED BY <3>1, <4>1
    <3> QED BY <3>2, <3>3
  <2>4. u.by = Manager =>
            /\ job[Manager] = [phase |-> "queued", update |-> u]
            /\ \A k \in 1 .. Len(ingress') : ingress'[k].by # Manager
    BY <2>2 DEF QueueFormed
  <2> QED BY <1>5, <2>1, <2>3, <2>4 DEF QueueFormed, SameSession
<1>6. ASSUME Answer PROVE QueueFormed'
  <2>1. acting # Nil /\ acting' = Nil /\ UNCHANGED ingress
    BY <1>6 DEF Answer, PublishEchoes
  <2>2. CASE acting.update.by = Manager
    BY <2>1, <2>2 DEF QueueFormed, SameSession
  <2>3. CASE acting.update.by # Manager
    <3>1. UNCHANGED job[Manager]
        BY <1>2, <1>6, <2>3 DEF Answer
    <3> QED BY <2>1, <3>1 DEF QueueFormed, SameSession
  <2> QED BY <2>2, <2>3
<1>7. ASSUME Subscriber PROVE QueueFormed'
    BY <1>1, <1>7 DEF Subscriber, Deliver, Lag
<1>8. ASSUME NEW p \in Publishers, Stamp(p) PROVE QueueFormed'
  <2>1. CASE p = Manager
    <3>1. job[Manager].phase # "queued" /\ UNCHANGED <<ingress, acting>>
        BY <1>8, <2>1 DEF Stamp
    <3> QED BY <1>4, <3>1
  <2>2. CASE p # Manager
    <3>1. UNCHANGED job[Manager] /\ UNCHANGED <<ingress, acting>>
        BY <1>2, <1>8, <2>2 DEF Stamp
    <3> QED BY <1>1, <3>1
  <2> QED BY <2>1, <2>2
<1>9. ASSUME NEW p \in Publishers, Send(p) PROVE QueueFormed'
  <2> DEFINE u == job[p].update
             n == Len(ingress) + 1
  <2>1. /\ u \in Update /\ u.by = p /\ SameSession(u) /\ (u.type = "removed" => p = Manager)
        /\ job[p] \in Job /\ job[p].phase = "stamped"
    BY <1>2, <1>9 DEF Send, JobsFormed, Job
  <2>2. /\ Len(ingress) \in Nat /\ Len(ingress') = n /\ ingress'[n] = u
        /\ \A k \in 1 .. Len(ingress) : ingress'[k] = ingress[k] /\ k \in 1 .. n /\ k # n
        /\ \A k \in 1 .. n : k \in 1 .. Len(ingress) \/ k = n
    BY <1>2, <1>9 DEF Send
  <2>3. UNCHANGED acting
    BY <1>9 DEF Send
  <2>4. CASE p = Manager
    <3>1. job'[Manager] = [phase |-> "queued", update |-> u]
        BY <1>9, <2>1, <2>4, <1>2 DEF Send, Job
    <3>2. \A x : job[Manager] # [phase |-> "queued", update |-> x]
        BY <2>1, <2>4
    <3>3. /\ \A k \in 1 .. Len(ingress) : ingress[k].by # Manager
          /\ ~(acting # Nil /\ acting.update.by = Manager)
        BY <3>2 DEF QueueFormed
    <3> HIDE DEF u
    <3>4. \A k \in 1 .. n : ingress'[k].by = Manager => k = n
        BY <2>2, <3>3
    <3>5. \A k \in 1 .. n : SameSession(ingress'[k])
                            /\ (ingress'[k].type = "removed" => ingress'[k].by = Manager)
        BY <2>1, <2>2 DEF QueueFormed
    <3>6. \A k, l \in 1 .. n : k < l => k # n
        BY <2>2
    <3> QED BY <2>2, <2>3, <3>1, <3>3, <3>4, <3>5, <3>6 DEF QueueFormed, SameSession
  <2>5. CASE p # Manager
    <3>1. UNCHANGED job[Manager]
        BY <1>2, <1>9, <2>5 DEF Send
    <3> HIDE DEF u
    <3>2. u.by # Manager
        BY <2>1, <2>5
    <3>3. \A k \in 1 .. n : SameSession(ingress'[k])
                            /\ (ingress'[k].type = "removed" => ingress'[k].by = Manager)
        BY <2>1, <2>2, <2>5 DEF QueueFormed
    <3>4. \A k \in 1 .. n : ingress'[k].by = Manager => 
              k \in 1 .. Len(ingress) /\ ingress'[k] = ingress[k]
        BY <2>2, <3>2
    <3>5. \A k \in 1 .. n : ingress'[k].by = Manager =>
              job[Manager] = [phase |-> "queued", update |-> ingress'[k]]
        BY <3>4 DEF QueueFormed
    <3>6. \A k, l \in 1 .. n : k < l /\ ingress'[k].by = Manager => ingress'[l].by # Manager
        BY <2>2, <3>2, <3>4 DEF QueueFormed
    <3>7. acting # Nil /\ acting.update.by = Manager =>
             /\ job[Manager] = [phase |-> "queued", update |-> acting.update]
             /\ \A k \in 1 .. n : ingress'[k].by # Manager
        BY <3>4 DEF QueueFormed
    <3> QED BY <2>2, <2>3, <3>1, <3>3, <3>5, <3>6, <3>7 DEF QueueFormed, SameSession
  <2> QED BY <2>4, <2>5
<1>10. ASSUME NEW i \in Instances, OpenSession(i) \/ WorkerStep(i) PROVE QueueFormed'
  <2>1. CASE OpenSession(i) \/ PollDone(i) \/ FailureDone(i) \/ WorkerCloses(i)
    BY <1>1, <2>1 DEF OpenSession, PollDone, FailureDone, WorkerCloses
  <2>2. CASE Poll(i) \/ PollFails(i)
    BY <1>3, <2>2 DEF Poll, PollFails
  <2>3. CASE WorkerCancelled(i)
    BY <1>1, <1>2, <2>3 DEF WorkerCancelled
  <2> QED BY <1>10, <2>1, <2>2, <2>3 DEF WorkerStep
<1>11. ASSUME NEW i \in Instances, EndpointStep(i) PROVE QueueFormed'
  <2>1. ASSUME NEW accepted \in BOOLEAN, ReadBack(i, accepted) PROVE QueueFormed'
    <3>1. UNCHANGED <<ingress, acting>>
      BY <2>1 DEF ReadBack
    <3>2. UNCHANGED job \/ \E r \in Reading : Wants(Endpoint(i), i, "observation", r.epoch, r, 0)
      BY <2>1 DEF ReadBack
    <3> QED BY <1>1, <1>3, <3>1, <3>2
  <2>2. CASE ReadsAdvanced(i)
    <3>1. UNCHANGED <<ingress, acting>>
      BY <2>2 DEF ReadsAdvanced
    <3>2. UNCHANGED job \/ \E r \in Reading : Wants(Endpoint(i), i, "advanced", r.epoch, r, 0)
      BY <2>2 DEF ReadsAdvanced
    <3> QED BY <1>1, <1>3, <3>1, <3>2
  <2>3. CASE Confirm(i)
    BY <1>3, <2>3 DEF Confirm
  <2>4. CASE ReadBackDone(i) \/ ConfirmDone(i) \/ EndpointCancelled(i)
    BY <1>1, <2>4 DEF ReadBackDone, ConfirmDone, EndpointCancelled
  <2> QED BY <1>11, <2>1, <2>2, <2>3, <2>4 DEF EndpointStep
<1>12. ASSUME NEW i \in Instances, AddInstance(i) \/ RemoveInstance(i) PROVE QueueFormed'
    BY <1>1, <1>12 DEF AddInstance, RemoveInstance
<1>13. ASSUME StartManager \/ StopManager \/ StopIdleManager PROVE QueueFormed'
    BY <1>1, <1>13 DEF StartManager, StopManager, StopIdleManager
<1>14. ASSUME ManagerStep PROVE QueueFormed'
  <2>1. CASE Retire \/ AnnounceStop
    <3>1. op.at = "join" /\ UNCHANGED <<ingress, acting>>
        BY <2>1 DEF Retire, AnnounceStop
    <3>2. job[Manager] = Nil
        BY <3>1 DEF JobsFormed
    <3> QED BY <1>4, <3>1, <3>2
  <2>2. CASE Disconnect
    <3>1. job[Manager] = Nil /\ UNCHANGED <<ingress, acting>>
        BY <2>2 DEF Disconnect
    <3> QED BY <1>4, <3>1
  <2>3. CASE StopWorker \/ Removed \/ Stopped \/ Flush
    BY <1>1, <2>3 DEF StopWorker, Removed, Stopped, Flush
  <2> QED BY <1>14, <2>1, <2>2, <2>3 DEF ManagerStep
<1>15. CASE UNCHANGED vars
    BY <1>1, <1>15
<1> QED
    BY <1>5, <1>6, <1>7, <1>8, <1>9, <1>10, <1>11, <1>12, <1>13, <1>14, <1>15
    DEF Next, Actor

(* Only the actor writes the documents, and only it and Send move the queue. *)
LEMMA Writers ==
    ASSUME [Next]_vars
    PROVE  \/ Commit
           \/ (\E p \in Publishers : Send(p)) /\ UNCHANGED <<cursor, snapshot>>
           \/ UNCHANGED <<ingress, cursor, snapshot>>
<1> USE DEF vars, aggregatorVars, aggregateVars, busVars, bridgeVars, adapterVars, taskVars,
        managerVars, endpointFrame
<1>1. ASSUME Actor \/ Subscriber PROVE Commit \/ UNCHANGED <<ingress, cursor, snapshot>>
    BY <1>1 DEF Actor, Subscriber, Answer, PublishEchoes, Deliver, Lag
<1>2. ASSUME NEW p \in Publishers, Stamp(p) \/ Send(p)
      PROVE  \/ Send(p) /\ UNCHANGED <<cursor, snapshot>>
             \/ UNCHANGED <<ingress, cursor, snapshot>>
    BY <1>2 DEF Stamp, Send
<1>3. ASSUME NEW i \in Instances, OpenSession(i) \/ WorkerStep(i) \/ EndpointStep(i)
      PROVE  UNCHANGED <<ingress, cursor, snapshot>>
    BY <1>3 DEF OpenSession, WorkerStep, Poll, PollFails, PollDone, FailureDone,
                WorkerCancelled, WorkerCloses, EndpointStep, ReadBack, ReadBackDone,
                ReadsAdvanced, Confirm, ConfirmDone, EndpointCancelled
<1>4. ASSUME NEW i \in Instances, AddInstance(i) \/ RemoveInstance(i)
      PROVE  UNCHANGED <<ingress, cursor, snapshot>>
    BY <1>4 DEF AddInstance, RemoveInstance
<1>5. ASSUME StartManager \/ StopManager \/ StopIdleManager \/ ManagerStep
      PROVE  UNCHANGED <<ingress, cursor, snapshot>>
    BY <1>5 DEF StartManager, StopManager, StopIdleManager, ManagerStep, StopWorker, Retire,
                Disconnect, Removed, AnnounceStop, Stopped, Flush
<1> QED BY <1>1, <1>2, <1>3, <1>4, <1>5 DEF Next

(* While a retirement is queued the tasks of its instance are gone.        *)
LEMMA RetirementJoined ==
    ASSUME TypeOK, JobsFormed, QueueFormed, RemovalFormed,
           NEW k \in 1 .. Len(ingress), ingress[k].type = "removed"
    PROVE  /\ ingress[k].source \in Instances
           /\ job[Worker(ingress[k].source)] = Nil /\ job[Endpoint(ingress[k].source)] = Nil
           /\ job[Manager] # Nil /\ job[Manager].phase = "queued"
<1> USE Constants
<1> DEFINE u == ingress[k]
<1>1. u \in Update /\ u.source \in Instances
    BY DEF TypeOK, AggregatorOK, Update, ReadingTypes, PlainTypes
<1>2. job[Manager] = [phase |-> "queued", update |-> u]
    BY DEF QueueFormed
<1>3. [phase |-> "queued", update |-> u] \in Job
    BY <1>1 DEF Job
<1> HIDE DEF u
<1>4. job[Manager] # Nil /\ job[Manager].phase = "queued" /\ job[Manager].update = u
    BY <1>2, <1>3
<1>5. /\ op \in Op /\ op.at \in {"retire", "disconnect", "announce"}
      /\ op.kind = "remove" => u.source = op.inst
      /\ op.kind = "stop" => u.source = Lifecycle
    BY <1>4 DEF JobsFormed, TypeOK, ManagerOK
<1>6. op.kind = "remove" /\ op.at \in {"retire", "disconnect"} /\ u.source = op.inst
    BY <1>1, <1>5 DEF Op
<1>7. Joinless(u.source)
    BY <1>4, <1>5, <1>6 DEF Joinless, RemovalFormed, JobsFormed
<1>8. TasksGone(u.source)
    BY <1>1, <1>7 DEF RemovalFormed
<1> QED BY <1>1, <1>4, <1>8 DEF JobsFormed, TasksGone, u

(* Nothing of its instance is queued behind a retirement.                  *)
LEMMA RetirementStep ==
    ASSUME TypeOK, JobsFormed, QueueFormed, RemovalFormed, RetirementLast, [Next]_vars
    PROVE  RetirementLast'
<1>1. CASE Commit
  <2>1. ingress \in Seq(Update) /\ ingress # << >> /\ ingress' = Tail(ingress)
    BY <1>1 DEF Commit, TypeOK, AggregatorOK
  <2>2. /\ Len(ingress) \in Nat /\ Len(ingress') = Len(ingress) - 1
        /\ \A k \in 1 .. Len(ingress') : ingress'[k] = ingress[k + 1] /\ k + 1 \in 1 .. Len(ingress)
    BY <2>1
  <2> QED BY <2>2 DEF RetirementLast
<1>2. ASSUME NEW p \in Publishers, Send(p) PROVE RetirementLast'
  <2> DEFINE n == Len(ingress) + 1
  <2>1. /\ Len(ingress) \in Nat /\ Len(ingress') = n /\ ingress'[n] = job[p].update
        /\ \A k \in 1 .. n : (k \in 1 .. Len(ingress) /\ ingress'[k] = ingress[k]) \/ k = n
    BY <1>2 DEF Send, TypeOK, AggregatorOK
  <2>2. ASSUME NEW k \in 1 .. Len(ingress), ingress[k].type = "removed"
        PROVE  job[p].update.source # ingress[k].source
    <3>1. job[p] # Nil /\ job[p].phase = "stamped"
        BY <1>2 DEF Send
    <3>2. p # Manager
        BY <2>2, <3>1, RetirementJoined
    <3>3. PICK i \in Instances : p = Worker(i) \/ p = Endpoint(i)
        BY <3>2, Tasks
    <3>4. job[p].update.source = i
        BY <3>1, <3>3 DEF JobsFormed
    <3> QED BY <2>2, <3>1, <3>3, <3>4, RetirementJoined
  <2> QED BY <2>1, <2>2 DEF RetirementLast
<1>3. CASE UNCHANGED ingress
    BY <1>3 DEF RetirementLast
<1> QED BY <1>1, <1>2, <1>3, Writers

(* A commit moves no cursor back, and replaces what a snapshot observes only by  *)
(* the reading of the very observation that it commits.                    *)
LEMMA CommitMoves ==
    ASSUME TypeOK, QueueFormed, Commit, Outcome(Head(ingress)) = "committed"
    PROVE  LET u == Head(ingress) IN
           /\ u \in Update /\ SameSession(u)
           /\ \A i \in Instances : cursor[i] # Nil =>
                 cursor'[i] # Nil /\ cursor[i].epoch <= cursor'[i].epoch
           /\ cursor'[u.source] # Nil /\ cursor'[u.source].epoch = u.epoch
           /\ \A i \in Instances : snapshot'[i] # Nil =>
                 \/ snapshot[i] # Nil /\ snapshot'[i].obs = snapshot[i].obs
                 \/ u.type = "observation" /\ u.source = i /\ snapshot'[i].obs = u.reading
<1> USE Constants
<1> DEFINE u == Head(ingress)
<1>a. ingress \in Seq(Update) /\ ingress # << >>
    BY DEF Commit, TypeOK, AggregatorOK
<1>b. 1 \in 1 .. Len(ingress) /\ u = ingress[1] /\ ingress[1] \in Update
    BY <1>a
<1>1. u \in Update /\ SameSession(u)
    BY <1>b DEF QueueFormed
<1> HIDE DEF u
<1>2. /\ cursor' = [cursor EXCEPT ![u.source] = [epoch |-> u.epoch, seq |-> u.seq]]
      /\ snapshot' = NextSnapshot(u) /\ ~Stale(u)
    BY DEF Commit, Outcome, u, aggregateVars
<1>3. /\ cursor \in [Sources -> Cursor \cup {Nil}]
      /\ snapshot \in [Instances -> Snapshot \cup {Nil}]
    BY DEF TypeOK, AggregatorOK
<1>4. u.source \in Sources /\ [epoch |-> u.epoch, seq |-> u.seq] \in Cursor
    BY <1>1 DEF Update, Sources, Cursor
<1>5. cursor[u.source] # Nil => cursor[u.source].epoch <= u.epoch
    BY <1>1, <1>2, <1>3, <1>4 DEF Stale, Cursor
<1>6. /\ cursor'[u.source] # Nil /\ cursor'[u.source].epoch = u.epoch
      /\ \A i \in Instances : cursor[i] # Nil =>
            cursor'[i] # Nil /\ cursor[i].epoch <= cursor'[i].epoch
    BY <1>2, <1>3, <1>4, <1>5 DEF Sources, Cursor
<1>7. ASSUME NEW i \in Instances, snapshot'[i] # Nil
      PROVE  \/ snapshot[i] # Nil /\ snapshot'[i].obs = snapshot[i].obs
             \/ u.type = "observation" /\ u.source = i /\ snapshot'[i].obs = u.reading
  <2>1. CASE u.type = "observation"
    BY <1>2, <1>3, <1>7, <2>1 DEF NextSnapshot, Observed
  <2>2. CASE u.type = "advanced"
    BY <1>2, <1>3, <1>7, <2>2 DEF NextSnapshot, WithAdvanced, Snapshot
  <2>3. CASE u.type = "failure"
    BY <1>2, <1>3, <1>7, <2>3 DEF NextSnapshot, LastKnown, Snapshot
  <2>4. CASE u.type = "stopped"
    BY <1>2, <1>3, <1>7, <2>4 DEF NextSnapshot, Retires, LastKnown, Snapshot
  <2>5. CASE u.type \notin {"observation", "advanced", "failure", "stopped"}
    BY <1>2, <1>3, <1>7, <2>5 DEF NextSnapshot, Retires
  <2> QED BY <2>1, <2>2, <2>3, <2>4, <2>5
<1> QED BY <1>1, <1>6, <1>7 DEF u

(* The cursor of an instance has seen the session that its snapshot shows. *)
LEMMA CursorStep ==
    ASSUME TypeOK, QueueFormed, SnapshotBehindCursor, [Next]_vars
    PROVE  SnapshotBehindCursor'
<1>1. CASE Commit /\ Outcome(Head(ingress)) = "committed"
  <2> DEFINE u == Head(ingress)
  <2>1. /\ u \in Update /\ SameSession(u)
        /\ \A i \in Instances : cursor[i] # Nil =>
              cursor'[i] # Nil /\ cursor[i].epoch <= cursor'[i].epoch
        /\ cursor'[u.source] # Nil /\ cursor'[u.source].epoch = u.epoch
        /\ \A i \in Instances : snapshot'[i] # Nil =>
              \/ snapshot[i] # Nil /\ snapshot'[i].obs = snapshot[i].obs
              \/ u.type = "observation" /\ u.source = i /\ snapshot'[i].obs = u.reading
    BY <1>1, CommitMoves
  <2> HIDE DEF u
  <2>2. cursor' \in [Sources -> Cursor \cup {Nil}]
    BY <1>1, CommitTyped DEF TypeOK, AggregatorOK
  <2>3. ASSUME NEW i \in Instances, snapshot'[i] # Nil
        PROVE  cursor'[i] # Nil /\ snapshot'[i].obs.epoch <= cursor'[i].epoch
    <3>1. CASE snapshot[i] # Nil /\ snapshot'[i].obs = snapshot[i].obs
      <4>1. cursor[i] # Nil /\ snapshot[i].obs.epoch <= cursor[i].epoch
          BY <3>1 DEF SnapshotBehindCursor
      <4>2. cursor'[i] # Nil /\ cursor[i].epoch <= cursor'[i].epoch
          BY <2>1, <4>1
      <4>3. cursor[i].epoch \in Int /\ cursor'[i].epoch \in Int /\ snapshot[i].obs.epoch \in Int
          BY <2>2, <3>1, <4>1, <4>2, Constants
          DEF TypeOK, AggregatorOK, Sources, Cursor, Snapshot, Reading
      <4> QED BY <3>1, <4>1, <4>2, <4>3
    <3>2. CASE u.type = "observation" /\ u.source = i /\ snapshot'[i].obs = u.reading
      <4>1. u.epoch = u.reading.epoch /\ u.epoch \in Int
          BY <2>1, <3>2, Constants DEF SameSession, Update
      <4> QED BY <2>1, <3>2, <4>1
    <3> QED BY <2>1, <2>3, <3>1, <3>2
  <2> QED BY <2>3 DEF SnapshotBehindCursor
<1>2. CASE UNCHANGED <<cursor, snapshot>>
    BY <1>2 DEF SnapshotBehindCursor
<1>3. CASE Commit /\ Outcome(Head(ingress)) # "committed"
    BY <1>2, <1>3 DEF Commit, aggregateVars
<1> QED BY <1>1, <1>2, <1>3, Writers

(* The options beside an observation are of its own session.               *)
LEMMA AdvancedStep ==
    ASSUME TypeOK, AdvancedOfItsSession, [Next]_vars
    PROVE  AdvancedOfItsSession'
<1> USE Constants
<1> DEFINE Own(s) == s # Nil =>
               /\ s.pipeline.epoch = s.obs.epoch
               /\ s.advanced # Nil => s.advanced.epoch = s.obs.epoch
<1>1. CASE Commit /\ Outcome(Head(ingress)) = "committed"
  <2> DEFINE u == Head(ingress)
  <2>1. snapshot' = NextSnapshot(u) /\ u \in Update
    BY <1>1 DEF Commit, aggregateVars, TypeOK, AggregatorOK
  <2>2. snapshot \in [Instances -> Snapshot \cup {Nil}] /\ \A i \in Instances : Own(snapshot[i])
    BY DEF AdvancedOfItsSession, TypeOK, AggregatorOK
  <2>3. /\ u.type = "observation" => u.reading \in Reading
        /\ u.type = "advanced" => u.reading \in Reading
    BY <2>1 DEF Update, ReadingTypes, PlainTypes
  <2> HIDE DEF u
  <2>4. ASSUME NEW s \in Snapshot \cup {Nil}, Own(s), NEW r \in Reading
        PROVE  Own(Observed(s, r)) /\ Own(WithAdvanced(s, r)) /\ Own(LastKnown(s))
    BY <2>4 DEF Observed, WithAdvanced, LastKnown, Snapshot
  <2>5. ASSUME NEW s \in Snapshot \cup {Nil}, Own(s)
        PROVE  Own(LastKnown(s))
    BY <2>5 DEF LastKnown, Snapshot
  <2> HIDE DEF Own
  <2>6. ASSUME NEW i \in Instances PROVE Own(snapshot'[i])
    <3>a. snapshot[i] \in Snapshot \cup {Nil} /\ Own(snapshot[i])
      BY <2>2
    <3>1. CASE u.type = "observation"
      <4>1. snapshot' = [snapshot EXCEPT ![u.source] = Observed(snapshot[u.source], u.reading)]
          BY <2>1, <2>2, <3>1, Constants DEF NextSnapshot, Retires
      <4>2. i # u.source => snapshot'[i] = snapshot[i]
          BY <2>2, <4>1
      <4>3. i = u.source => snapshot'[i] = Observed(snapshot[i], u.reading)
          BY <2>2, <4>1
      <4> QED BY <2>3, <2>4, <3>a, <3>1, <4>2, <4>3
    <3>2. CASE u.type = "advanced"
      <4>1. snapshot' = [snapshot EXCEPT ![u.source] = WithAdvanced(snapshot[u.source], u.reading)]
          BY <2>1, <2>2, <3>2, Constants DEF NextSnapshot, Retires
      <4>2. i # u.source => snapshot'[i] = snapshot[i]
          BY <2>2, <4>1
      <4>3. i = u.source => snapshot'[i] = WithAdvanced(snapshot[i], u.reading)
          BY <2>2, <4>1
      <4> QED BY <2>3, <2>4, <3>a, <3>2, <4>2, <4>3
    <3>3. CASE u.type = "failure"
      <4>1. snapshot' = [snapshot EXCEPT ![u.source] = LastKnown(snapshot[u.source])]
          BY <2>1, <2>2, <3>3, Constants DEF NextSnapshot, Retires
      <4>2. i # u.source => snapshot'[i] = snapshot[i]
          BY <2>2, <4>1
      <4>3. i = u.source => snapshot'[i] = LastKnown(snapshot[i])
          BY <2>2, <4>1
      <4> QED BY <2>5, <3>a, <4>2, <4>3
    <3>4. CASE u.type = "stopped"
      BY <2>1, <2>2, <2>5, <3>4 DEF NextSnapshot, Retires
    <3>5. CASE u.type \notin {"observation", "advanced", "failure", "stopped"}
      <4>1. Own(Nil)
          BY DEF Own
      <4> QED BY <2>1, <2>2, <3>5, <4>1 DEF NextSnapshot, Retires
    <3> QED BY <3>1, <3>2, <3>3, <3>4, <3>5
  <2> QED BY <2>6 DEF AdvancedOfItsSession, Own
<1>2. CASE UNCHANGED snapshot
    BY <1>2 DEF AdvancedOfItsSession
<1>3. CASE Commit /\ Outcome(Head(ingress)) # "committed"
    BY <1>2, <1>3 DEF Commit, aggregateVars
<1> QED BY <1>1, <1>2, <1>3, Writers

(* Nothing waits, nothing was read, no task runs.                          *)
LEMMA InitInductive == Init => Inductive
<1> SUFFICES ASSUME Init PROVE Inductive
    OBVIOUS
<1> USE Constants
<1>1. AggregatorOK
    BY DEF Init, AggregatorInit, AggregatorOK
<1>2. BridgeOK /\ AdapterOK
    BY DEF Init, BridgeOK, AdapterOK
<1>3. TasksOK
    BY DEF Init, TasksOK
<1>4. ManagerOK
  <2>1. present \in SUBSET Instances /\ running \in BOOLEAN /\ flushDue \in BOOLEAN
      BY DEF Init
  <2>2. floor \in [Instances -> 0 .. MaxEpoch] /\ ops \in 0 .. MaxOps
      BY DEF Init
  <2>3. op \in Op \cup {Nil}
      BY DEF Init
  <2> QED BY <2>1, <2>2, <2>3 DEF ManagerOK
<1>5. JobsFormed
    BY Tasks DEF Init, JobsFormed
<1>6. ReadBackKept /\ QueueFormed /\ RetirementLast
    BY DEF Init, AggregatorInit, ReadBackKept, QueueFormed, RetirementLast
<1>7. RemovalFormed
    BY DEF Init, RemovalFormed, Joinless, TasksGone
<1>8. SnapshotBehindCursor /\ AdvancedOfItsSession
    BY DEF Init, AggregatorInit, SnapshotBehindCursor, AdvancedOfItsSession
<1> QED BY <1>1, <1>2, <1>3, <1>4, <1>5, <1>6, <1>7, <1>8 DEF Inductive, TypeOK

LEMMA InductiveStep == Inductive /\ [Next]_vars => Inductive'
BY TypeStep, JobsStep, ReadBackStep, QueueStep, RemovalStep, RetirementStep, CursorStep,
   AdvancedStep DEF Inductive

LEMMA AlwaysInductive == Spec => []Inductive
BY InitInductive, InductiveStep, PTL DEF Spec

(* Every variable keeps its type: no epoch, sequence or reading that the     *)
(* bridge and the aggregate hand on is one that no daemon produced.        *)
THEOREM TypeCorrect == Spec => []TypeOK
<1>1. Inductive => TypeOK
    BY DEF Inductive
<1> QED BY <1>1, AlwaysInductive, PTL

(* The pipeline and the advanced options of a snapshot were read in the      *)
(* session of its observation (HqpObservation and HqpAdvanced in             *)
(* commit_reliable_projection).                                            *)
THEOREM OptionsOfTheirSession == Spec => []AdvancedOfItsSession
<1>1. Inductive => AdvancedOfItsSession
    BY DEF Inductive
<1> QED BY <1>1, AlwaysInductive, PTL

(* No child of an instance publishes behind the retirement of the instance:  *)
(* remove_instance joins the worker and the endpoint before it publishes,    *)
(* and the queue is first in, first out.                                   *)
THEOREM NothingFollowsRetirement == Spec => []NothingBehindRetirement
<1>1. Inductive => NothingBehindRetirement
  <2> SUFFICES ASSUME Inductive, NEW i \in Instances, Joinless(i)
               PROVE  /\ job[Worker(i)] = Nil /\ job[Endpoint(i)] = Nil
                      /\ \A k, l \in 1 .. Len(ingress) :
                            /\ k < l
                            /\ ingress[k].source = i /\ ingress[k].type = "removed"
                            => ingress[l].source # i
      BY DEF NothingBehindRetirement
  <2>1. TasksGone(i)
      BY DEF Inductive, RemovalFormed
  <2>2. job[Worker(i)] = Nil /\ job[Endpoint(i)] = Nil
      BY <2>1 DEF Inductive, JobsFormed, TasksGone
  <2>3. \A k, l \in 1 .. Len(ingress) :
            k < l /\ ingress[k].type = "removed" => ingress[l].source # ingress[k].source
      BY DEF Inductive, RetirementLast
  <2> QED BY <2>2, <2>3
<1> QED BY <1>1, AlwaysInductive, PTL

(* An update is taken up by a commit and by nothing else.                  *)
LEMMA OnlyCommitTakes ==
    ASSUME [Next]_vars, acting = Nil, acting' # Nil
    PROVE  Commit
<1> USE DEF vars, aggregatorVars, aggregateVars, busVars, bridgeVars, adapterVars, taskVars,
        managerVars, endpointFrame
<1>1. ASSUME Actor \/ Subscriber PROVE Commit
    BY <1>1 DEF Actor, Subscriber, Answer, PublishEchoes, Deliver, Lag
<1>2. ASSUME NEW p \in Publishers, Stamp(p) \/ Send(p) PROVE FALSE
    BY <1>2 DEF Stamp, Send
<1>3. ASSUME NEW i \in Instances, OpenSession(i) \/ WorkerStep(i) \/ EndpointStep(i)
      PROVE  FALSE
    BY <1>3 DEF OpenSession, WorkerStep, Poll, PollFails, PollDone, FailureDone,
                WorkerCancelled, WorkerCloses, EndpointStep, ReadBack, ReadBackDone,
                ReadsAdvanced, Confirm, ConfirmDone, EndpointCancelled
<1>4. ASSUME NEW i \in Instances, AddInstance(i) \/ RemoveInstance(i) PROVE FALSE
    BY <1>4 DEF AddInstance, RemoveInstance
<1>5. ASSUME StartManager \/ StopManager \/ StopIdleManager \/ ManagerStep PROVE FALSE
    BY <1>5 DEF StartManager, StopManager, StopIdleManager, ManagerStep, StopWorker, Retire,
                Disconnect, Removed, AnnounceStop, Stopped, Flush
<1> QED BY <1>1, <1>2, <1>3, <1>4, <1>5 DEF Next

(* An observation that is not stale is as new as the snapshot's session.   *)
LEMMA CommittedIsShown ==
    ASSUME Inductive, Commit, Outcome(Head(ingress)) = "committed",
           Head(ingress).type = "observation"
    PROVE  LET u == Head(ingress) IN
           /\ u.source \in Instances /\ u.reading \in Reading
           /\ zones'[u.source] = u.reading
           /\ snapshot'[u.source] # Nil /\ snapshot'[u.source].obs = u.reading
<1> USE Constants
<1> DEFINE u == Head(ingress)
<1> DEFINE r == u.reading
<1> DEFINE s == snapshot[u.source]
<1>1. TypeOK /\ QueueFormed /\ SnapshotBehindCursor
    BY DEF Inductive
<1>2. u \in Update /\ SameSession(u)
    BY <1>1, CommitMoves
<1>3. ~Stale(u)
    BY DEF Outcome
<1>4. zones' = WrittenBy(u, zones) /\ snapshot' = NextSnapshot(u)
    BY DEF Commit, aggregateVars
<1>5. u.type = "observation"
    OBVIOUS
<1> HIDE DEF u
<1>6. u.source \in Instances /\ r \in Reading /\ u.epoch = r.epoch /\ u.epoch \in 0 .. MaxEpoch
    BY <1>2, <1>5 DEF SameSession, Update, ReadingTypes, PlainTypes
<1>7. /\ zones \in [Instances -> Reading \cup {Nil}]
      /\ snapshot \in [Instances -> Snapshot \cup {Nil}]
      /\ cursor \in [Sources -> Cursor \cup {Nil}]
    BY <1>1 DEF TypeOK, AggregatorOK
<1>8. zones'[u.source] = r
  <2>1. zones' = [zones EXCEPT ![u.source] = r]
      BY <1>4, <1>5, <1>7 DEF WrittenBy, Retires
  <2> QED BY <1>6, <1>7, <2>1
<1>9. ASSUME s # Nil PROVE ~(s.obs.epoch > r.epoch)
  <2>1. cursor[u.source] # Nil /\ s.obs.epoch <= cursor[u.source].epoch
      BY <1>1, <1>6, <1>9 DEF SnapshotBehindCursor
  <2>2. cursor[u.source].epoch \in Int /\ s.obs.epoch \in Int
      BY <1>6, <1>7, <1>9, <2>1 DEF Sources, Cursor, Snapshot, Reading
  <2>3. ~(u.epoch < cursor[u.source].epoch)
      BY <1>3, <2>1 DEF Stale
  <2> QED BY <1>6, <2>1, <2>2, <2>3
<1>10. snapshot'[u.source] = Observed(s, r)
  <2>1. snapshot' = [snapshot EXCEPT ![u.source] = Observed(s, r)]
      BY <1>4, <1>5, <1>7 DEF NextSnapshot, Retires
  <2> QED BY <1>6, <1>7, <2>1
<1>11. /\ Observed(s, r).obs = r
       /\ Observed(s, r) # Nil
  <2>1. Observed(s, r) = [obs |-> r, pipeline |-> r, live |-> TRUE,
                          advanced |-> IF s # Nil /\ s.obs.epoch = r.epoch
                                       THEN s.advanced ELSE Nil]
      BY <1>9 DEF Observed
  <2>2. Observed(s, r).obs = r
      BY <2>1
  <2>3. s \in Snapshot \cup {Nil}
      BY <1>6, <1>7
  <2> HIDE DEF r, s
  <2>4. Observed(s, r) \in Snapshot
      BY <1>6, <2>1, <2>3 DEF Snapshot
  <2> QED BY <2>2, <2>4
<1> QED BY <1>6, <1>8, <1>10, <1>11 DEF u

(* The zone, which has no fence of its own, is written together with the     *)
(* snapshot, which has one: an observation that commit_reliable_projection   *)
(* admits is shown by both.                                                *)
THEOREM PairsTogether == Spec => PairsCommittedTogether
<1>1. ASSUME Inductive, [Next]_vars, NEW i \in Instances, NEW r \in Reading,
             acting = Nil, acting' # Nil,
             acting'.outcome = "committed", acting'.update.type = "observation",
             acting'.update.source = i, acting'.update.reading = r
      PROVE  zones'[i] = r /\ snapshot'[i] # Nil /\ snapshot'[i].obs = r
  <2>1. Commit
      BY <1>1, OnlyCommitTakes
  <2>2. acting'.update = Head(ingress) /\ acting'.outcome = Outcome(Head(ingress))
      BY <2>1 DEF Commit
  <2> QED BY <1>1, <2>1, <2>2, CommittedIsShown
<1>2. Inductive /\ [Next]_vars =>
          [\A i \in Instances : \A r \in Reading :
              /\ acting = Nil /\ acting' # Nil
              /\ acting'.outcome = "committed" /\ acting'.update.type = "observation"
              /\ acting'.update.source = i /\ acting'.update.reading = r
              => zones'[i] = r /\ snapshot'[i] # Nil /\ snapshot'[i].obs = r]_vars
    BY <1>1
<1> QED BY <1>2, AlwaysInductive, PTL DEF Spec, PairsCommittedTogether

-----------------------------------------------------------------------------
(* Late hints converge.  The invariants below are inductive relative to     *)
(* Inductive.                                                               *)

StopRuns == op # Nil /\ op.kind = "stop"

(* The actor has committed the stop, or there is none.                      *)
StopIsCommitted ==
    /\ ~running
    /\ StopRuns => /\ op.at = "announce"
                   /\ job[Manager] = Nil \/ (acting # Nil /\ acting.update.by = Manager)

(* The updates of the lifecycle are numbered by the bridge's marker.        *)
Newer(n) == cursor[Lifecycle] # Nil => cursor[Lifecycle].epoch = 0 /\ cursor[Lifecycle].seq < n
StopsNumbered ==
    /\ Newer(marker)
    /\ job[Manager] # Nil =>
          /\ job[Manager].update.type \in {"removed", "stopped"}
          /\ job[Manager].update.type = "stopped" /\ job[Manager].phase = "stamped" =>
                Newer(job[Manager].update.seq) /\ job[Manager].update.seq < marker
    /\ \A k \in 1 .. Len(ingress) : ingress[k].type = "stopped" =>
          /\ ingress[k].by = Manager
          /\ Newer(ingress[k].seq) /\ ingress[k].seq < marker

(* Nothing is observed behind the stop, and nothing is canonical after it.  *)
StopIsLast ==
    /\ StopRuns => ~running
    /\ flushDue => ~running /\ ~StopRuns
    /\ \A k, l \in 1 .. Len(ingress) :
          k < l /\ ingress[k].type = "stopped" => ingress[l].type # "observation"
    /\ StopIsCommitted =>
          /\ \A i \in Instances : canonical[i] = Nil
          /\ \A k \in 1 .. Len(ingress) : ingress[k].type # "observation"
          /\ acting # Nil => acting.update.type # "observation"

(* Only an observation announces a zone.                                    *)
EchoFormed ==
    acting # Nil => \A k \in 1 .. Len(acting.echo) :
        acting.echo[k].type = "found" => acting.update.type = "observation"

(* What the subscriber has not yet received: after the events s, of which   *)
(* the last about i counts, the zone of i is v.                             *)
Due == bus \o (IF acting = Nil THEN << >> ELSE acting.echo)
Leaves(e) == IF e.type = "found" THEN e.reading ELSE Nil
Silent(s, i) == \A k \in 1 .. Len(s) : ~Concerns(s[k], i)
LastLeaves(s, i, v) ==
    \A k \in 1 .. Len(s) :
        Concerns(s[k], i) /\ (\A l \in 1 .. Len(s) : l > k => ~Concerns(s[l], i))
        => Leaves(s[k]) = v
ComesTo(i, v) ==
    /\ LastLeaves(Due, i, v)
    /\ Silent(Due, i) => i \in lost \/ zones[i] = v

Converging ==
    \A i \in Instances :
        /\ canonical[i] # Nil /\ ~StopRuns => ComesTo(i, canonical[i])
        /\ ~running /\ ~StopRuns /\ ~flushDue => ComesTo(i, Nil)

EchoInv == StopsNumbered /\ StopIsLast /\ EchoFormed /\ Converging

(* The steps that neither the aggregate nor a stop notices.                 *)
Unnoticed ==
    /\ UNCHANGED <<ingress, acting, cursor, zones, canonical, bus, lost, running, flushDue>>
    /\ marker' \in {marker, marker + 1}
    /\ \/ op' = op /\ job'[Manager] = job[Manager]
       \/ /\ ~StopRuns /\ ~StopRuns'
          /\ \/ job'[Manager] \in {Nil, job[Manager]}
             \/ job'[Manager].update.type = "removed"

(* A submission of the manager is a stop just when it stops.                *)
LEMMA ManagersJob ==
    ASSUME TypeOK, JobsFormed, StopsNumbered, job[Manager] # Nil
    PROVE  /\ job[Manager].update \in Update /\ job[Manager].update.by = Manager
           /\ job[Manager].update.type = "stopped" <=> StopRuns
           /\ StopRuns => op.at = "announce" /\ job[Manager].phase # "want"
           /\ ~StopRuns => job[Manager].update.type = "removed"
<1> USE Constants, Tasks
<1>1. job[Manager] \in Job /\ op \in Op \cup {Nil}
    BY DEF TypeOK, BridgeOK, ManagerOK
<1>2. job[Manager].update \in Update /\ job[Manager].update.by = Manager
    BY <1>1 DEF Job, JobsFormed
<1>3. /\ op # Nil /\ op.at \in {"retire", "disconnect", "announce"}
      /\ op.kind = "remove" => job[Manager].update.source = op.inst
      /\ op.kind = "stop" => job[Manager].update.source = Lifecycle
      /\ job[Manager].phase = "want" => job[Manager].update.type # "stopped"
      /\ job[Manager].update.type \in {"removed", "stopped"}
    BY DEF JobsFormed, StopsNumbered
<1>4. op \in Op
    BY <1>1, <1>3
<1>5. \/ op.kind = "remove" /\ op.inst \in Instances
      \/ op.kind = "stop" /\ op.at \in {"join", "announce"}
    BY <1>4 DEF Op
<1>6. \A u \in Update :
          /\ u.source \in Instances => u.type # "stopped"
          /\ u.source = Lifecycle => u.type = "stopped"
    BY DEF Update, ReadingTypes, PlainTypes
<1> QED BY <1>2, <1>3, <1>5, <1>6 DEF StopRuns

(* A stop that has joined the tasks leaves none that could publish.         *)
StopIsOver == ~running /\ (StopRuns => op.at # "join")
LEMMA TasksStopped ==
    ASSUME JobsFormed, RemovalFormed, StopIsOver, NEW i \in Instances
    PROVE  job[Worker(i)] = Nil /\ job[Endpoint(i)] = Nil
<1>1. TasksGone(i)
    BY DEF RemovalFormed, StopIsOver, StopRuns
<1>2. worker[i] = "off" /\ endpoint[i] = "off"
    BY <1>1 DEF TasksGone
<1> QED BY <1>2 DEF JobsFormed

(* While a stop is queued no task of an instance has anything to publish.   *)
LEMMA StopQueued ==
    ASSUME Inductive, StopsNumbered, StopIsLast,
           NEW k \in 1 .. Len(ingress), ingress[k].type = "stopped"
    PROVE  /\ StopRuns /\ ~running
           /\ job[Manager] = [phase |-> "queued", update |-> ingress[k]]
           /\ job[Manager] # Nil /\ job[Manager].phase = "queued"
           /\ \A i \in Instances : job[Worker(i)] = Nil /\ job[Endpoint(i)] = Nil
<1> USE Constants, Tasks
<1>1. TypeOK /\ JobsFormed /\ QueueFormed /\ RemovalFormed
    BY DEF Inductive
<1>2. ingress[k] \in Update /\ ingress[k].by = Manager
    BY <1>1 DEF StopsNumbered, TypeOK, AggregatorOK
<1>3. job[Manager] = [phase |-> "queued", update |-> ingress[k]]
    BY <1>1, <1>2 DEF QueueFormed
<1>4. [phase |-> "queued", update |-> ingress[k]] \in Job
    BY <1>2 DEF Job
<1>5. job[Manager] # Nil /\ job[Manager].phase = "queued" /\ job[Manager].update = ingress[k]
    BY <1>3, <1>4
<1>6. StopRuns /\ op.at = "announce"
    BY <1>1, <1>5, ManagersJob
<1>7. ~running
    BY <1>6 DEF StopIsLast
<1>8. StopIsOver
    BY <1>6, <1>7 DEF StopIsOver
<1>9. ASSUME NEW i \in Instances PROVE job[Worker(i)] = Nil /\ job[Endpoint(i)] = Nil
    BY ONLY <1>1, <1>8, <1>9, TasksStopped, Zenon
<1> QED BY <1>3, <1>5, <1>6, <1>7, <1>9, Zenon

(* Once the stop is committed only the manager has anything to publish.     *)
LEMMA StoppedTasks ==
    ASSUME TypeOK, JobsFormed, RemovalFormed, StopIsCommitted
    PROVE  \A p \in Publishers : job[p] # Nil => p = Manager
<1>1. StopIsOver
    BY DEF StopIsOver, StopIsCommitted
<1> QED BY <1>1, Tasks, TasksStopped

(* The steps, as far as the hints and the stop are concerned.               *)
LEMMA EchoMoves ==
    ASSUME TypeOK, JobsFormed, StopsNumbered, [Next]_vars
    PROVE  \/ Commit /\ UNCHANGED <<job, marker, op, running, flushDue>>
           \/ Answer
           \/ (Deliver \/ Lag) /\ UNCHANGED <<job, marker, op, running, flushDue>>
           \/ \E p \in Publishers : Send(p)
           \/ StartManager \/ StopManager \/ StopIdleManager
           \/ AnnounceStop \/ Stopped \/ Flush
           \/ Unnoticed
<1> USE Constants, Tasks DEF vars, aggregatorVars, aggregateVars, busVars, bridgeVars,
        adapterVars, taskVars, managerVars, endpointFrame
<1>0. job \in [Publishers -> Job \cup {Nil}] /\ op \in Op \cup {Nil}
    BY DEF TypeOK, BridgeOK, ManagerOK
<1>1. CASE Actor \/ Subscriber
    BY <1>1 DEF Actor, Subscriber
<1>2. ASSUME NEW p \in Publishers, Stamp(p) PROVE Unnoticed
  <2>1. CASE p = Manager
    <3>1. job[Manager] # Nil /\ job[Manager].phase = "want"
      BY <1>2, <2>1 DEF Stamp
    <3>2. ~StopRuns /\ job[Manager].update.type = "removed"
      BY <3>1, ManagersJob
    <3>3. job'[Manager].update.type = "removed"
      <4>1. job[Manager].update \in Update
        BY <3>1, ManagersJob
      <4>2. ASSUME NEW u \in Update, NEW e, NEW n, u.type = "removed"
            PROVE  [u EXCEPT !.epoch = e, !.seq = n].type = "removed"
        BY <4>2 DEF Update
      <4> DEFINE u == job[Manager].update
                 e == IF u.epoch = 0 THEN laneEpoch[u.source] ELSE u.epoch
                 n == laneSeq[u.source] + 1
      <4>3. job'[Manager] = [phase |-> "stamped", update |-> [u EXCEPT !.epoch = e, !.seq = n]]
        BY <1>0, <1>2, <2>1 DEF Stamp
      <4>4. u \in Update /\ u.type = "removed"
        BY <3>2, <4>1
      <4> HIDE DEF u, e, n
      <4>5. [u EXCEPT !.epoch = e, !.seq = n].type = "removed"
        BY <4>2, <4>4, Zenon
      <4>6. ASSUME NEW v, v.type = "removed", job'[Manager] = [phase |-> "stamped", update |-> v]
            PROVE  job'[Manager].update.type = "removed"
        BY ONLY <4>6
      <4> QED BY <4>3, <4>5, <4>6, Zenon
    <3> QED BY <1>2, <3>2, <3>3 DEF Stamp, Unnoticed, StopRuns
  <2>2. CASE p # Manager
    BY <1>0, <1>2, <2>2 DEF Stamp, Unnoticed
  <2> QED BY <2>1, <2>2
<1>3. ASSUME NEW i \in Instances, OpenSession(i) \/ WorkerStep(i) PROVE Unnoticed
  <2>1. /\ UNCHANGED <<ingress, acting, cursor, zones, canonical, bus, lost, running, flushDue>>
        /\ UNCHANGED <<marker, op>>
    BY <1>3 DEF OpenSession, WorkerStep, Poll, PollFails, PollDone, FailureDone,
                WorkerCancelled, WorkerCloses
  <2>2. job'[Manager] = job[Manager]
    BY <1>0, <1>3 DEF OpenSession, WorkerStep, Poll, PollFails, PollDone, FailureDone,
                WorkerCancelled, WorkerCloses, Wants
  <2> QED BY <2>1, <2>2 DEF Unnoticed
<1>4. ASSUME NEW i \in Instances, EndpointStep(i) PROVE Unnoticed
  <2>1. /\ UNCHANGED <<ingress, acting, cursor, zones, canonical, bus, lost, running, flushDue>>
        /\ op' = op /\ marker' \in {marker, marker + 1}
    BY <1>4 DEF EndpointStep, ReadBack, ReadBackDone, ReadsAdvanced, Confirm, ConfirmDone,
                EndpointCancelled
  <2>2. job'[Manager] = job[Manager]
    BY <1>0, <1>4 DEF EndpointStep, ReadBack, ReadBackDone, ReadsAdvanced, Confirm,
                ConfirmDone, EndpointCancelled, Wants
  <2> QED BY <2>1, <2>2 DEF Unnoticed
<1>5. ASSUME NEW i \in Instances, AddInstance(i) PROVE Unnoticed
    BY <1>5 DEF AddInstance, Unnoticed
<1>6. ASSUME NEW i \in Instances, RemoveInstance(i) PROVE Unnoticed
  <2>1. ~StopRuns /\ ~StopRuns' /\ UNCHANGED job
    BY <1>6 DEF RemoveInstance, Begins, StopRuns
  <2> QED BY <1>6, <2>1 DEF RemoveInstance, Unnoticed
<1>7. CASE StopWorker
  <2>1. op \in Op /\ op.kind = "remove"
    BY <1>0, <1>7 DEF StopWorker, Op
  <2>2. ~StopRuns /\ ~StopRuns' /\ UNCHANGED job
    BY <1>7, <2>1 DEF StopWorker, StopRuns, Op
  <2> QED BY <1>7, <2>2 DEF StopWorker, Unnoticed
<1>8. CASE Retire
  <2>1. op \in Op /\ op.kind = "remove"
    BY <1>0, <1>8 DEF Retire
  <2>2. ~StopRuns /\ ~StopRuns' /\ job'[Manager].update.type = "removed"
    BY <1>0, <1>8, <2>1 DEF Retire, StopRuns, Op, Wants
  <2> QED BY <1>8, <2>2 DEF Retire, Unnoticed
<1>9. CASE Disconnect
  <2>1. op \in Op /\ op.kind = "remove"
    BY <1>0, <1>9 DEF Disconnect, Op
  <2>2. ~StopRuns /\ ~StopRuns'
    BY <1>9, <2>1 DEF Disconnect, StopRuns, Op
  <2>3. job' = job \/ job'[Manager].update.type = "removed"
    BY <1>0, <1>9 DEF Disconnect, Wants
  <2> QED BY <1>9, <2>2, <2>3 DEF Disconnect, Unnoticed
<1>10. CASE Removed
  <2>1. op \in Op /\ op.kind = "remove"
    BY <1>0, <1>10 DEF Removed, Op
  <2>2. ~StopRuns /\ ~StopRuns' /\ UNCHANGED job
    BY <1>10, <2>1 DEF Removed, StopRuns, Op
  <2> QED BY <1>10, <2>2 DEF Removed, Unnoticed
<1>11. CASE UNCHANGED vars
    BY <1>11 DEF Unnoticed
<1> QED
    BY <1>1, <1>2, <1>3, <1>4, <1>5, <1>6, <1>7, <1>8, <1>9, <1>10, <1>11
       DEF Next, ManagerStep

(* A commit takes the head of the queue, and moves only its source's cursor. *)
LEMMA CommitQueue ==
    ASSUME TypeOK, Commit
    PROVE  /\ Len(ingress) \in Nat \ {0} /\ Len(ingress') = Len(ingress) - 1
           /\ Head(ingress) = ingress[1] /\ 1 \in 1 .. Len(ingress)
           /\ Head(ingress) \in Update
           /\ \A k \in 1 .. Len(ingress') :
                 ingress'[k] = ingress[k + 1] /\ k + 1 \in 1 .. Len(ingress)
           /\ \/ UNCHANGED aggregateVars /\ Outcome(Head(ingress)) # "committed"
              \/ /\ Outcome(Head(ingress)) = "committed"
                 /\ cursor' = [cursor EXCEPT ![Head(ingress).source] =
                                 [epoch |-> Head(ingress).epoch, seq |-> Head(ingress).seq]]
                 /\ canonical' = WrittenBy(Head(ingress), canonical)
                 /\ zones' = WrittenBy(Head(ingress), zones)
<1>1. ingress \in Seq(Update) /\ ingress # << >> /\ ingress' = Tail(ingress)
    BY DEF Commit, TypeOK, AggregatorOK
<1>2. /\ Len(ingress) \in Nat \ {0} /\ Len(ingress') = Len(ingress) - 1
      /\ Head(ingress) = ingress[1] /\ 1 \in 1 .. Len(ingress) /\ ingress[1] \in Update
      /\ \A k \in 1 .. Len(ingress') :
            ingress'[k] = ingress[k + 1] /\ k + 1 \in 1 .. Len(ingress)
    BY <1>1
<1> QED BY <1>2 DEF Commit, aggregateVars

(* An update of a kind but the stop is about an instance.                   *)
LEMMA UpdateSources ==
    ASSUME NEW u \in Update
    PROVE  /\ u.type = "stopped" => u.source = Lifecycle /\ u.epoch = 0
           /\ u.type # "stopped" => u.source \in Instances
           /\ u.type = "observation" => u.reading \in Reading
           /\ u.source \in Sources /\ u.seq \in Nat /\ u.epoch \in 0 .. MaxEpoch
BY Constants DEF Update, ReadingTypes, PlainTypes, Sources

(* What is sent joins the queue at its end.                                *)
LEMMA SendQueue ==
    ASSUME TypeOK, JobsFormed, NEW p \in Publishers, Send(p)
    PROVE  /\ Len(ingress) \in Nat /\ Len(ingress') = Len(ingress) + 1
           /\ ingress'[Len(ingress) + 1] = job[p].update
           /\ \A k \in 1 .. Len(ingress') :
                 (k \in 1 .. Len(ingress) /\ ingress'[k] = ingress[k]) \/ k = Len(ingress) + 1
           /\ job[p] # Nil /\ job[p].phase = "stamped" /\ job[p].update \in Update
           /\ p # Manager => job'[Manager] = job[Manager] /\ job[p].update.type # "stopped"
           /\ p = Manager => /\ job'[Manager].phase = "queued"
                             /\ job'[Manager].update = job[Manager].update
           /\ UNCHANGED <<acting, aggregateVars, busVars, marker, op, running, flushDue>>
<1> USE Constants, Tasks
<1>1. ingress \in Seq(Update) /\ job \in [Publishers -> Job \cup {Nil}]
    BY DEF TypeOK, AggregatorOK, BridgeOK
<1>2. job[p] # Nil /\ job[p] \in Job /\ job[p].phase = "stamped" /\ job[p].update \in Update
    BY <1>1 DEF Send, Job
<1>3. ingress' = Append(ingress, job[p].update) /\ job' = [job EXCEPT ![p].phase = "queued"]
    BY DEF Send
<1>4. /\ Len(ingress) \in Nat /\ Len(ingress') = Len(ingress) + 1
      /\ ingress'[Len(ingress) + 1] = job[p].update
      /\ \A k \in 1 .. Len(ingress') :
            (k \in 1 .. Len(ingress) /\ ingress'[k] = ingress[k]) \/ k = Len(ingress) + 1
    BY <1>1, <1>2, <1>3
<1>5. ASSUME p # Manager PROVE job'[Manager] = job[Manager] /\ job[p].update.type # "stopped"
  <2>1. PICK i \in Instances : p = Worker(i) \/ p = Endpoint(i)
    BY <1>5
  <2>2. job[p].update.source = i
    BY <1>2, <2>1 DEF JobsFormed
  <2>3. job[p].update.type # "stopped"
    BY <1>2, <2>2, UpdateSources
  <2> QED BY <1>1, <1>3, <1>5, <2>3
<1>6. ASSUME p = Manager
      PROVE job'[Manager].phase = "queued" /\ job'[Manager].update = job[Manager].update
    BY <1>1, <1>2, <1>3, <1>6 DEF Job
<1>7. UNCHANGED <<acting, aggregateVars, busVars, marker, op, running, flushDue>>
    BY DEF Send, managerVars
<1> QED BY <1>2, <1>4, <1>5, <1>6, <1>7

(* The stops that are under way are newer than the last one committed.      *)
LEMMA NumberedFrame ==
    ASSUME TypeOK, StopsNumbered, UNCHANGED <<ingress, cursor>>,
           marker' \in {marker, marker + 1},
           \/ job'[Manager] \in {Nil, job[Manager]}
           \/ job'[Manager].update.type = "removed"
    PROVE  StopsNumbered'
<1>1. marker \in Nat
    BY DEF TypeOK, BridgeOK
<1>2. cursor[Lifecycle] # Nil => cursor[Lifecycle].seq \in Nat
    BY Constants DEF TypeOK, AggregatorOK, Sources, Cursor
<1>3. \A n \in Nat : Newer(n)' = Newer(n)
    BY DEF Newer
<1>4. Newer(marker)'
    BY <1>1, <1>2 DEF Newer, StopsNumbered
<1>5. \A k \in 1 .. Len(ingress) : ingress[k] \in Update /\ ingress[k].seq \in Nat
    BY UpdateSources DEF TypeOK, AggregatorOK
<1>6. ASSUME NEW k \in 1 .. Len(ingress), ingress[k].type = "stopped"
      PROVE  ingress[k].by = Manager /\ Newer(ingress[k].seq)' /\ ingress[k].seq < marker'
    BY <1>1, <1>3, <1>5, <1>6 DEF StopsNumbered
<1>7. ASSUME job[Manager] # Nil, job'[Manager] = job[Manager],
             job[Manager].update.type = "stopped", job[Manager].phase = "stamped"
      PROVE  Newer(job[Manager].update.seq)' /\ job[Manager].update.seq < marker'
  <2>1. job[Manager].update.seq \in Nat
    BY <1>7, Constants, Tasks, UpdateSources DEF TypeOK, BridgeOK, Job
  <2> QED BY <1>1, <1>3, <1>7, <2>1 DEF StopsNumbered
<1> QED BY <1>4, <1>6, <1>7 DEF StopsNumbered, Newer

(* A commit leaves the lifecycle's cursor alone or moves it to the only stop. *)
LEMMA NumberedCommit ==
    ASSUME Inductive, StopsNumbered, StopIsLast, Commit, UNCHANGED <<job, marker>>
    PROVE  StopsNumbered'
<1> DEFINE u == Head(ingress)
           Now(m) == cursor'[Lifecycle] # Nil =>
                        cursor'[Lifecycle].epoch = 0 /\ cursor'[Lifecycle].seq < m
<1>1. TypeOK /\ QueueFormed
    BY DEF Inductive
<1>2. /\ Len(ingress) \in Nat \ {0} /\ Len(ingress') = Len(ingress) - 1
      /\ u = ingress[1] /\ 1 \in 1 .. Len(ingress) /\ u \in Update
      /\ \A k \in 1 .. Len(ingress') :
            ingress'[k] = ingress[k + 1] /\ k + 1 \in 1 .. Len(ingress)
      /\ \/ UNCHANGED aggregateVars /\ Outcome(u) # "committed"
         \/ /\ Outcome(u) = "committed"
            /\ cursor' = [cursor EXCEPT ![u.source] = [epoch |-> u.epoch, seq |-> u.seq]]
            /\ canonical' = WrittenBy(u, canonical)
            /\ zones' = WrittenBy(u, zones)
    BY <1>1, CommitQueue
<1> HIDE DEF u
<1>3. /\ u.type = "stopped" => u.source = Lifecycle /\ u.epoch = 0
      /\ u.type # "stopped" => u.source \in Instances
      /\ u.source \in Sources
    BY <1>2, UpdateSources
<1>4. cursor \in [Sources -> Cursor \cup {Nil}] /\ Lifecycle \in Sources
    BY <1>1 DEF TypeOK, AggregatorOK, Sources
<1>5. CASE u.type # "stopped"
  <2>1. cursor'[Lifecycle] = cursor[Lifecycle]
    BY <1>2, <1>3, <1>4, <1>5, Constants DEF aggregateVars
  <2>2. \A n : Newer(n) => Now(n)
    BY <2>1 DEF Newer
  <2>3. ASSUME NEW k \in 1 .. Len(ingress'), ingress'[k].type = "stopped"
        PROVE  /\ ingress'[k].by = Manager
               /\ Now(ingress'[k].seq) /\ ingress'[k].seq < marker'
    BY <1>2, <2>2, <2>3 DEF StopsNumbered
  <2>4. Now(marker)
    BY <2>2 DEF StopsNumbered
  <2>5. Newer(marker)'
    BY <2>4 DEF Newer
  <2>6. ASSUME job'[Manager] # Nil
        PROVE  /\ job'[Manager].update.type \in {"removed", "stopped"}
               /\ job'[Manager].update.type = "stopped" /\ job'[Manager].phase = "stamped" =>
                     Now(job'[Manager].update.seq) /\ job'[Manager].update.seq < marker'
    BY <2>2, <2>6 DEF StopsNumbered
  <2> QED BY <2>3, <2>5, <2>6 DEF StopsNumbered, Newer
<1>6. CASE u.type = "stopped"
  <2>1. u.by = Manager /\ u.seq < marker
    BY <1>2, <1>6 DEF StopsNumbered
  <2>2. ASSUME NEW k \in 1 .. Len(ingress') PROVE ingress'[k].by # Manager
    <3>1. 1 < k + 1 /\ k + 1 \in 1 .. Len(ingress) /\ ingress'[k] = ingress[k + 1]
      BY <1>2
    <3>2. ingress[k + 1].by # Manager
      BY <1>1, <1>2, <2>1, <3>1 DEF QueueFormed
    <3> QED BY <3>1, <3>2
  <2>3. \A k \in 1 .. Len(ingress') : ingress'[k].type # "stopped"
    BY <1>2, <2>2 DEF StopsNumbered
  <2>4. job[Manager].phase = "queued"
    BY <1>2, <1>6, StopQueued
  <2>5. Newer(marker)'
    BY <1>2, <1>3, <1>4, <1>6, <2>1 DEF Newer, StopsNumbered, aggregateVars
  <2>6. job[Manager] # Nil => job[Manager].update.type \in {"removed", "stopped"}
    BY DEF StopsNumbered
  <2> QED BY <2>3, <2>4, <2>5, <2>6 DEF StopsNumbered
<1> QED BY <1>5, <1>6

(* A stop is sent with the number it was stamped with.                      *)
LEMMA NumberedSend ==
    ASSUME Inductive, StopsNumbered, NEW p \in Publishers, Send(p)
    PROVE  StopsNumbered'
<1> DEFINE n == Len(ingress) + 1
           u == job[p].update
           Now(m) == cursor'[Lifecycle] # Nil =>
                        cursor'[Lifecycle].epoch = 0 /\ cursor'[Lifecycle].seq < m
<1>1. TypeOK /\ JobsFormed
    BY DEF Inductive
<1>2. /\ Len(ingress) \in Nat /\ Len(ingress') = n /\ ingress'[n] = u
      /\ \A k \in 1 .. Len(ingress') : (k \in 1 .. Len(ingress) /\ ingress'[k] = ingress[k]) \/ k = n
      /\ job[p] # Nil /\ job[p].phase = "stamped" /\ u \in Update
      /\ p # Manager => job'[Manager] = job[Manager] /\ u.type # "stopped"
      /\ p = Manager => job'[Manager].phase = "queued" /\ job'[Manager].update = u
      /\ UNCHANGED <<acting, aggregateVars, busVars, marker, op, running, flushDue>>
    BY <1>1, SendQueue
<1>3. u.type = "stopped" => u.by = Manager /\ Newer(u.seq) /\ u.seq < marker
  <2>1. u.by = p
    BY <1>1, <1>2 DEF JobsFormed
  <2> QED BY <1>2, <2>1 DEF StopsNumbered
<1> HIDE DEF n, u
<1>4. \A m : Newer(m) => Now(m)
    BY <1>2 DEF Newer, aggregateVars
<1>5. ASSUME NEW k \in 1 .. Len(ingress'), ingress'[k].type = "stopped"
      PROVE  /\ ingress'[k].by = Manager
             /\ Now(ingress'[k].seq) /\ ingress'[k].seq < marker'
    BY <1>2, <1>3, <1>4, <1>5 DEF StopsNumbered
<1>6. job'[Manager] # Nil =>
          /\ job'[Manager].update.type \in {"removed", "stopped"}
          /\ job'[Manager].update.type = "stopped" /\ job'[Manager].phase = "stamped" =>
                Now(job'[Manager].update.seq) /\ job'[Manager].update.seq < marker'
  <2>1. CASE p = Manager
    BY <1>2, <2>1 DEF StopsNumbered, u
  <2>2. CASE p # Manager
    BY <1>2, <1>4, <2>2 DEF StopsNumbered
  <2> QED BY <2>1, <2>2
<1>7. Now(marker')
    BY <1>2, <1>4 DEF StopsNumbered
<1> QED BY <1>5, <1>6, <1>7 DEF StopsNumbered, Newer

(* The bridge numbers the stop before it sends it, and one stop at a time.   *)
LEMMA NumberedStep ==
    ASSUME Inductive, StopsNumbered, StopIsLast, [Next]_vars
    PROVE  StopsNumbered'
<1>1. TypeOK /\ JobsFormed
    BY DEF Inductive
<1>2. job \in [Publishers -> Job \cup {Nil}] /\ marker \in Nat
    BY <1>1 DEF TypeOK, BridgeOK
<1>3. ASSUME UNCHANGED <<ingress, cursor, job, marker>> PROVE StopsNumbered'
    BY <1>1, <1>3, NumberedFrame
<1>4. CASE Commit /\ UNCHANGED <<job, marker, op, running, flushDue>>
    BY <1>4, NumberedCommit
<1>5. CASE Answer
  <2>1. UNCHANGED <<ingress, cursor, marker>> /\ job'[Manager] \in {Nil, job[Manager]}
    BY <1>2, <1>5, Tasks DEF Answer, PublishEchoes, aggregateVars
  <2> QED BY <1>1, <2>1, NumberedFrame
<1>6. CASE (Deliver \/ Lag) /\ UNCHANGED <<job, marker, op, running, flushDue>>
    BY <1>3, <1>6 DEF Deliver, Lag, aggregateVars
<1>7. CASE \E p \in Publishers : Send(p)
    BY <1>7, NumberedSend
<1>8. CASE StartManager \/ StopManager \/ StopIdleManager \/ Stopped \/ Flush
    BY <1>3, <1>8 DEF StartManager, StopManager, StopIdleManager, Stopped, Flush,
       aggregatorVars, aggregateVars, bridgeVars
<1>9. CASE AnnounceStop
  <2> DEFINE Now(m) == cursor'[Lifecycle] # Nil =>
                          cursor'[Lifecycle].epoch = 0 /\ cursor'[Lifecycle].seq < m
  <2>1. /\ job'[Manager] = [phase |-> "stamped",
                  update |-> [source |-> Lifecycle, epoch |-> 0, seq |-> marker,
                              type |-> "stopped", reading |-> Nil, retires |-> 0,
                              by |-> Manager]]
        /\ marker' = marker + 1 /\ UNCHANGED <<ingress, cursor>>
    BY <1>2, <1>9, Tasks DEF AnnounceStop, aggregatorVars, aggregateVars
  <2>2. /\ job'[Manager].update.type = "stopped" /\ job'[Manager].update.seq = marker
    BY <2>1
  <2>3. \A m : Newer(m) => Now(m)
    BY <2>1 DEF Newer
  <2>4. cursor[Lifecycle] # Nil => cursor[Lifecycle].seq \in Nat
    BY <1>1, Constants DEF TypeOK, AggregatorOK, Sources, Cursor
  <2>5. Newer(marker) /\ Newer(marker + 1)
    BY <1>2, <2>4 DEF StopsNumbered, Newer
  <2>6. \A k \in 1 .. Len(ingress) : ingress[k] \in Update /\ ingress[k].seq \in Nat
    BY <1>1, UpdateSources DEF TypeOK, AggregatorOK
  <2>7. ASSUME NEW k \in 1 .. Len(ingress), ingress[k].type = "stopped"
        PROVE  ingress[k].by = Manager /\ Now(ingress[k].seq) /\ ingress[k].seq < marker'
    BY <1>2, <2>1, <2>3, <2>6, <2>7 DEF StopsNumbered
  <2>8. Now(marker') /\ Now(job'[Manager].update.seq) /\ job'[Manager].update.seq < marker'
    BY <1>2, <2>1, <2>2, <2>3, <2>5
  <2> QED BY <2>1, <2>2, <2>7, <2>8 DEF StopsNumbered, Newer
<1>10. CASE Unnoticed
    BY <1>1, <1>10, NumberedFrame DEF Unnoticed
<1> QED BY <1>1, <1>4, <1>5, <1>6, <1>7, <1>8, <1>9, <1>10, EchoMoves

(* Only an observation makes a zone canonical.                              *)
LEMMA NothingWritten ==
    ASSUME NEW u \in Update, NEW w \in [Instances -> Reading \cup {Nil}],
           u.type # "observation"
    PROVE  /\ \A i \in Instances : w[i] = Nil => WrittenBy(u, w)[i] = Nil
           /\ u.type = "stopped" => \A i \in Instances : WrittenBy(u, w)[i] = Nil
<1>1. u.type # "stopped" => u.source \in Instances
    BY UpdateSources
<1>2. CASE u.type = "stopped"
    BY <1>2 DEF WrittenBy, Retires
<1>3. CASE Retires(u)
    BY <1>1, <1>3 DEF WrittenBy, Retires
<1>4. CASE u.type # "stopped" /\ ~Retires(u)
    BY <1>4 DEF WrittenBy
<1> QED BY <1>2, <1>3, <1>4

(* A stop that is taken from the queue is never refused.                    *)
LEMMA StopIsAdmitted ==
    ASSUME TypeOK, StopsNumbered, NEW k \in 1 .. Len(ingress), ingress[k].type = "stopped"
    PROVE  Outcome(ingress[k]) = "committed"
<1> DEFINE u == ingress[k]
<1>1. u \in Update /\ Newer(u.seq)
    BY DEF StopsNumbered, TypeOK, AggregatorOK
<1> HIDE DEF u
<1>2. u.source = Lifecycle /\ u.epoch = 0 /\ u.seq \in Nat /\ u.type = "stopped"
    BY <1>1, UpdateSources DEF u
<1>3. cursor[Lifecycle] # Nil => cursor[Lifecycle].seq \in Nat
    BY Constants DEF TypeOK, AggregatorOK, Sources, Cursor
<1>4. ~Stale(u)
    BY <1>1, <1>2, <1>3 DEF Stale, Newer
<1>5. ~Gap(u)
    BY <1>2 DEF Gap, KindOf
<1>6. Outcome(u) = "committed"
    BY <1>4, <1>5 DEF Outcome
<1> QED BY <1>6 DEF u

(* Steps that leave the queue, the actor and what is canonical alone.       *)
LEMMA LastFrame ==
    ASSUME StopIsLast, UNCHANGED <<ingress, acting, canonical>>,
           StopIsCommitted' => StopIsCommitted,
           StopRuns' => ~running', flushDue' => ~running' /\ ~StopRuns'
    PROVE  StopIsLast'
BY DEF StopIsLast

(* The commit of the stop takes back all that is canonical.                 *)
LEMMA LastCommit ==
    ASSUME Inductive, StopsNumbered, StopIsLast, Commit,
           UNCHANGED <<job, marker, op, running, flushDue>>
    PROVE  StopIsLast'
<1> DEFINE u == Head(ingress)
<1>1. TypeOK /\ JobsFormed /\ QueueFormed
    BY DEF Inductive
<1>2. /\ Len(ingress) \in Nat \ {0} /\ Len(ingress') = Len(ingress) - 1
      /\ u = ingress[1] /\ 1 \in 1 .. Len(ingress) /\ u \in Update
      /\ \A k \in 1 .. Len(ingress') :
            ingress'[k] = ingress[k + 1] /\ k + 1 \in 1 .. Len(ingress)
      /\ \/ UNCHANGED aggregateVars /\ Outcome(u) # "committed"
         \/ /\ Outcome(u) = "committed"
            /\ cursor' = [cursor EXCEPT ![u.source] = [epoch |-> u.epoch, seq |-> u.seq]]
            /\ canonical' = WrittenBy(u, canonical)
            /\ zones' = WrittenBy(u, zones)
    BY <1>1, CommitQueue
<1>3. acting = Nil /\ acting'.update = u
    BY DEF Commit
<1> HIDE DEF u
<1>4. canonical \in [Instances -> Reading \cup {Nil}]
    BY <1>1 DEF TypeOK, AggregatorOK
<1>5. StopRuns' = StopRuns
    BY DEF StopRuns
<1>6. \A k, l \in 1 .. Len(ingress') :
          k < l /\ ingress'[k].type = "stopped" => ingress'[l].type # "observation"
    BY <1>2 DEF StopIsLast
<1>7. ASSUME StopIsCommitted
      PROVE  /\ \A i \in Instances : canonical'[i] = Nil
             /\ \A k \in 1 .. Len(ingress') : ingress'[k].type # "observation"
             /\ u.type # "observation"
  <2>1. /\ \A i \in Instances : canonical[i] = Nil
        /\ \A k \in 1 .. Len(ingress) : ingress[k].type # "observation"
    BY <1>7 DEF StopIsLast
  <2>2. u.type # "observation" /\ \A k \in 1 .. Len(ingress') : ingress'[k].type # "observation"
    BY <1>2, <2>1
  <2>3. \A i \in Instances : WrittenBy(u, canonical)[i] = Nil
    BY <1>2, <1>4, <2>1, <2>2, NothingWritten
  <2>4. \A i \in Instances : canonical'[i] = Nil
    BY <1>2, <2>1, <2>3 DEF aggregateVars
  <2> QED BY <2>2, <2>4
<1>8. ASSUME u.type = "stopped"
      PROVE  /\ \A i \in Instances : canonical'[i] = Nil
             /\ \A k \in 1 .. Len(ingress') : ingress'[k].type # "observation"
             /\ u.type # "observation"
  <2>1. Outcome(u) = "committed"
    BY <1>1, <1>2, <1>8, StopIsAdmitted
  <2>2. \A i \in Instances : WrittenBy(u, canonical)[i] = Nil
    BY <1>2, <1>4, <1>8, NothingWritten
  <2>3. ASSUME NEW k \in 1 .. Len(ingress') PROVE ingress'[k].type # "observation"
    <3>1. 1 < k + 1 /\ k + 1 \in 1 .. Len(ingress) /\ ingress'[k] = ingress[k + 1]
      BY <1>2
    <3>2. ingress[k + 1].type # "observation"
      BY <1>2, <1>8, <3>1 DEF StopIsLast
    <3> QED BY <3>1, <3>2
  <2> QED BY <1>2, <1>8, <2>1, <2>2, <2>3
<1>9. ASSUME StopIsCommitted', ~StopIsCommitted PROVE u.type = "stopped"
  <2>1. StopRuns /\ job[Manager] # Nil /\ acting' # Nil /\ u.by = Manager
    BY <1>3, <1>5, <1>9 DEF StopIsCommitted
  <2>2. job[Manager] = [phase |-> "queued", update |-> u]
    BY <1>1, <1>2, <2>1 DEF QueueFormed
  <2>3. job[Manager].update = u
    BY <2>2
  <2>4. job[Manager].update.type = "stopped"
    BY <1>1, <2>1, ManagersJob
  <2> QED BY <2>3, <2>4
<1>10. StopIsCommitted' =>
          /\ \A i \in Instances : canonical'[i] = Nil
          /\ \A k \in 1 .. Len(ingress') : ingress'[k].type # "observation"
          /\ u.type # "observation"
    BY <1>7, <1>8, <1>9
<1>11. (StopRuns' => ~running') /\ (flushDue' => ~running' /\ ~StopRuns')
    BY <1>5 DEF StopIsLast
<1> QED BY <1>3, <1>6, <1>10, <1>11 DEF StopIsLast

(* Nothing is sent behind a stop, and after it the manager only retires.     *)
LEMMA LastSend ==
    ASSUME Inductive, StopsNumbered, StopIsLast, NEW p \in Publishers, Send(p)
    PROVE  StopIsLast'
<1> DEFINE n == Len(ingress) + 1
           u == job[p].update
<1>1. TypeOK /\ JobsFormed /\ QueueFormed /\ RemovalFormed
    BY DEF Inductive
<1>2. /\ Len(ingress) \in Nat /\ Len(ingress') = n /\ ingress'[n] = u
      /\ \A k \in 1 .. Len(ingress') : (k \in 1 .. Len(ingress) /\ ingress'[k] = ingress[k]) \/ k = n
      /\ job[p] # Nil /\ job[p].phase = "stamped" /\ u \in Update
      /\ p # Manager => job'[Manager] = job[Manager] /\ u.type # "stopped"
      /\ p = Manager => job'[Manager].phase = "queued" /\ job'[Manager].update = u
      /\ UNCHANGED <<acting, aggregateVars, busVars, marker, op, running, flushDue>>
    BY <1>1, SendQueue
<1>3. ASSUME NEW k \in 1 .. Len(ingress), ingress[k].type = "stopped" PROVE FALSE
  <2>1. /\ job[Manager].phase = "queued"
        /\ \A i \in Instances : job[Worker(i)] = Nil /\ job[Endpoint(i)] = Nil
    BY <1>3, StopQueued, Zenon
  <2> QED BY <1>2, <2>1, Tasks
<1>4. StopIsCommitted' => StopIsCommitted
  <2>1. CASE p # Manager
    BY <1>2, <2>1 DEF StopIsCommitted, StopRuns
  <2>2. CASE p = Manager
    <3>1. job[Manager] \in Job
      BY <1>1, <1>2, <2>2, Tasks DEF TypeOK, BridgeOK
    <3>2. job'[Manager] # Nil
      <4>1. job' = [job EXCEPT ![p].phase = "queued"] /\ job \in [Publishers -> Job \cup {Nil}]
        BY <1>1 DEF Send, TypeOK, BridgeOK
      <4>2. job'[Manager] \in Job
        BY <2>2, <3>1, <4>1, Tasks DEF Job
      <4> QED BY <4>2, Constants
    <3> QED BY <1>2, <3>2 DEF StopIsCommitted, StopRuns
  <2> QED BY <2>1, <2>2
<1>5. ASSUME StopIsCommitted PROVE u.type # "observation"
  <2>1. p = Manager
    BY <1>1, <1>2, <1>5, StoppedTasks
  <2> QED BY <1>2, <2>1 DEF StopsNumbered
<1>6. (StopRuns' => ~running') /\ (flushDue' => ~running' /\ ~StopRuns')
    BY <1>2 DEF StopIsLast, StopRuns
<1>7. /\ \A k, l \in 1 .. Len(ingress') :
            k < l /\ ingress'[k].type = "stopped" => ingress'[l].type # "observation"
  <2> SUFFICES ASSUME NEW k \in 1 .. Len(ingress'), NEW l \in 1 .. Len(ingress'),
                      k < l, ingress'[k].type = "stopped"
               PROVE  FALSE
      OBVIOUS
  <2>1. k \in 1 .. Len(ingress) /\ ingress'[k] = ingress[k]
    BY <1>2
  <2> QED BY <1>3, <2>1
<1> HIDE DEF n, u
<1>8. ASSUME StopIsCommitted'
      PROVE  /\ \A i \in Instances : canonical'[i] = Nil
             /\ \A k \in 1 .. Len(ingress') : ingress'[k].type # "observation"
             /\ acting' # Nil => acting'.update.type # "observation"
  <2>1. StopIsCommitted
    BY <1>4, <1>8
  <2>2. /\ \A i \in Instances : canonical[i] = Nil
        /\ \A k \in 1 .. Len(ingress) : ingress[k].type # "observation"
        /\ acting # Nil => acting.update.type # "observation"
    BY <2>1 DEF StopIsLast
  <2> QED BY <1>2, <1>5, <2>1, <2>2 DEF aggregateVars
<1> QED BY <1>6, <1>7, <1>8 DEF StopIsLast

(* The manager joins every task before it announces the stop.               *)
LEMMA LastStep ==
    ASSUME Inductive, StopsNumbered, StopIsLast, [Next]_vars
    PROVE  StopIsLast'
<1>1. TypeOK /\ JobsFormed /\ QueueFormed
    BY DEF Inductive
<1>2. job \in [Publishers -> Job \cup {Nil}] /\ op \in Op \cup {Nil}
    BY <1>1 DEF TypeOK, BridgeOK, ManagerOK
<1>3. /\ StopRuns => ~running
      /\ flushDue => ~running /\ ~StopRuns
    BY DEF StopIsLast
<1>4. CASE Commit /\ UNCHANGED <<job, marker, op, running, flushDue>>
    BY <1>4, LastCommit
<1>5. CASE Answer
  <2> DEFINE u == acting.update
  <2>1. /\ UNCHANGED <<ingress, canonical, op, running, flushDue>>
        /\ acting # Nil /\ acting' = Nil
        /\ \/ UNCHANGED job
           \/ job' = [job EXCEPT ![u.by] = Nil]
    BY <1>5 DEF Answer, PublishEchoes, aggregateVars, managerVars
  <2>2. job'[Manager] = job[Manager] \/ u.by = Manager
    BY <1>2, <2>1, Tasks
  <2>3. StopIsCommitted' => StopIsCommitted
    BY <2>1, <2>2 DEF StopIsCommitted, StopRuns
  <2>4. (StopRuns' => ~running') /\ (flushDue' => ~running' /\ ~StopRuns')
    BY <1>3, <2>1 DEF StopRuns
  <2> QED BY <2>1, <2>3, <2>4 DEF StopIsLast
<1>6. CASE (Deliver \/ Lag) /\ UNCHANGED <<job, marker, op, running, flushDue>>
  <2>1. UNCHANGED <<ingress, acting, canonical>>
    BY <1>6 DEF Deliver, Lag, aggregateVars
  <2> QED BY <1>3, <1>6, <2>1, LastFrame DEF StopRuns, StopIsCommitted
<1>7. CASE \E p \in Publishers : Send(p)
    BY <1>7, LastSend
<1>8. CASE StartManager
  <2>1. UNCHANGED <<ingress, acting, canonical, op, flushDue>> /\ op = Nil /\ running' /\ ~flushDue
    BY <1>8 DEF StartManager, aggregatorVars, aggregateVars
  <2> QED BY <2>1, LastFrame DEF StopRuns, StopIsCommitted
<1>9. CASE StopManager
  <2>1. /\ UNCHANGED <<ingress, acting, canonical, flushDue>> /\ op'.at = "join"
        /\ op' = [kind |-> "stop", at |-> "join"] /\ running /\ ~running'
    BY <1>9 DEF StopManager, aggregateVars
  <2>2. [kind |-> "stop", at |-> "join"] \in Op
    BY DEF Op
  <2>3. StopRuns' /\ ~StopIsCommitted' /\ ~flushDue'
    BY <1>3, <2>1, <2>2, Constants DEF StopRuns, StopIsCommitted
  <2> QED BY <2>1, <2>3, LastFrame
<1>10. CASE StopIdleManager
  <2>1. UNCHANGED <<ingress, acting, canonical, op, job, running>> /\ op = Nil /\ ~running
    BY <1>10 DEF StopIdleManager, Begins, aggregatorVars, aggregateVars, bridgeVars
  <2> QED BY <2>1, LastFrame DEF StopRuns, StopIsCommitted
<1>11. CASE AnnounceStop
  <2> DEFINE u == [source |-> Lifecycle, epoch |-> 0, seq |-> marker, type |-> "stopped",
                   reading |-> Nil, retires |-> 0, by |-> Manager]
  <2>1. /\ UNCHANGED <<ingress, acting, canonical, running, flushDue>>
        /\ op # Nil /\ op.kind = "stop" /\ op.at = "join" /\ op' = [op EXCEPT !.at = "announce"]
        /\ job'[Manager] = [phase |-> "stamped", update |-> u]
    BY <1>2, <1>11, Tasks DEF AnnounceStop, aggregatorVars, aggregateVars
  <2>2. job'[Manager] # Nil
    <3>1. u \in Update
      BY <1>1, Tasks DEF Update, TypeOK, BridgeOK
    <3>2. [phase |-> "stamped", update |-> u] \in Job
      BY <3>1 DEF Job
    <3> QED BY <2>1, <3>2, Constants
  <2>3. ~(acting # Nil /\ acting.update.by = Manager)
    <3>1. job[Manager] = Nil
      BY <1>1, <2>1 DEF JobsFormed
    <3>2. acting # Nil /\ acting.update.by = Manager =>
              /\ job[Manager] = [phase |-> "queued", update |-> acting.update]
              /\ acting.update \in Update
      BY <1>1 DEF QueueFormed, TypeOK, AggregatorOK
    <3>3. acting.update \in Update => [phase |-> "queued", update |-> acting.update] \in Job
      BY DEF Job
    <3> QED BY <3>1, <3>2, <3>3, Constants
  <2>4. StopRuns /\ StopRuns'
    <3>1. op \in Op
      BY <1>2, <2>1
    <3>2. op' = [kind |-> "stop", at |-> "announce"]
      BY <2>1, <3>1 DEF Op
    <3>3. [kind |-> "stop", at |-> "announce"] \in Op
      BY DEF Op
    <3> QED BY <2>1, <3>2, <3>3, Constants DEF StopRuns
  <2>5. ~StopIsCommitted'
    BY <2>1, <2>2, <2>3, <2>4 DEF StopIsCommitted
  <2> QED BY <1>3, <2>1, <2>4, <2>5, LastFrame
<1>12. CASE Stopped
  <2>1. /\ UNCHANGED <<ingress, acting, canonical, running, job>>
        /\ op # Nil /\ op.at = "announce" /\ job[Manager] = Nil /\ op' = Nil
    BY <1>12 DEF Stopped, aggregatorVars, aggregateVars, bridgeVars
  <2>2. op.kind = "stop"
    BY <1>2, <2>1 DEF Op
  <2>3. StopRuns /\ ~StopRuns' /\ ~running'
    BY <1>3, <2>1, <2>2 DEF StopRuns
  <2> QED BY <2>1, <2>3, LastFrame DEF StopIsCommitted
<1>13. CASE Flush
  <2>1. UNCHANGED <<ingress, acting, canonical, running, job, op>> /\ ~flushDue'
    BY <1>13 DEF Flush, aggregateVars, bridgeVars
  <2> QED BY <1>3, <2>1, LastFrame DEF StopIsCommitted, StopRuns
<1>14. CASE Unnoticed
  <2>1. StopRuns' = StopRuns
    BY <1>14 DEF Unnoticed, StopRuns
  <2>2. StopIsCommitted' => StopIsCommitted
    BY <1>14, <2>1 DEF Unnoticed, StopIsCommitted
  <2> QED BY <1>3, <1>14, <2>1, <2>2, LastFrame DEF Unnoticed
<1> QED BY <1>1, <1>4, <1>5, <1>6, <1>7, <1>8, <1>9, <1>10, <1>11, <1>12, <1>13, <1>14, EchoMoves

(* What a commit announces.                                                *)
LEMMA EchoOfCommit ==
    ASSUME NEW u \in Update
    PROVE  \/ u.type = "observation" /\ Echo(u) =
                 <<[type |-> "found", inst |-> u.source, reading |-> u.reading]>>
           \/ u.type = "removed" /\ Retires(u) /\ zones[u.source] # Nil
                 /\ Echo(u) = <<[type |-> "gone", inst |-> u.source]>>
           \/ Echo(u) = << >> /\ u.type # "observation"
                 /\ (Retires(u) => zones[u.source] = Nil)
BY DEF Echo, Retires

LEMMA EchoTyped ==
    ASSUME NEW u \in Update
    PROVE  Echo(u) \in Seq(Event)
<1>1. /\ u.type # "stopped" => u.source \in Instances
      /\ u.type = "observation" => u.reading \in Reading
    BY UpdateSources
<1>2. \A e \in Event : <<e>> \in Seq(Event)
    OBVIOUS
<1>3. << >> \in Seq(Event)
    OBVIOUS
<1>4. ASSUME NEW s \in Instances, NEW r \in Reading
      PROVE  /\ [type |-> "found", inst |-> s, reading |-> r] \in Event
             /\ [type |-> "gone", inst |-> s] \in Event
    BY DEF Event
<1>5. CASE u.type = "observation"
  <2> DEFINE e == [type |-> "found", inst |-> u.source, reading |-> u.reading]
  <2>1. u.source \in Instances /\ u.reading \in Reading
    BY <1>1, <1>5
  <2>2. e \in Event
    BY <1>4, <2>1, Zenon
  <2>3. Echo(u) = <<e>>
    BY <1>5, EchoOfCommit
  <2> QED BY <1>2, <2>2, <2>3, Zenon
<1>6. CASE u.type = "removed"
  <2> DEFINE e == [type |-> "gone", inst |-> u.source]
  <2>1. u.source \in Instances
    BY <1>1, <1>6
  <2>2. e \in Event
    BY <2>1 DEF Event
  <2>3. Echo(u) = <<e>> \/ Echo(u) = << >>
    BY <1>6, EchoOfCommit
  <2> QED BY <1>2, <1>3, <2>2, <2>3, Zenon
<1>7. CASE u.type \notin {"observation", "removed"}
    BY <1>3, <1>7, EchoOfCommit
<1> QED BY <1>5, <1>6, <1>7

(* Only an observation announces a zone.                                    *)
LEMMA EchoStep ==
    ASSUME TypeOK, JobsFormed, StopsNumbered, EchoFormed, [Next]_vars
    PROVE  EchoFormed'
<1>1. ASSUME UNCHANGED acting \/ acting' = Nil PROVE EchoFormed'
    BY <1>1 DEF EchoFormed
<1>2. CASE Commit
  <2> DEFINE u == Head(ingress)
  <2>1. u \in Update
    BY <1>2, CommitQueue
  <2>2. acting' = [update |-> u, outcome |-> Outcome(u),
                   echo |-> IF Outcome(u) = "committed" THEN Echo(u) ELSE << >>]
    BY <1>2 DEF Commit
  <2> HIDE DEF u
  <2>3. acting'.update = u /\ (acting'.echo = Echo(u) \/ acting'.echo = << >>)
    BY <2>2
  <2>4. \A k \in 1 .. Len(Echo(u)) : Echo(u)[k].type = "found" => u.type = "observation"
    BY <2>1, EchoOfCommit
  <2>5. \A k \in 1 .. Len(acting'.echo) :
            acting'.echo[k].type = "found" => acting'.update.type = "observation"
    BY <2>3, <2>4
  <2> QED BY <2>5 DEF EchoFormed
<1>3. CASE Answer
    BY <1>1, <1>3 DEF Answer, PublishEchoes
<1>4. CASE Deliver \/ Lag
    BY <1>1, <1>4 DEF Deliver, Lag
<1>5. CASE \E p \in Publishers : Send(p)
    BY <1>1, <1>5 DEF Send
<1>6. CASE \/ StartManager \/ StopManager \/ StopIdleManager
           \/ AnnounceStop \/ Stopped \/ Flush
    BY <1>1, <1>6 DEF StartManager, StopManager, StopIdleManager, AnnounceStop, Stopped, Flush,
       aggregatorVars
<1>7. CASE Unnoticed
    BY <1>1, <1>7 DEF Unnoticed
<1> QED BY <1>2, <1>3, <1>4, <1>5, <1>6, <1>7, EchoMoves

(* Events one after the other.                                             *)
LEMMA OneAfterTheOther ==
    ASSUME NEW s \in Seq(Event), NEW t \in Seq(Event)
    PROVE  /\ s \o t \in Seq(Event) /\ Len(s \o t) = Len(s) + Len(t)
           /\ Len(s) \in Nat /\ Len(t) \in Nat
           /\ \A k \in 1 .. Len(s) : (s \o t)[k] = s[k]
           /\ \A k \in 1 .. Len(t) : (s \o t)[Len(s) + k] = t[k]
OBVIOUS

(* What follows silently changes nothing.                                  *)
LEMMA LastOfBoth ==
    ASSUME NEW s \in Seq(Event), NEW t \in Seq(Event), NEW i, NEW v
    PROVE  /\ LastLeaves(t, i, v) /\ (Silent(t, i) => LastLeaves(s, i, v))
                 => LastLeaves(s \o t, i, v)
           /\ Silent(s \o t, i) => Silent(s, i) /\ Silent(t, i)
           /\ Silent(t, i) => LastLeaves(t, i, v)
<1> DEFINE st == s \o t
<1>1. /\ Len(st) = Len(s) + Len(t) /\ Len(s) \in Nat /\ Len(t) \in Nat
      /\ \A k \in 1 .. Len(s) : st[k] = s[k]
      /\ \A k \in 1 .. Len(t) : st[Len(s) + k] = t[k]
    BY OneAfterTheOther
<1> HIDE DEF st
<1>2. ASSUME Silent(st, i) PROVE Silent(s, i) /\ Silent(t, i)
  <2>1. ASSUME NEW k \in 1 .. Len(s) PROVE ~Concerns(s[k], i)
    BY <1>1, <1>2 DEF Silent
  <2>2. ASSUME NEW k \in 1 .. Len(t) PROVE ~Concerns(t[k], i)
    <3>1. Len(s) + k \in 1 .. Len(st) /\ st[Len(s) + k] = t[k]
      BY <1>1
    <3>2. ~Concerns(st[Len(s) + k], i)
      BY <1>2, <3>1 DEF Silent
    <3> QED BY <3>1, <3>2
  <2> QED BY <2>1, <2>2 DEF Silent
<1>3. Silent(t, i) => LastLeaves(t, i, v)
    BY DEF Silent, LastLeaves
<1>4. ASSUME LastLeaves(t, i, v), Silent(t, i) => LastLeaves(s, i, v)
      PROVE  LastLeaves(st, i, v)
  <2> SUFFICES ASSUME NEW k \in 1 .. Len(st), Concerns(st[k], i),
                      \A l \in 1 .. Len(st) : l > k => ~Concerns(st[l], i)
               PROVE  Leaves(st[k]) = v
      BY DEF LastLeaves
  <2>1. \A l \in 1 .. Len(t) : Len(s) + l \in 1 .. Len(st) /\ st[Len(s) + l] = t[l]
    BY <1>1
  <2>2. CASE k \in 1 .. Len(s)
    <3>1. ASSUME NEW l \in 1 .. Len(t) PROVE ~Concerns(t[l], i)
      BY <1>1, <2>1, <2>2
    <3>2. LastLeaves(s, i, v)
      BY <1>4, <3>1 DEF Silent
    <3>3. ASSUME NEW l \in 1 .. Len(s), l > k PROVE ~Concerns(s[l], i)
      BY <1>1, <3>3
    <3>4. Concerns(s[k], i) /\ st[k] = s[k]
      BY <1>1, <2>2
    <3> QED BY <2>2, <3>2, <3>3, <3>4 DEF LastLeaves
  <2>3. CASE k \notin 1 .. Len(s)
    <3>1. PICK m \in 1 .. Len(t) : k = Len(s) + m
      <4>1. k - Len(s) \in 1 .. Len(t) /\ k = Len(s) + (k - Len(s))
        BY <1>1, <2>3
      <4> QED BY <4>1
    <3>2. st[k] = t[m] /\ Concerns(t[m], i)
      BY <2>1, <3>1
    <3>3. ASSUME NEW l \in 1 .. Len(t), l > m PROVE ~Concerns(t[l], i)
      <4>1. Len(s) + l > k
        BY <1>1, <3>1, <3>3
      <4> QED BY <2>1, <4>1
    <3> QED BY <1>4, <3>2, <3>3 DEF LastLeaves
  <2> QED BY <2>2, <2>3
<1> QED BY <1>2, <1>3, <1>4 DEF st

(* The first event counts only if nothing follows it.                      *)
LEMMA LastOfTail ==
    ASSUME NEW s \in Seq(Event), s # << >>, NEW i, NEW v, LastLeaves(s, i, v)
    PROVE  /\ LastLeaves(Tail(s), i, v)
           /\ Silent(Tail(s), i) /\ Concerns(Head(s), i) => Leaves(Head(s)) = v
           /\ Silent(Tail(s), i) /\ ~Concerns(Head(s), i) => Silent(s, i)
<1> DEFINE t == Tail(s)
<1>1. /\ Len(s) \in Nat \ {0} /\ Len(t) = Len(s) - 1 /\ Head(s) = s[1]
      /\ \A k \in 1 .. Len(t) : t[k] = s[k + 1]
    OBVIOUS
<1> HIDE DEF t
<1>2. \A l \in 1 .. Len(s) : l > 1 => l - 1 \in 1 .. Len(t) /\ t[l - 1] = s[l]
    BY <1>1
<1>3. LastLeaves(t, i, v)
  <2> SUFFICES ASSUME NEW k \in 1 .. Len(t), Concerns(t[k], i),
                      \A l \in 1 .. Len(t) : l > k => ~Concerns(t[l], i)
               PROVE  Leaves(t[k]) = v
      BY DEF LastLeaves
  <2>1. k + 1 \in 1 .. Len(s) /\ s[k + 1] = t[k]
    BY <1>1
  <2>2. ASSUME NEW l \in 1 .. Len(s), l > k + 1 PROVE ~Concerns(s[l], i)
    <3>1. l - 1 \in 1 .. Len(t) /\ t[l - 1] = s[l] /\ l - 1 > k
      BY <1>2, <2>2
    <3>2. ~Concerns(t[l - 1], i)
      BY <3>1
    <3> QED BY <3>1, <3>2
  <2> QED BY <2>1, <2>2 DEF LastLeaves
<1>4. ASSUME Silent(t, i) PROVE \A l \in 1 .. Len(s) : l > 1 => ~Concerns(s[l], i)
  <2> SUFFICES ASSUME NEW l \in 1 .. Len(s), l > 1 PROVE ~Concerns(s[l], i)
      OBVIOUS
  <2>1. l - 1 \in 1 .. Len(t) /\ t[l - 1] = s[l]
    BY <1>2
  <2>2. ~Concerns(t[l - 1], i)
    BY <1>4, <2>1 DEF Silent
  <2> QED BY <2>1, <2>2
<1>5. ASSUME Silent(t, i), Concerns(Head(s), i) PROVE Leaves(Head(s)) = v
    BY <1>1, <1>4, <1>5 DEF LastLeaves
<1>6. ASSUME Silent(t, i), ~Concerns(Head(s), i) PROVE Silent(s, i)
    BY <1>1, <1>4, <1>6 DEF Silent
<1> QED BY <1>3, <1>5, <1>6 DEF t

(* One event.                                                              *)
LEMMA OneEvent ==
    ASSUME NEW e \in Event, NEW i, NEW v, Concerns(e, i) => Leaves(e) = v
    PROVE  LastLeaves(<<e>>, i, v) /\ (Silent(<<e>>, i) <=> ~Concerns(e, i)) /\ <<e>> \in Seq(Event)
<1>1. <<e>> \in Seq(Event) /\ Len(<<e>>) = 1 /\ <<e>>[1] = e
    OBVIOUS
<1>2. \A k \in 1 .. Len(<<e>>) : k = 1
    BY <1>1
<1> QED BY <1>1, <1>2 DEF LastLeaves, Silent

(* What is due is a sequence of events.                                    *)
LEMMA DueTyped ==
    ASSUME TypeOK
    PROVE  /\ Due \in Seq(Event) /\ bus \in Seq(Event)
           /\ acting = Nil => Due = bus
           /\ acting # Nil => Due = bus \o acting.echo /\ acting.echo \in Seq(Event)
<1>1. bus \in Seq(Event) /\ (acting # Nil => acting.echo \in Seq(Event))
    BY DEF TypeOK, AggregatorOK
<1>2. bus \o << >> = bus
    BY <1>1
<1>3. << >> \in Seq(Event)
    OBVIOUS
<1>4. Due \in Seq(Event)
    BY <1>1, <1>3, OneAfterTheOther DEF Due
<1> QED BY <1>1, <1>2, <1>4 DEF Due

(* Steps that change neither the documents nor what is due.                 *)
LEMMA ConvergingFrame ==
    ASSUME Converging, UNCHANGED <<canonical, zones>>, Due' = Due,
           \A i \in lost : Silent(Due, i) => i \in lost',
           ~StopRuns' => ~StopRuns,
           ~running' /\ ~StopRuns' /\ ~flushDue' => ~running /\ ~flushDue
    PROVE  Converging'
<1>1. ASSUME NEW i \in Instances, NEW v, ComesTo(i, v)
      PROVE  ComesTo(i, v)'
    BY <1>1 DEF ComesTo
<1>2. ASSUME NEW i \in Instances, canonical'[i] # Nil, ~StopRuns'
      PROVE  ComesTo(i, canonical[i])
    BY <1>2 DEF Converging
<1>3. ASSUME NEW i \in Instances, ~running', ~StopRuns', ~flushDue'
      PROVE  ComesTo(i, Nil)
    BY <1>3 DEF Converging
<1> QED BY <1>1, <1>2, <1>3 DEF Converging, ComesTo

(* The subscriber hears the events in their order, or loses the oldest.      *)
LEMMA ConvergingSubscriber ==
    ASSUME TypeOK, Converging, Deliver \/ Lag, UNCHANGED <<op, running, flushDue>>
    PROVE  Converging'
<1> DEFINE e == Head(bus)
<1>1. /\ bus \in Seq(Event) /\ bus # << >> /\ bus' = Tail(bus)
      /\ UNCHANGED <<acting, canonical>>
    BY DEF TypeOK, AggregatorOK, Deliver, Lag, aggregateVars
<1>2. /\ Due \in Seq(Event) /\ Due # << >> /\ Due' = Tail(Due) /\ Head(Due) = e
      /\ e \in Event
  <2>1. ASSUME NEW t \in Seq(Event)
        PROVE  bus \o t # << >> /\ Tail(bus \o t) = Tail(bus) \o t /\ Head(bus \o t) = e
    BY <1>1
  <2>2. (IF acting = Nil THEN << >> ELSE acting.echo) \in Seq(Event)
    BY DEF TypeOK, AggregatorOK
  <2>3. Due \in Seq(Event) /\ e \in Event
    BY <1>1, DueTyped
  <2> QED BY <1>1, <2>1, <2>2, <2>3 DEF Due
<1> HIDE DEF e
<1>3. ASSUME NEW i \in Instances, NEW v, ComesTo(i, v)
      PROVE  ComesTo(i, v)'
  <2>1. /\ LastLeaves(Due', i, v)
        /\ Silent(Due', i) /\ Concerns(e, i) => Leaves(e) = v
        /\ Silent(Due', i) /\ ~Concerns(e, i) => Silent(Due, i)
    BY <1>2, <1>3, LastOfTail DEF ComesTo
  <2>2. zones \in [Instances -> Reading \cup {Nil}]
    BY DEF TypeOK, AggregatorOK
  <2>3. CASE Deliver
    <3>1. zones'[i] = IF Concerns(e, i) THEN Leaves(e) ELSE zones[i]
      <4>1. zones' = CASE e.type = "found" -> [zones EXCEPT ![e.inst] = e.reading]
                       [] e.type = "gone" -> [zones EXCEPT ![e.inst] = Nil]
                       [] e.type = "stopping" -> [j \in Instances |-> Nil]
        BY <2>3 DEF Deliver, e
      <4>2. CASE e.type = "found"
        BY <2>2, <4>1, <4>2 DEF Concerns, Leaves
      <4>3. CASE e.type = "gone"
        BY <2>2, <4>1, <4>3 DEF Concerns, Leaves
      <4>4. CASE e.type = "stopping"
        BY <4>1, <4>4 DEF Concerns, Leaves
      <4> QED BY <1>2, <4>2, <4>3, <4>4 DEF Event
    <3>2. lost' = lost
      BY <2>3 DEF Deliver
    <3> QED BY <1>3, <2>1, <3>1, <3>2 DEF ComesTo
  <2>4. CASE Lag
    <3>1. zones' = zones
      BY <2>4 DEF Lag, aggregateVars
    <3>2. Silent(Due', i) => Silent(bus', i)
      <4>1. /\ bus' \in Seq(Event) /\ Due' = bus' \o (IF acting' = Nil THEN << >> ELSE acting'.echo)
            /\ (IF acting' = Nil THEN << >> ELSE acting'.echo) \in Seq(Event)
        BY <1>1 DEF Due, TypeOK, AggregatorOK
      <4> QED BY <4>1, LastOfBoth
    <3>3. Silent(bus', i) /\ Concerns(e, i) => i \in lost'
      <4> SUFFICES ASSUME Silent(bus', i), Concerns(e, i) PROVE i \in lost'
          OBVIOUS
      <4>1. ASSUME NEW k \in 2 .. Len(bus) PROVE ~Concerns(bus[k], i)
        <5>1. k - 1 \in 1 .. Len(bus') /\ bus'[k - 1] = bus[k]
          BY <1>1
        <5>2. ~Concerns(bus'[k - 1], i)
          BY <5>1 DEF Silent
        <5> QED BY <5>1, <5>2
      <4> QED BY <2>4, <4>1 DEF Lag, e
    <3>4. \A j \in lost : j \in lost'
      BY <2>4 DEF Lag
    <3> QED BY <1>3, <2>1, <3>1, <3>2, <3>3, <3>4 DEF ComesTo
  <2> QED BY <2>3, <2>4
<1>4. ASSUME NEW i \in Instances, canonical'[i] # Nil, ~StopRuns'
      PROVE  ComesTo(i, canonical[i])
    BY <1>1, <1>4 DEF Converging, StopRuns
<1>5. ASSUME NEW i \in Instances, ~running', ~StopRuns', ~flushDue'
      PROVE  ComesTo(i, Nil)
    BY <1>5 DEF Converging, StopRuns
<1> QED BY <1>1, <1>3, <1>4, <1>5 DEF Converging, ComesTo

(* The hints of a commit are due before and after they are published.       *)
LEMMA ConvergingAnswer ==
    ASSUME TypeOK, Converging, Answer
    PROVE  Converging'
<1>1. /\ acting # Nil /\ acting' = Nil /\ bus' = bus \o acting.echo
      /\ lost' = {i \in lost : ~\E k \in 1 .. Len(acting.echo) : Concerns(acting.echo[k], i)}
      /\ UNCHANGED <<zones, canonical, op, running, flushDue>>
    BY DEF Answer, PublishEchoes, Publish, aggregateVars, managerVars
<1>2. /\ bus \in Seq(Event) /\ acting.echo \in Seq(Event) /\ Due = bus \o acting.echo
      /\ Due \in Seq(Event)
    BY <1>1, DueTyped
<1>3. Due' = Due
  <2>1. \A s \in Seq(Event) : s \o << >> = s
    OBVIOUS
  <2>2. Due' = bus' \o << >>
    BY <1>1 DEF Due
  <2> QED BY <1>1, <1>2, <2>1, <2>2
<1>4. ASSUME NEW i \in lost, Silent(Due, i) PROVE i \in lost'
  <2>1. Silent(acting.echo, i)
    BY <1>2, <1>4, LastOfBoth
  <2> QED BY <1>1, <2>1 DEF Silent
<1> QED BY <1>1, <1>3, <1>4, ConvergingFrame DEF StopRuns

(* The flush finds nothing canonical, and no zone is announced behind it.    *)
LEMMA ConvergingFlush ==
    ASSUME TypeOK, StopIsLast, EchoFormed, Flush
    PROVE  Converging'
<1> DEFINE st == [type |-> "stopping"]
           echo == IF acting = Nil THEN << >> ELSE acting.echo
<1>1. /\ bus' = bus \o <<st>> /\ UNCHANGED <<acting, zones, canonical, op, running>> /\ flushDue
    BY DEF Flush, Publish, aggregateVars
<1>2. StopIsCommitted
    BY <1>1 DEF StopIsLast, StopIsCommitted
<1>3. /\ \A i \in Instances : canonical[i] = Nil
      /\ acting # Nil => acting.update.type # "observation"
    BY <1>2 DEF StopIsLast
<1>4. bus \in Seq(Event) /\ st \in Event /\ echo \in Seq(Event)
    BY DEF TypeOK, AggregatorOK, Event
<1>5. \A k \in 1 .. Len(echo) : Leaves(echo[k]) = Nil
    BY <1>3 DEF EchoFormed, Leaves
<1>6. Due' = (bus \o <<st>>) \o echo
    BY <1>1 DEF Due
<1> HIDE DEF echo
<1>7. ASSUME NEW i \in Instances
      PROVE  LastLeaves(Due', i, Nil) /\ ~Silent(Due', i)
  <2>1. Concerns(st, i) /\ Leaves(st) = Nil
    BY DEF Concerns, Leaves
  <2> HIDE DEF st
  <2>2. LastLeaves(<<st>>, i, Nil) /\ ~Silent(<<st>>, i) /\ <<st>> \in Seq(Event)
    BY <1>4, <2>1, OneEvent
  <2>3. /\ bus \o <<st>> \in Seq(Event)
        /\ LastLeaves(bus \o <<st>>, i, Nil)
        /\ ~Silent(bus \o <<st>>, i)
    BY <1>4, <2>2, LastOfBoth, OneAfterTheOther
  <2>4. LastLeaves(echo, i, Nil)
    BY <1>5 DEF LastLeaves
  <2> QED BY <1>4, <1>6, <2>3, <2>4, LastOfBoth
<1> QED BY <1>1, <1>3, <1>7 DEF Converging, ComesTo

(* What a committed update does to the zone of an instance, and what it      *)
(* announces of it.                                                        *)
LEMMA CommitFor ==
    ASSUME TypeOK, Commit, Outcome(Head(ingress)) = "committed", NEW i \in Instances,
           Head(ingress).type # "stopped"
    PROVE  LET u == Head(ingress) IN
           \/ /\ zones'[i] = zones[i] /\ canonical'[i] = canonical[i]
              /\ Silent(Echo(u), i)
           \/ /\ u.type = "observation"
              /\ canonical'[i] = zones'[i]
              /\ LastLeaves(Echo(u), i, zones'[i]) /\ ~Silent(Echo(u), i)
           \/ /\ zones'[i] = Nil /\ canonical'[i] = Nil
              /\ LastLeaves(Echo(u), i, Nil)
<1> DEFINE u == Head(ingress)
<1>1. /\ u \in Update /\ canonical' = WrittenBy(u, canonical) /\ zones' = WrittenBy(u, zones)
    BY CommitQueue
<1> HIDE DEF u
<1>2. /\ zones \in [Instances -> Reading \cup {Nil}]
      /\ canonical \in [Instances -> Reading \cup {Nil}]
      /\ u.source \in Instances
      /\ u.type = "observation" => u.reading \in Reading
    BY <1>1, UpdateSources DEF TypeOK, AggregatorOK, u
<1>3. CASE u.type = "observation"
  <2> DEFINE e == [type |-> "found", inst |-> u.source, reading |-> u.reading]
  <2>1. Echo(u) = <<e>> /\ e \in Event
    <3>1. ~Retires(u)
      BY <1>3 DEF Retires
    <3>2. Echo(u) = <<e>>
      BY <1>3, <3>1 DEF Echo
    <3>3. ASSUME NEW s \in Instances, NEW r \in Reading
          PROVE  [type |-> "found", inst |-> s, reading |-> r] \in Event
      BY DEF Event
    <3>4. e \in Event
      BY <1>2, <1>3, <3>3, Zenon
    <3> QED BY <3>2, <3>4, Zenon
  <2>2. /\ zones' = [zones EXCEPT ![u.source] = u.reading]
        /\ canonical' = [canonical EXCEPT ![u.source] = u.reading]
    <3>1. ~Retires(u)
      BY <1>3 DEF Retires
    <3> QED BY <1>1, <1>3, <3>1 DEF WrittenBy
  <2>3. (Concerns(e, i) <=> u.source = i) /\ Leaves(e) = u.reading
    BY DEF Concerns, Leaves
  <2> HIDE DEF e
  <2>4. CASE u.source = i
    <3>1. zones'[i] = u.reading /\ canonical'[i] = u.reading
      BY <1>2, <2>2, <2>4
    <3>2. LastLeaves(<<e>>, i, u.reading) /\ ~Silent(<<e>>, i)
      BY <2>1, <2>3, <2>4, OneEvent
    <3> QED BY <1>3, <2>1, <3>1, <3>2 DEF u
  <2>5. CASE u.source # i
    <3>1. zones'[i] = zones[i] /\ canonical'[i] = canonical[i]
      BY <1>2, <2>2, <2>5
    <3>2. Silent(<<e>>, i)
      BY <2>1, <2>3, <2>5, OneEvent
    <3> QED BY <2>1, <3>1, <3>2 DEF u
  <2> QED BY <2>4, <2>5
<1>4. CASE u.type = "removed" /\ Retires(u)
  <2> DEFINE e == [type |-> "gone", inst |-> u.source]
  <2>1. (Echo(u) = <<e>> \/ Echo(u) = << >>) /\ e \in Event
    BY <1>1, <1>2, <1>4, EchoOfCommit DEF Event
  <2>2. /\ zones' = [zones EXCEPT ![u.source] = Nil]
        /\ canonical' = [canonical EXCEPT ![u.source] = Nil]
    BY <1>1, <1>4 DEF WrittenBy
  <2>3. (Concerns(e, i) <=> u.source = i) /\ Leaves(e) = Nil
    BY DEF Concerns, Leaves
  <2> HIDE DEF e
  <2>4. Silent(<< >>, i) /\ LastLeaves(<< >>, i, Nil)
    BY DEF Silent, LastLeaves
  <2>5. CASE u.source = i
    <3>1. zones'[i] = Nil /\ canonical'[i] = Nil
      BY <1>2, <2>2, <2>5
    <3>2. LastLeaves(<<e>>, i, Nil)
      BY <2>1, <2>3, <2>5, OneEvent
    <3> QED BY <2>1, <2>4, <3>1, <3>2 DEF u
  <2>6. CASE u.source # i
    <3>1. zones'[i] = zones[i] /\ canonical'[i] = canonical[i]
      BY <1>2, <2>2, <2>6
    <3>2. Silent(<<e>>, i)
      BY <2>1, <2>3, <2>6, OneEvent
    <3> QED BY <2>1, <2>4, <3>1, <3>2 DEF u
  <2> QED BY <2>5, <2>6
<1>5. CASE u.type # "observation" /\ ~Retires(u)
  <2>1. Echo(u) = << >>
    BY <1>5 DEF Echo
  <2>2. zones' = zones /\ canonical' = canonical
    BY <1>1, <1>5 DEF WrittenBy, u
  <2>3. Silent(<< >>, i)
    BY DEF Silent
  <2> QED BY <2>1, <2>2, <2>3 DEF u
<1> QED BY <1>3, <1>4, <1>5 DEF Retires

(* A commit announces what it writes, and once the stop is over it writes    *)
(* only what it takes back.                                                *)
LEMMA ConvergingCommit ==
    ASSUME Inductive, StopsNumbered, StopIsLast, Converging, Commit,
           UNCHANGED <<job, marker, op, running, flushDue>>
    PROVE  Converging'
<1> DEFINE u == Head(ingress)
<1>1. TypeOK
    BY DEF Inductive
<1>2. /\ 1 \in 1 .. Len(ingress) /\ u = ingress[1] /\ u \in Update
      /\ acting = Nil /\ bus' = bus /\ lost' = lost
    BY <1>1, CommitQueue DEF Commit, busVars
<1>3. StopRuns' = StopRuns
    BY DEF StopRuns
<1>4. bus \in Seq(Event) /\ Due = bus
    BY <1>1, <1>2, DueTyped
<1> HIDE DEF u
<1>5. CASE Outcome(u) # "committed"
  <2>1. UNCHANGED aggregateVars
    BY <1>5 DEF Commit, u
  <2>2. Due' = Due
    <3>1. \A s \in Seq(Event) : s \o << >> = s
      OBVIOUS
    <3>2. acting' = [update |-> u, outcome |-> Outcome(u), echo |-> << >>]
      BY <1>5 DEF Commit, u
    <3>3. (IF acting' = Nil THEN << >> ELSE acting'.echo) = << >>
      BY <3>2
    <3>4. Due' = bus \o << >>
      BY <1>2, <3>3 DEF Due
    <3> QED BY <1>4, <3>1, <3>4
  <2> QED BY <1>2, <1>3, <2>1, <2>2, ConvergingFrame DEF aggregateVars
<1>6. CASE Outcome(u) = "committed"
  <2> DEFINE E == Echo(u)
  <2>1. acting' # Nil /\ acting'.echo = E
    <3>1. acting' = [update |-> u, outcome |-> Outcome(u), echo |-> E]
      BY <1>6 DEF Commit, u
    <3>2. Outcome(u) \in {"committed", "stale", "gap"}
      BY <1>6
    <3>3. E \in Seq(Event)
      BY <1>2, EchoTyped
    <3> HIDE DEF E
    <3>4. \A o \in {"committed", "stale", "gap"} : [update |-> u, outcome |-> o, echo |-> E] # Nil
      BY <1>2, <3>3, AggregatorAssumption
    <3>5. acting' # Nil
      BY <3>1, <3>2, <3>4, Zenon
    <3> QED BY <3>1, <3>5
  <2>2. E \in Seq(Event) /\ Due' = bus \o E
    BY <1>2, <2>1, EchoTyped DEF Due
  <2> HIDE DEF E
  <2>3. ASSUME NEW i \in Instances, NEW v, ComesTo(i, v), zones'[i] = zones[i], Silent(E, i)
        PROVE  ComesTo(i, v)'
    BY <1>2, <1>4, <2>2, <2>3, LastOfBoth DEF ComesTo
  <2>4. ASSUME NEW i \in Instances, NEW v, zones'[i] = v, LastLeaves(E, i, v),
               Silent(E, i) => LastLeaves(bus, i, v)
        PROVE  ComesTo(i, v)'
    BY <1>4, <2>2, <2>4, LastOfBoth DEF ComesTo
  <2>5. ASSUME NEW i \in Instances, canonical'[i] # Nil, ~StopRuns
        PROVE  ComesTo(i, canonical[i])' 
    <3>1. u.type # "stopped"
      BY <1>2, <2>5, StopQueued, Zenon
    <3>2. \/ /\ zones'[i] = zones[i] /\ canonical'[i] = canonical[i]
             /\ Silent(E, i)
          \/ /\ canonical'[i] = zones'[i]
             /\ LastLeaves(E, i, zones'[i]) /\ ~Silent(E, i)
      BY <1>1, <1>6, <2>5, <3>1, CommitFor DEF u, E
    <3>3. CASE zones'[i] = zones[i] /\ canonical'[i] = canonical[i] /\ Silent(E, i)
      <4>1. ComesTo(i, canonical[i])
        BY <2>5, <3>3 DEF Converging
      <4>2. PICK v : v = canonical[i]
        OBVIOUS
      <4>3. ComesTo(i, v)'
        BY <2>3, <3>3, <4>1, <4>2
      <4> QED BY <3>3, <4>2, <4>3 DEF ComesTo
    <3>4. CASE canonical'[i] = zones'[i] /\ LastLeaves(E, i, zones'[i]) /\ ~Silent(E, i)
      <4>1. PICK v : v = zones'[i]
        OBVIOUS
      <4>2. ComesTo(i, v)'
        BY <2>4, <3>4, <4>1
      <4> QED BY <3>4, <4>1, <4>2 DEF ComesTo
    <3> QED BY <3>2, <3>3, <3>4
  <2>6. ASSUME NEW i \in Instances, ~running, ~StopRuns, ~flushDue
        PROVE  ComesTo(i, Nil)'
    <3>1. u.type # "stopped" /\ u.type # "observation"
      <4>1. StopIsCommitted
        BY <2>6 DEF StopIsCommitted
      <4>2. u.type # "observation"
        BY <1>2, <4>1 DEF StopIsLast
      <4> QED BY <1>2, <2>6, <4>2, StopQueued, Zenon
    <3>2. \/ zones'[i] = zones[i] /\ Silent(E, i)
          \/ zones'[i] = Nil /\ LastLeaves(E, i, Nil)
      BY <1>1, <1>6, <3>1, CommitFor DEF u, E
    <3>3. ComesTo(i, Nil) /\ LastLeaves(bus, i, Nil)
      BY <1>4, <2>6 DEF Converging, ComesTo
    <3> QED BY <2>3, <2>4, <3>2, <3>3
  <2> QED BY <1>3, <2>5, <2>6 DEF Converging
<1> QED BY <1>5, <1>6

(* What is due comes to what the reliable lane committed, and to nothing     *)
(* once the provider is stopped.                                           *)
LEMMA ConvergingStep ==
    ASSUME Inductive, EchoInv, [Next]_vars
    PROVE  Converging'
<1>1. TypeOK /\ JobsFormed /\ StopsNumbered /\ StopIsLast /\ EchoFormed /\ Converging
    BY DEF Inductive, EchoInv
<1>2. job \in [Publishers -> Job \cup {Nil}] /\ op \in Op \cup {Nil}
    BY <1>1 DEF TypeOK, BridgeOK, ManagerOK
<1>3. ASSUME UNCHANGED <<acting, bus, lost, zones, canonical>>, ~StopRuns' => ~StopRuns,
             ~running' /\ ~StopRuns' /\ ~flushDue' => ~running /\ ~flushDue
      PROVE  Converging'
  <2>1. Due' = Due
    BY <1>3 DEF Due
  <2> QED BY <1>1, <1>3, <2>1, ConvergingFrame
<1>4. CASE Commit /\ UNCHANGED <<job, marker, op, running, flushDue>>
    BY <1>1, <1>4, ConvergingCommit
<1>5. CASE Answer
    BY <1>1, <1>5, ConvergingAnswer
<1>6. CASE (Deliver \/ Lag) /\ UNCHANGED <<job, marker, op, running, flushDue>>
    BY <1>1, <1>6, ConvergingSubscriber
<1>7. CASE \E p \in Publishers : Send(p)
    BY <1>1, <1>3, <1>7, SendQueue DEF aggregateVars, busVars, StopRuns
<1>8. CASE StartManager \/ StopIdleManager
    BY <1>3, <1>8 DEF StartManager, StopIdleManager, Begins, aggregatorVars, aggregateVars,
       busVars, StopRuns
<1>9. CASE StopManager
  <2>1. op' = [kind |-> "stop", at |-> "join"] /\ [kind |-> "stop", at |-> "join"] \in Op
    BY <1>9 DEF StopManager, Op
  <2>2. StopRuns'
    BY <2>1, Constants DEF StopRuns
  <2>3. canonical' = canonical
    BY <1>9 DEF StopManager, aggregateVars
  <2> QED BY <2>2 DEF Converging
<1>10. CASE AnnounceStop
  <2>1. op # Nil /\ op.kind = "stop" /\ op' = [op EXCEPT !.at = "announce"]
    BY <1>10 DEF AnnounceStop
  <2>2. StopRuns
    BY <2>1 DEF StopRuns
  <2>3. op \in Op
    BY <1>2, <2>1
  <2>4. op' = [kind |-> "stop", at |-> "announce"]
    BY <2>1, <2>3 DEF Op
  <2>5. [kind |-> "stop", at |-> "announce"] \in Op
    BY DEF Op
  <2>6. StopRuns'
    BY <2>4, <2>5, Constants DEF StopRuns
  <2> QED BY <2>6 DEF Converging
<1>11. CASE Stopped
  <2>1. /\ UNCHANGED canonical /\ flushDue'
        /\ op # Nil /\ op.at = "announce" /\ job[Manager] = Nil
    BY <1>11 DEF Stopped, aggregatorVars, aggregateVars
  <2>2. op.kind = "stop"
    BY <1>2, <2>1 DEF Op
  <2>3. StopIsCommitted
    BY <1>1, <2>1, <2>2 DEF StopIsCommitted, StopIsLast, StopRuns
  <2>4. \A i \in Instances : canonical'[i] = Nil
    BY <1>1, <2>1, <2>3 DEF StopIsLast
  <2> QED BY <2>1, <2>4 DEF Converging
<1>12. CASE Flush
    BY <1>1, <1>12, ConvergingFlush
<1>13. CASE Unnoticed
  <2>1. StopRuns' = StopRuns
    BY <1>13 DEF Unnoticed, StopRuns
  <2> QED BY <1>3, <1>13, <2>1 DEF Unnoticed
<1> QED BY <1>1, <1>4, <1>5, <1>6, <1>7, <1>8, <1>9, <1>10, <1>11, <1>12, <1>13, EchoMoves

(* At first nothing is canonical, shown or due.                             *)
LEMMA InitEcho == Init => EchoInv
<1> SUFFICES ASSUME Init PROVE EchoInv
    OBVIOUS
<1> USE Constants, Tasks
<1>1. /\ ingress = << >> /\ acting = Nil /\ bus = << >> /\ cursor = [s \in Sources |-> Nil]
      /\ zones = [i \in Instances |-> Nil] /\ canonical = [i \in Instances |-> Nil]
      /\ ~running /\ op = Nil /\ ~flushDue /\ job = [p \in Publishers |-> Nil]
    BY DEF Init, AggregatorInit
<1>2. StopsNumbered
    BY <1>1 DEF StopsNumbered, Newer, Sources
<1>3. StopIsLast
    BY <1>1 DEF StopIsLast, StopRuns
<1>4. EchoFormed
    BY <1>1 DEF EchoFormed
<1>5. Due = << >>
    BY <1>1 DEF Due
<1>6. ASSUME NEW i \in Instances PROVE ComesTo(i, Nil)
  <2>1. \A k \in 1 .. Len(Due) : FALSE
    BY <1>5
  <2>2. zones[i] = Nil
    BY <1>1
  <2> QED BY <2>1, <2>2, Zenon DEF ComesTo, LastLeaves
<1>7. ASSUME NEW i \in Instances PROVE canonical[i] = Nil
    BY <1>1
<1>8. Converging
    BY <1>6, <1>7, Zenon DEF Converging
<1> QED BY <1>2, <1>3, <1>4, <1>8 DEF EchoInv

LEMMA EchoInvStep == Inductive /\ EchoInv /\ [Next]_vars => EchoInv'
<1> SUFFICES ASSUME Inductive, EchoInv, [Next]_vars PROVE EchoInv'
    OBVIOUS
<1>1. TypeOK /\ JobsFormed /\ StopsNumbered /\ StopIsLast /\ EchoFormed
    BY DEF Inductive, EchoInv
<1>2. StopsNumbered' /\ StopIsLast' /\ EchoFormed' /\ Converging'
    BY <1>1, NumberedStep, LastStep, EchoStep, ConvergingStep
<1> QED BY <1>2 DEF EchoInv

(* Late hints and flushes do no lasting harm: the aggregator's subscriber    *)
(* loop, which writes zones of its own accord from what it hears, ends with  *)
(* what commit_reliable_projection wrote, and with nothing of a provider     *)
(* that is stopped (stop_internal, stop_adapters_then_flush).                *)
THEOREM LateHintsConverge == Spec => []EchoesConverge
<1>1. Inductive /\ EchoInv => EchoesConverge
  <2> SUFFICES ASSUME EchoInv, AtRest, NEW i \in Instances \ lost
               PROVE  /\ canonical[i] # Nil => zones[i] = canonical[i]
                      /\ ~running => zones[i] = Nil
      BY Zenon DEF EchoesConverge
  <2>1. Due = << >> /\ ~StopRuns /\ ~flushDue
    BY DEF AtRest, Due, StopRuns
  <2>2. ASSUME NEW v, ComesTo(i, v) PROVE zones[i] = v
    BY <2>1, <2>2 DEF ComesTo, Silent
  <2> QED BY <2>1, <2>2 DEF EchoInv, Converging
<1>2. Init /\ [][Next]_vars /\ []Inductive => []EchoInv
    BY InitEcho, EchoInvStep, PTL
<1> QED BY <1>1, <1>2, AlwaysInductive, PTL DEF Spec
=============================================================================
