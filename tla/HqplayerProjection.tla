-------------------------- MODULE HqplayerProjection --------------------------
(***************************************************************************)
(* The HQPlayer instances behind the read model                            *)
(* (src/src/adapters/hqplayer.rs): the manager that adds, removes, starts  *)
(* and stops them, the worker of each instance that polls its daemon, the  *)
(* command endpoint that reads back after a native write, and the bridge   *)
(* through which all of them publish (HqpRuntimeBridge).                   *)
(*                                                                         *)
(* Operations of the manager hold its lifecycle lock from end to end, so   *)
(* one of them runs at a time; each is a chain of actions, one for every   *)
(* place where it waits.  The worker's poll is raced against its shutdown  *)
(* token: cancellation drops whatever it was waiting for.                  *)
(*                                                                         *)
(* The owned NAA relay (feature naa-proxy) is left out: without it         *)
(* start_outputs and stop_outputs do nothing.                              *)
(***************************************************************************)
EXTENDS ZoneAggregator

CONSTANTS
    MaxCommands,        \* bound on commands of an instance
    MaxFailures,        \* bound on failed polls of an instance
    MaxOps              \* bound on stops of the manager and removals

Worker(i) == <<"worker", i>>
Endpoint(i) == <<"endpoint", i>>
Manager == <<"manager", Lifecycle>>

ASSUME PublishersAssumption ==
    /\ Publishers = {Worker(i) : i \in Instances} \cup {Endpoint(i) : i \in Instances}
                       \cup {Manager}
    /\ Nil \notin Publishers
    /\ MaxCommands \in Nat /\ MaxFailures \in Nat /\ MaxOps \in Nat

Job == [phase : {"want", "stamped", "queued"}, update : Update]
Op == [kind : {"remove"}, inst : Instances, epoch : 0 .. MaxEpoch,
       at : {"stop", "join", "retire", "disconnect"}]
         \cup [kind : {"stop"}, at : {"join", "announce"}]

ASSUME JobsAssumption == Nil \notin Job /\ Nil \notin Op

VARIABLES
    (* HqpRuntimeBridge *)
    job,        \* the submission each publisher waits for, or Nil
    permit,     \* publication_locks: who publishes for an instance
    laneEpoch,  \* epochs: the session the bridge last published for
    laneSeq,    \* sequences
    marker,     \* marker_sequence
    (* HqpAdapter *)
    epoch,      \* producer_epoch: coherent native sessions so far
    connected,  \* a coherent session is open
    taken,      \* history: readings taken so far
    (* tasks *)
    worker,     \* run_managed
    endpoint,   \* run_hqplayer_command_endpoint
    readback,   \* the read-back the endpoint made for its command, or Nil
    markEpoch,  \* the session it confirms for
    cancelled,  \* the shutdown token of both
    budget,     \* commands and failed polls left
    (* HqpInstanceManager and AdapterCoordinator *)
    present,    \* instances (configured)
    floor,      \* producer_epoch_floors
    running,    \* running
    op,         \* the holder of lifecycle_lock, or Nil
    flushDue,   \* the coordinator owes its own AdapterStopping
    ops         \* operations begun so far

bridgeVars == <<job, permit, laneEpoch, laneSeq, marker>>
adapterVars == <<epoch, connected, taken>>
taskVars == <<worker, endpoint, readback, markEpoch, cancelled, budget>>
managerVars == <<present, floor, running, op, flushDue, ops>>
vars == <<aggregatorVars, bridgeVars, adapterVars, taskVars, managerVars>>

Init ==
    /\ AggregatorInit
    /\ job = [p \in Publishers |-> Nil]
    /\ permit = [i \in Instances |-> Nil]
    /\ laneEpoch = [i \in Instances |-> 0]
    /\ laneSeq = [i \in Instances |-> 0]
    /\ marker = 1
    /\ epoch = [i \in Instances |-> 0]
    /\ connected = [i \in Instances |-> FALSE]
    /\ taken = 0
    /\ worker = [i \in Instances |-> "off"]
    /\ endpoint = [i \in Instances |-> "off"]
    /\ readback = [i \in Instances |-> Nil]
    /\ markEpoch = [i \in Instances |-> 0]
    /\ cancelled = [i \in Instances |-> FALSE]
    /\ budget = [i \in Instances |-> [commands |-> MaxCommands, failures |-> MaxFailures]]
    /\ present = Instances                  \* load_from_config
    /\ floor = [i \in Instances |-> 0]
    /\ running = FALSE /\ op = Nil /\ flushDue = FALSE /\ ops = 0

-----------------------------------------------------------------------------
(* HqpRuntimeBridge::publish_entries.                                      *)

\* Publisher p asks for its update to be published, with the epoch it knows.
Wants(p, i, type, e, r, retires) ==
    job' = [job EXCEPT ![p] =
              [phase |-> "want",
               update |-> [source |-> i, epoch |-> e, seq |-> 0, type |-> type,
                           reading |-> r, retires |-> retires, by |-> p]]]

\* With the permit: epoch 0 stands for the session published last, and the next
\* sequence is taken before the update is sent.
Stamp(p) ==
    LET u == job[p].update
        e == IF u.epoch = 0 THEN laneEpoch[u.source] ELSE u.epoch IN
    /\ job[p] # Nil /\ job[p].phase = "want" /\ permit[u.source] = Nil
    /\ permit' = [permit EXCEPT ![u.source] = p]
    /\ laneEpoch' = [laneEpoch EXCEPT ![u.source] = e]
    /\ laneSeq' = [laneSeq EXCEPT ![u.source] = @ + 1]
    /\ job' = [job EXCEPT ![p] = [phase |-> "stamped",
                 update |-> [u EXCEPT !.epoch = e, !.seq = laneSeq[u.source] + 1]]]
    /\ UNCHANGED <<aggregatorVars, marker, adapterVars, taskVars, managerVars>>

\* ProjectionIngress::submit: wait for a slot, then for the actor's answer.
Send(p) ==
    /\ job[p] # Nil /\ job[p].phase = "stamped"
    /\ Len(ingress) < IngressCapacity
    /\ ingress' = Append(ingress, job[p].update)
    /\ job' = [job EXCEPT ![p].phase = "queued"]
    /\ UNCHANGED <<acting, aggregateVars, busVars, permit, laneEpoch, laneSeq, marker,
                   adapterVars, taskVars, managerVars>>

Release(p) == permit' = [i \in Instances |-> IF permit[i] = p THEN Nil ELSE permit[i]]

\* ProjectionActor::run, after the hints: answer the submitter if it still waits.
\* The answer's content is ignored by the bridge.
Answer ==
    LET u == acting.update IN
    /\ PublishEchoes
    /\ IF job[u.by] = [phase |-> "queued", update |-> u]
       THEN job' = [job EXCEPT ![u.by] = Nil] /\ Release(u.by)
       ELSE UNCHANGED <<job, permit>>
    /\ UNCHANGED <<laneEpoch, laneSeq, marker, adapterVars, taskVars, managerVars>>

-----------------------------------------------------------------------------
(* HqpAdapter: reading the daemon.                                         *)

\* A coherent read (read_coherent_pipeline) succeeds in the open session, and its
\* session check with it; r is what it read.
Reads(i, r) ==
    /\ connected[i] /\ taken < MaxReadings
    /\ taken' = taken + 1
    /\ r = [id |-> taken + 1, epoch |-> epoch[i]]
    /\ UNCHANGED <<epoch, connected>>

\* A coherent read fails, and leaves a session that may be open or not.
ReadFails(i) ==
    /\ \/ connected' = connected
       \/ connected' = [connected EXCEPT ![i] = FALSE]
    /\ UNCHANGED <<epoch, taken>>

\* connect, as the first part of a read that finds no session, or a broken one: a
\* coherent handshake opens the next session, which the read may then fail to use.
OpenSession(i) ==
    /\ \/ worker[i] = "poll" /\ ~cancelled[i]
       \/ endpoint[i] = "idle" /\ budget[i].commands > 0
       \/ endpoint[i] = "readback"
    /\ epoch[i] < MaxEpoch
    /\ epoch' = [epoch EXCEPT ![i] = @ + 1]
    /\ connected' = [connected EXCEPT ![i] = TRUE]
    /\ UNCHANGED <<aggregatorVars, bridgeVars, taken, taskVars, managerVars>>

-----------------------------------------------------------------------------
(* run_managed: the worker of an instance.                                 *)

Poll(i) ==
    /\ worker[i] = "poll" /\ ~cancelled[i]
    /\ \E r \in Reading :
          /\ Reads(i, r)
          /\ Wants(Worker(i), i, "observation", r.epoch, r, 0)
    /\ worker' = [worker EXCEPT ![i] = "observing"]
    /\ UNCHANGED <<aggregatorVars, permit, laneEpoch, laneSeq, marker,
                   endpoint, readback, markEpoch, cancelled, budget, managerVars>>

\* The read or its session check failed: tell the sink, under whatever epoch the
\* bridge published last.
PollFails(i) ==
    /\ worker[i] = "poll" /\ ~cancelled[i] /\ budget[i].failures > 0
    /\ ReadFails(i)
    /\ budget' = [budget EXCEPT ![i].failures = @ - 1]
    /\ Wants(Worker(i), i, "failure", 0, Nil, 0)
    /\ worker' = [worker EXCEPT ![i] = "failing"]
    /\ UNCHANGED <<aggregatorVars, permit, laneEpoch, laneSeq, marker,
                   endpoint, readback, markEpoch, cancelled, managerVars>>

\* The observation is published: sleep until the next poll.
PollDone(i) ==
    /\ worker[i] = "observing" /\ job[Worker(i)] = Nil
    /\ worker' = [worker EXCEPT ![i] = "poll"]
    /\ UNCHANGED <<aggregatorVars, bridgeVars, adapterVars,
                   endpoint, readback, markEpoch, cancelled, budget, managerVars>>

\* The failure is published: mark_disconnected, then sleep.
FailureDone(i) ==
    /\ worker[i] = "failing" /\ job[Worker(i)] = Nil
    /\ connected' = [connected EXCEPT ![i] = FALSE]
    /\ worker' = [worker EXCEPT ![i] = "poll"]
    /\ UNCHANGED <<aggregatorVars, bridgeVars, epoch, taken,
                   endpoint, readback, markEpoch, cancelled, budget, managerVars>>

\* Mutant of WorkerCancelled: the permit of a dropped publication is not returned.
WorkerCancelledLeaking(i) ==
    /\ cancelled[i] /\ worker[i] \in {"poll", "observing"}
    /\ job' = [job EXCEPT ![Worker(i)] = Nil]
    /\ worker' = [worker EXCEPT ![i] = "closing"]
    /\ UNCHANGED <<aggregatorVars, permit, laneEpoch, laneSeq, marker, adapterVars,
                   endpoint, readback, markEpoch, cancelled, budget, managerVars>>

\* The shutdown branch of either select!: a poll in progress is dropped wherever it
\* waits, and an update it already sent stays in the queue.
WorkerCancelled(i) ==
    /\ cancelled[i] /\ worker[i] \in {"poll", "observing"}
    /\ job' = [job EXCEPT ![Worker(i)] = Nil] /\ Release(Worker(i))
    /\ worker' = [worker EXCEPT ![i] = "closing"]
    /\ UNCHANGED <<aggregatorVars, laneEpoch, laneSeq, marker, adapterVars,
                   endpoint, readback, markEpoch, cancelled, budget, managerVars>>

\* disconnect_retaining_projection, and the end of the task.
WorkerCloses(i) ==
    /\ worker[i] = "closing"
    /\ connected' = [connected EXCEPT ![i] = FALSE]
    /\ worker' = [worker EXCEPT ![i] = "off"]
    /\ UNCHANGED <<aggregatorVars, bridgeVars, epoch, taken,
                   endpoint, readback, markEpoch, cancelled, budget, managerVars>>

-----------------------------------------------------------------------------
(* run_hqplayer_command_endpoint: what follows a native write.             *)

endpointFrame == <<aggregatorVars, worker, cancelled, managerVars>>

\* The native write returned; the read-back after it succeeds or fails.  After a
\* refused write the state is read too, but nothing is confirmed.
ReadBack(i, accepted) ==
    /\ endpoint[i] = "idle" /\ budget[i].commands > 0
    /\ budget' = [budget EXCEPT ![i].commands = @ - 1]
    /\ \/ \E r \in Reading :
             /\ Reads(i, r)
             /\ Wants(Endpoint(i), i, "observation", r.epoch, r, 0)
             /\ readback' = [readback EXCEPT ![i] = IF accepted THEN r ELSE Nil]
             /\ endpoint' = [endpoint EXCEPT ![i] = "observing"]
       \/ /\ ReadFails(i)
          /\ UNCHANGED <<job, readback, endpoint>>
    /\ UNCHANGED <<endpointFrame, permit, laneEpoch, laneSeq, marker, markEpoch>>

\* The read-back is published: note the session the confirmation will name.
ReadBackDone(i) ==
    /\ endpoint[i] = "observing" /\ job[Endpoint(i)] = Nil
    /\ markEpoch' = [markEpoch EXCEPT ![i] = epoch[i]]
    /\ endpoint' = [endpoint EXCEPT ![i] = IF readback[i] = Nil THEN "idle" ELSE "readback"]
    /\ UNCHANGED <<endpointFrame, bridgeVars, adapterVars, readback, budget>>

\* publish_hqplayer_runtime_readback of a pipeline change: the advanced options, in a
\* read of their own; without them nothing is confirmed.
ReadsAdvanced(i) ==
    /\ endpoint[i] = "readback"
    /\ \/ \E r \in Reading :
             /\ Reads(i, r)
             /\ Wants(Endpoint(i), i, "advanced", r.epoch, r, 0)
             /\ endpoint' = [endpoint EXCEPT ![i] = "advancing"]
       \/ /\ ReadFails(i)
          /\ UNCHANGED job
          /\ endpoint' = [endpoint EXCEPT ![i] = "idle"]
    /\ UNCHANGED <<endpointFrame, permit, laneEpoch, laneSeq, marker,
                   readback, markEpoch, budget>>

\* confirm_readback: at once for an interactive command, else after the options.
\* Another command of the same instance waits behind this one.
Confirm(i) ==
    /\ \/ endpoint[i] = "readback"
       \/ endpoint[i] = "advancing" /\ job[Endpoint(i)] = Nil
    /\ marker' = marker + 1
    /\ Wants(Endpoint(i), i, "marker", markEpoch[i], readback[i], 0)
    /\ endpoint' = [endpoint EXCEPT ![i] = "confirming"]
    /\ UNCHANGED <<endpointFrame, permit, laneEpoch, laneSeq, adapterVars,
                   readback, markEpoch, budget>>

ConfirmDone(i) ==
    /\ endpoint[i] = "confirming" /\ job[Endpoint(i)] = Nil
    /\ endpoint' = [endpoint EXCEPT ![i] = "idle"]
    /\ UNCHANGED <<endpointFrame, bridgeVars, adapterVars, readback, markEpoch, budget>>

\* The shutdown branch of its select!: between two commands, never within one.
EndpointCancelled(i) ==
    /\ cancelled[i] /\ endpoint[i] = "idle"
    /\ endpoint' = [endpoint EXCEPT ![i] = "off"]
    /\ UNCHANGED <<endpointFrame, bridgeVars, adapterVars, readback, markEpoch, budget>>

-----------------------------------------------------------------------------
(* HqpInstanceManager, and the coordinator that stops it.                  *)

\* start_worker, for each of the instances I.
Spawn(I) ==
    /\ worker' = [i \in Instances |-> IF i \in I THEN "poll" ELSE worker[i]]
    /\ endpoint' = [i \in Instances |-> IF i \in I THEN "idle" ELSE endpoint[i]]
    /\ cancelled' = [i \in Instances |-> IF i \in I THEN FALSE ELSE cancelled[i]]
    /\ UNCHANGED <<readback, markEpoch, budget>>

Joined(I) == \A i \in I : worker[i] = "off" /\ endpoint[i] = "off"

\* The bound counts stops and removals: every start but the first, and every addition,
\* follows one of them.
Begins == op = Nil /\ ops < MaxOps /\ ops' = ops + 1

\* start_internal.
StartManager ==
    /\ op = Nil /\ ~running /\ ~flushDue /\ present # {}
    /\ running' = TRUE
    /\ Spawn(present)
    /\ UNCHANGED <<aggregatorVars, bridgeVars, adapterVars, present, floor, op, ops, flushDue>>

\* configure_instance or add_instance of a name that has no adapter: a new adapter,
\* whose session counter starts at the floor of its name.
AddInstance(i) ==
    /\ op = Nil /\ i \notin present
    /\ present' = present \cup {i}
    /\ epoch' = [epoch EXCEPT ![i] = floor[i]]
    /\ connected' = [connected EXCEPT ![i] = FALSE]
    /\ IF running THEN Spawn({i}) ELSE UNCHANGED taskVars
    /\ UNCHANGED <<aggregatorVars, bridgeVars, taken, floor, running, op, ops, flushDue>>

\* remove_instance: the adapter leaves the map, and its session is read ...
RemoveInstance(i) ==
    /\ Begins /\ i \in present
    /\ present' = present \ {i}
    /\ floor' = [floor EXCEPT ![i] = IF @ > epoch[i] THEN @ ELSE epoch[i]]
    /\ op' = [kind |-> "remove", inst |-> i, epoch |-> epoch[i], at |-> "stop"]
    /\ UNCHANGED <<aggregatorVars, bridgeVars, adapterVars, taskVars, running, flushDue>>

\* ... only then are its tasks cancelled (stop_worker) ...
StopWorker ==
    /\ op # Nil /\ op.at = "stop"
    /\ cancelled' = [cancelled EXCEPT ![op.inst] = TRUE]
    /\ op' = [op EXCEPT !.at = "join"]
    /\ UNCHANGED <<aggregatorVars, bridgeVars, adapterVars,
                   worker, endpoint, readback, markEpoch, budget,
                   present, floor, running, flushDue, ops>>

\* Mutant of Retire: the command endpoint is cancelled but not joined.
RetireUnjoined ==
    /\ op # Nil /\ op.kind = "remove" /\ op.at = "join" /\ worker[op.inst] = "off"
    /\ Wants(Manager, op.inst, "removed", op.epoch, Nil, op.epoch)
    /\ op' = [op EXCEPT !.at = "retire"]
    /\ UNCHANGED <<aggregatorVars, permit, laneEpoch, laneSeq, marker, adapterVars, taskVars,
                   present, floor, running, flushDue, ops>>

\* ... and joined; then the session that was read is retired ...
Retire ==
    /\ op # Nil /\ op.kind = "remove" /\ op.at = "join" /\ Joined({op.inst})
    /\ Wants(Manager, op.inst, "removed", op.epoch, Nil, op.epoch)
    /\ op' = [op EXCEPT !.at = "retire"]
    /\ UNCHANGED <<aggregatorVars, permit, laneEpoch, laneSeq, marker, adapterVars, taskVars,
                   present, floor, running, flushDue, ops>>

\* ... and the adapter disconnected, which retires a session that was still open.
Disconnect ==
    /\ op # Nil /\ op.at = "retire" /\ job[Manager] = Nil
    /\ connected' = [connected EXCEPT ![op.inst] = FALSE]
    /\ op' = IF connected[op.inst] THEN [op EXCEPT !.at = "disconnect"] ELSE Nil
    /\ IF connected[op.inst]
       THEN Wants(Manager, op.inst, "removed", epoch[op.inst], Nil, epoch[op.inst])
       ELSE UNCHANGED job
    /\ UNCHANGED <<aggregatorVars, permit, laneEpoch, laneSeq, marker, epoch, taken, taskVars,
                   present, floor, running, flushDue, ops>>

Removed ==
    /\ op # Nil /\ op.at = "disconnect" /\ job[Manager] = Nil
    /\ op' = Nil
    /\ UNCHANGED <<aggregatorVars, bridgeVars, adapterVars, taskVars,
                   present, floor, running, flushDue, ops>>

\* The coordinator stops a manager that does not run: stop_internal returns at once.
StopIdleManager ==
    /\ Begins /\ ~running
    /\ flushDue' = TRUE
    /\ UNCHANGED <<aggregatorVars, bridgeVars, adapterVars, taskVars,
                   present, floor, running, op>>

\* stop_internal: announce the stop, cancel every task ...
StopManager ==
    /\ Begins /\ running
    /\ running' = FALSE
    /\ Publish(<<[type |-> "stopping"]>>)
    /\ cancelled' = [i \in Instances |-> cancelled[i] \/ i \in present]
    /\ op' = [kind |-> "stop", at |-> "join"]
    /\ UNCHANGED <<ingress, acting, aggregateVars, bridgeVars, adapterVars,
                   worker, endpoint, readback, markEpoch, budget, present, floor, flushDue>>

\* ... join them, and commit the stop under a source of its own ...
AnnounceStop ==
    /\ op # Nil /\ op.kind = "stop" /\ op.at = "join" /\ Joined(Instances)
    /\ marker' = marker + 1
    /\ job' = [job EXCEPT ![Manager] =
                 [phase |-> "stamped",
                  update |-> [source |-> Lifecycle, epoch |-> 0, seq |-> marker,
                              type |-> "stopped", reading |-> Nil, retires |-> 0,
                              by |-> Manager]]]
    /\ op' = [op EXCEPT !.at = "announce"]
    /\ UNCHANGED <<aggregatorVars, permit, laneEpoch, laneSeq, adapterVars, taskVars,
                   present, floor, running, flushDue, ops>>

\* ... and return to the coordinator,
Stopped ==
    /\ op # Nil /\ op.at = "announce" /\ job[Manager] = Nil
    /\ op' = Nil /\ flushDue' = TRUE
    /\ UNCHANGED <<aggregatorVars, bridgeVars, adapterVars, taskVars,
                   present, floor, running, ops>>

\* which announces the stop once more (stop_adapters_then_flush).
Flush ==
    /\ flushDue
    /\ flushDue' = FALSE
    /\ Publish(<<[type |-> "stopping"]>>)
    /\ UNCHANGED <<ingress, acting, aggregateVars, bridgeVars, adapterVars, taskVars,
                   present, floor, running, op, ops>>

-----------------------------------------------------------------------------

Actor ==
    \/ Commit /\ UNCHANGED <<bridgeVars, adapterVars, taskVars, managerVars>>
    \/ Answer

Subscriber == (Deliver \/ Lag) /\ UNCHANGED <<bridgeVars, adapterVars, taskVars, managerVars>>

WorkerStep(i) == Poll(i) \/ PollFails(i) \/ PollDone(i) \/ FailureDone(i)
                   \/ WorkerCancelled(i) \/ WorkerCloses(i)

EndpointStep(i) == (\E accepted \in BOOLEAN : ReadBack(i, accepted)) \/ ReadBackDone(i)
                     \/ ReadsAdvanced(i) \/ Confirm(i) \/ ConfirmDone(i) \/ EndpointCancelled(i)

ManagerStep == StopWorker \/ Retire \/ Disconnect \/ Removed
                 \/ AnnounceStop \/ Stopped \/ Flush

Next ==
    \/ Actor \/ Subscriber
    \/ \E p \in Publishers : Stamp(p) \/ Send(p)
    \/ \E i \in Instances : OpenSession(i) \/ WorkerStep(i) \/ EndpointStep(i)
    \/ \E i \in Instances : AddInstance(i) \/ RemoveInstance(i)
    \/ StartManager \/ StopManager \/ StopIdleManager \/ ManagerStep

Spec == Init /\ [][Next]_vars

\* What the code's scheduling guarantees: the actor runs; a task
\* that can continue does; the semaphore and the channel are first come, first
\* served; a read of a daemon ends, and a poll that cannot be taken (a bound of the
\* model) is cut short by cancellation.  Nobody is obliged to begin an operation.
Fairness ==
    /\ WF_vars(Actor) /\ WF_vars(ManagerStep)
    /\ \A p \in Publishers : SF_vars(Stamp(p) \/ Send(p))
    /\ \A i \in Instances :
          /\ WF_vars(PollDone(i) \/ FailureDone(i) \/ WorkerCancelled(i) \/ WorkerCloses(i))
          /\ WF_vars(ReadBackDone(i) \/ ReadsAdvanced(i) \/ Confirm(i) \/ ConfirmDone(i)
                       \/ EndpointCancelled(i))

FairSpec == Spec /\ Fairness

-----------------------------------------------------------------------------
(* Properties.                                                             *)

AggregatorOK ==
    /\ ingress \in Seq(Update)
    /\ acting \in {Nil} \cup [update : Update, outcome : {"committed", "stale", "gap"},
                              echo : Seq(Event)]
    /\ cursor \in [Sources -> Cursor \cup {Nil}]
    /\ zones \in [Instances -> Reading \cup {Nil}]
    /\ canonical \in [Instances -> Reading \cup {Nil}]
    /\ snapshot \in [Instances -> Snapshot \cup {Nil}]
    /\ bus \in Seq(Event) /\ lost \in SUBSET Instances

BridgeOK ==
    /\ job \in [Publishers -> Job \cup {Nil}]
    /\ permit \in [Instances -> Publishers \cup {Nil}]
    /\ laneEpoch \in [Instances -> 0 .. MaxEpoch] /\ laneSeq \in [Instances -> Nat]
    /\ marker \in Nat

AdapterOK ==
    /\ epoch \in [Instances -> 0 .. MaxEpoch] /\ connected \in [Instances -> BOOLEAN]
    /\ taken \in 0 .. MaxReadings

TasksOK ==
    /\ worker \in [Instances -> {"off", "poll", "observing", "failing", "closing"}]
    /\ endpoint \in [Instances -> {"off", "idle", "observing", "readback", "advancing",
                                   "confirming"}]
    /\ readback \in [Instances -> Reading \cup {Nil}]
    /\ markEpoch \in [Instances -> 0 .. MaxEpoch]
    /\ cancelled \in [Instances -> BOOLEAN]
    /\ budget \in [Instances -> [commands : 0 .. MaxCommands, failures : 0 .. MaxFailures]]

ManagerOK ==
    /\ present \in SUBSET Instances /\ floor \in [Instances -> 0 .. MaxEpoch]
    /\ running \in BOOLEAN /\ op \in Op \cup {Nil}
    /\ flushDue \in BOOLEAN /\ ops \in 0 .. MaxOps

\* Every variable of the composition has its type.
TypeOK == AggregatorOK /\ BridgeOK /\ AdapterOK /\ TasksOK /\ ManagerOK

\* A commit shows the zone and the native snapshot of one and the same reading, or
\* neither: the zone, which has no fence of its own, is never admitted with an
\* observation that the snapshot's session fence refuses.
PairsCommittedTogether ==
    [][\A i \in Instances : \A r \in Reading :
          /\ acting = Nil /\ acting' # Nil
          /\ acting'.outcome = "committed" /\ acting'.update.type = "observation"
          /\ acting'.update.source = i /\ acting'.update.reading = r
          => zones'[i] = r /\ snapshot'[i] # Nil /\ snapshot'[i].obs = r]_vars

\* The pipeline and the advanced options that a snapshot shows were read in the
\* native session of its observation, whatever reads, reconnects and late
\* publications of the worker and the endpoint came between.
AdvancedOfItsSession ==
    \A i \in Instances : snapshot[i] # Nil =>
        /\ snapshot[i].pipeline.epoch = snapshot[i].obs.epoch
        /\ snapshot[i].advanced # Nil => snapshot[i].advanced.epoch = snapshot[i].obs.epoch

\* The removal of i has joined its tasks, or has returned.
Joinless(i) ==
    /\ i \notin present
    /\ op # Nil /\ op.kind = "remove" /\ op.inst = i => op.at \notin {"stop", "join"}

\* Nothing that a child of an instance publishes can follow the retirement of the
\* instance: no child has a publication under way, and what one left in the queue
\* (a dropped poll) is ahead of the retirement.
NothingBehindRetirement ==
    \A i \in Instances : Joinless(i) =>
        /\ job[Worker(i)] = Nil /\ job[Endpoint(i)] = Nil
        /\ \A k, l \in 1 .. Len(ingress) :
              /\ k < l
              /\ ingress[k].source = i /\ ingress[k].type = "removed"
              => ingress[l].source # i

\* No task waits, no update is queued, no event is undelivered.
AtRest ==
    /\ ingress = << >> /\ acting = Nil /\ bus = << >> /\ op = Nil /\ ~flushDue
    /\ \A p \in Publishers : job[p] = Nil

\* At rest a zone that the reliable lane committed is shown as committed, and a
\* stopped provider shows none, unless the subscriber lost the latest event about
\* it: late hints and flushes, also those of a stop that a start has overtaken, do
\* no lasting harm.
EchoesConverge ==
    AtRest => \A i \in Instances \ lost :
        /\ canonical[i] # Nil => zones[i] = canonical[i]
        /\ ~running => zones[i] = Nil

\* An operation of the manager that began returns, whatever the worker was waiting
\* for when it was cancelled.
OperationsReturn == (op # Nil) ~> (op = Nil)

\* Once remove_instance has returned and all is quiet, nothing of the instance is left.
RetiredIsGone ==
    AtRest => \A i \in (Instances \ present) \ lost : zones[i] = Nil /\ snapshot[i] = Nil

-----------------------------------------------------------------------------
(* What the invariants rest on: together with TypeOK and AdvancedOfItsSession *)
(* these are inductive.                                                      *)

SameSession(u) == u.type = "observation" => u.epoch = u.reading.epoch

\* A submission is its publisher's own, made in the phase that waits for it.
JobsFormed ==
    /\ \A p \in Publishers : job[p] # Nil =>
          /\ job[p].update.by = p
          /\ SameSession(job[p].update)
          /\ job[p].phase = "want" => job[p].update.type # "stopped"
          /\ job[p].update.type = "removed" => p = Manager
    /\ \A i \in Instances :
          /\ job[Worker(i)] # Nil =>
                worker[i] \in {"observing", "failing"} /\ job[Worker(i)].update.source = i
          /\ job[Endpoint(i)] # Nil =>
                /\ endpoint[i] \in {"observing", "advancing", "confirming"}
                /\ job[Endpoint(i)].update.source = i
    /\ job[Manager] # Nil =>
          /\ op # Nil /\ op.at \in {"retire", "disconnect", "announce"}
          /\ op.kind = "remove" => job[Manager].update.source = op.inst
          /\ op.kind = "stop" => job[Manager].update.source = Lifecycle

\* Only an accepted write is confirmed.
ReadBackKept == \A i \in Instances : endpoint[i] \in {"readback", "advancing"} => readback[i] # Nil

\* The manager waits for what it submitted, and submits one update at a time.
QueueFormed ==
    /\ \A k \in 1 .. Len(ingress) :
          /\ SameSession(ingress[k])
          /\ ingress[k].type = "removed" => ingress[k].by = Manager
          /\ ingress[k].by = Manager =>
                job[Manager] = [phase |-> "queued", update |-> ingress[k]]
    /\ \A k, l \in 1 .. Len(ingress) :
          k < l /\ ingress[k].by = Manager => ingress[l].by # Manager
    /\ acting # Nil /\ acting.update.by = Manager =>
          /\ job[Manager] = [phase |-> "queued", update |-> acting.update]
          /\ \A k \in 1 .. Len(ingress) : ingress[k].by # Manager

\* An instance that is being removed has left the map, one whose removal has joined
\* its tasks has none, and a manager that has joined all of them has none.
TasksGone(i) == worker[i] = "off" /\ endpoint[i] = "off"
RemovalFormed ==
    /\ op # Nil /\ op.kind = "remove" => op.inst \notin present
    /\ \A i \in Instances : Joinless(i) => TasksGone(i)
    /\ ~running /\ ~(op # Nil /\ op.kind = "stop" /\ op.at = "join") =>
          \A i \in Instances : TasksGone(i)

\* Behind a retirement the queue holds nothing of its instance.
RetirementLast ==
    \A k, l \in 1 .. Len(ingress) :
        k < l /\ ingress[k].type = "removed" => ingress[l].source # ingress[k].source

\* The cursor of an instance has seen the session that its snapshot shows.
SnapshotBehindCursor ==
    \A i \in Instances : snapshot[i] # Nil =>
        cursor[i] # Nil /\ snapshot[i].obs.epoch <= cursor[i].epoch

Inductive ==
    /\ TypeOK /\ JobsFormed /\ ReadBackKept /\ QueueFormed /\ RemovalFormed
    /\ RetirementLast /\ SnapshotBehindCursor /\ AdvancedOfItsSession

=============================================================================
