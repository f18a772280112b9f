# A verification project for the unified hi-fi control bridge

The bridge (`src/src`, Rust on tokio) puts one control surface in front of many
music systems: Roon, LMS, UPnP, OpenHome, HQPlayer and several cloud providers
are *adapters*; HTTP, SSE, MCP, MQTT, a cloud connector and hardware knobs are
*surfaces*. Between them are an event bus, a read model (the aggregator) and a
command runtime with deadlines. The project consists of TLA+ modules, TLC
configurations and TLAPS proofs about the parts where tasks, messages, files and
timers meet.

* Part 1 is the inventory of the system.
* Part 2 says which module models what, and what is abstracted.
* Part 3 lists the runs, their bounds and their fairness.
* Part 4 describes the proofs.
* Part 5 lists what the code does against its documentation, and what else
  we noticed.
* Part 6 says what is not modelled, and why.

## 1. The system

| part (source under `src/src`) | state | operations | talks to |
| --- | --- | --- | --- |
| command runtime (`bus/runtime.rs`) | records and correlations behind one lock, endpoint registry, a watch channel for each command | `submit`, `begin_dispatch`, `complete_native`, dispatch expiry, confirmation timeout, `record_projection_outcome` | adapters' workers through bounded channels, surfaces through `CommandTicket` |
| projection actor (`bus/runtime.rs`) | one bounded queue | commit one update, answer its submitter | the aggregator |
| aggregator (`aggregator.rs`) | zones, HQPlayer snapshots, source cursors, revision | `commit_reliable_projection`, a subscriber loop | the bus, every reader |
| event bus (`bus/mod.rs`) | a tokio broadcast channel | `publish`, `subscribe`; a slow receiver lags | everyone |
| HQPlayer manager and adapters (`adapters/hqplayer.rs`) | instances, session floors, a lifecycle lock; for each instance a session, a poller and a command endpoint | add, remove, start, stop, poll, command, read back | runtime, projection actor, the daemons |
| adapter coordinator and run loop (`coordinator.rs`, `adapters/handle.rs`) | registered adapters, which are enabled and which run | start and stop a provider with its companions, flush, retry with backoff | settings API, adapters, bus, aggregator |
| LMS adapter (`adapters/lms.rs`) | server, players, a poller and a CLI observer, each with a token | configure, start, stop, poll, publish | coordinator, projection actor |
| NAA relay (`adapters/hqplayer/naa/relay.rs`) | saved routes and the selected one, a generation, a routing gate, one session, worker threads | edit, select, clear, listen, accept, forward | HQPlayer, audio endpoints |
| outputs coordinator (`adapters/hqplayer/naa/coordinator.rs`) | a ledger of operations, the pending selection | select, stop, edit, configure; suspend and resume what plays | relay, HQPlayer's transport, a paired source |
| other adapters (`adapters/*.rs`) | a connection and a cache each | run, command endpoint, callbacks | runtime, bus |
| cloud connector (`cloud_connector`) | files: schedule of attempts, hourly budget, quarantine, session epoch; memories of grants and of results | reserve, connect, verify, execute, answer, resume | a cloud service, the gateway |
| MQTT publisher (`mqtt`) | a cache of what is retained, a bounded request channel | publish what changed, announce, reconnect | a broker, the bus, the knob store |
| adaptive producers (`producers`) | documents, retirement floors, immediate commands | admit, retire, execute | composed in the library, not in `main.rs` |
| surfaces (`api`, `mcp`, `knobs`, `app`) | settings files, stores behind a lock | submit commands, read the aggregate | runtime, aggregator |

`PROJECT.json` lists these parts with their status (`components`) and the
hazards of the code line by line (`hazards`). The behaviours that are hard to
get right are the following.

* **Commands.** A command has two deadlines and at least four tasks that
  may end it: the submit call, the expiry task, the endpoint's worker and the
  confirmation task. Queue slots are awaited, futures are dropped, adapters are
  stopped and started with a worker still busy, and confirmations arrive by
  another lane, in any order with the native answer. What makes it correct: a
  refusal is never followed (or preceded) by a native write, a confirmation
  belongs to its own command, native writes of a key have one writer, every
  command has a task that will end it, and a ticket shows its status.
* **Projections.** Zones are written by the reliable lane, which is
  fenced by epochs and sequences, and a second time by the aggregator's own subscriber
  from lossy hints that the reliable lane caused. What makes it correct: the
  zone and the native snapshot of one observation stay together, options stay
  with their session, and the late hints do no lasting harm.
* **Lifecycles.** Workers are spawned, cancelled and joined by requests that save
  settings, may fail half-way and are rolled back. What makes it correct: operations
  return, nobody loses the only handle of a worker, settings and workers agree
  again, and a removed instance or a former server leaves nothing behind.
* **Outputs.** Selecting an output interrupts what plays, commits a route and
  resumes, in some twenty awaits, each of which a stop, an edit or a newer selection
  may overtake, while sessions come and go on threads. What makes it correct: audio
  is one stream to the endpoint chosen last, a stop is the last word, evidence of
  success is the selection's own, and nothing hangs.
* **The cloud.** Attempts are rationed by files that a crash, a full disk or a
  jump of the clock may spoil; envelopes arrive late, twice and in any order. What
  makes it correct: a restart never refills the budget, nothing strands the
  connector, a grant or a key executes once within the retention, and the relay hears
  the truth.
* **Retained messages.** The publisher skips what it believes the broker holds.
  What makes it correct: whenever it may be wrong it forgets its belief.

## 2. The modules

| component | modules |
| --- | --- |
| command runtime, endpoints of Roon, UPnP, OpenHome | `CommandLedger`, `ReliableRuntime`, `MCReliableRuntime`, `ReliableRuntime_proofs` |
| aggregator, HQPlayer manager | `ZoneAggregator`, `HqplayerProjection`, `MCHqplayerProjection`, `HqplayerProjection_proofs` |
| coordinator, LMS, settings requests | `AdapterLifecycle`, `MCAdapterLifecycle`, `AdapterLifecycle_proofs` |
| NAA relay | `OneOutput`, `RelayContract`, `NaaRelay`, `NaaRelay_proofs` |
| outputs coordinator | `HqpOutputs` (over `RelayContract`), `HqpOutputs_proofs` |
| cloud connector | `CloudConnector`, `MCCloudConnector`, `CloudConnector_proofs`; `CloudCommands`, `MCCloudCommands`, `CloudCommands_proofs` |
| MQTT publisher, event bus | `MqttPublisher`, `MqttPublisher_proofs` |

Definitions called "Mutant of X" are plausible mistakes in X; they belong to no
specification, and show that a property notices them. An MC module gives the
constants their small values where a configuration cannot.

### 2.1 `CommandLedger`, `ReliableRuntime`

`CommandLedger` is the abstract specification: the life of a command as a caller
may observe it (none, pending, refused, started, uncertain, confirmed, failed)
and the set of commands that reached a provider. It has no queue, worker or timer.

`ReliableRuntime` is `bus/runtime.rs` together with the code that calls it.
A step is one critical section or one await of the code.

* A submit call is `Begin`, `Lookup` (`ticket_for_correlation`), `Insert`
  (`insert_record`), `RouteCall`, then `Enqueue`, `ReserveFailed` or
  `CancelSubmit`. `Lookup` and `Insert` take the data lock separately, as the code
  does. `CancelSubmit` stands for a future dropped at its only await.
* The timers are `DispatchExpires` and `ConfirmationTimesOut`. Time is a clock
  for each call with three readings: before `dispatch_by`, before `confirm_by`, after.
* The worker of an endpoint is `Receive`, `CheckDeadline` and `BeginDispatch` (the
  clock is read before the lock that decides), `Arm`, `NativeAccepted` or
  `NativeFailed`, `ReadBack`, `Settle`, `WorkerExit`. The model follows
  two shapes of worker: that of Roon, which arms a bridge and is
  confirmed by a callback, and that of the providers that read back (HQPlayer,
  UPnP, OpenHome, LMS). `ExactProviders` register an endpoint for each zone.
* An adapter's run is `StartRun`, `StopRun`, `Observe` and `MatchingCallback`; the
  registration that a start fails to obtain is part of `StartRun`.
* The projection actor is `Commit` and `RecordOutcome`, two steps, because the
  ledger is updated after the aggregate's commit.
* `status` is the record, and `seen` is the value in the watch channel. They differ
  because `watch::Sender::send` stores nothing while it has no receiver.

A command's payload and target are model values, and what the committer answers is a
new revision or a refusal, chosen freely (the aggregator's own rules are in the
second part). Left out are notifications, which are hints without state;
`EndpointWork::refuse`, whose two calls (`hqplayer.rs:11007`, `11011`) cannot be
reached because one worker takes one command at a time and drops its guard before
the next; and what HQPlayer's output commands do inside the endpoint, where
`HqpOutputs` goes on.

### 2.2 `ZoneAggregator`, `HqplayerProjection`

`ZoneAggregator` is the aggregate for the sources that keep a second document
beside the zone, which are the HQPlayer instances and their manager. `Commit` is
`commit_reliable_projection`, with its admission (`Stale`, `Gap`) and its entries
(`Observed`, `WithAdvanced`, `LastKnown`, `Retires`). `PublishEchoes` is the
publication of hints after the lock is released, and `Deliver` is the subscriber
loop, which writes the zone without any fence. `Lag` drops the oldest event.

`HqplayerProjection` composes it with the bridge (`Stamp`, `Send`, `Answer`: the
permit of an instance, the epoch and sequence, the bounded queue, the answer),
the adapter (`OpenSession`, `Reads`, `ReadFails`), the worker (`Poll`,
`PollFails`, `PollDone`, `FailureDone`, `WorkerCancelled`, `WorkerCloses`), the
command endpoint (`ReadBack`, `ReadBackDone`, `ReadsAdvanced`, `Confirm`,
`ConfirmDone`, `EndpointCancelled`) and the manager. An operation of the manager
holds the lifecycle lock from end to end and is a chain of actions, one for every
place where it waits: `RemoveInstance`, `StopWorker`, `Retire`, `Disconnect`,
`Removed`; `StopManager`, `AnnounceStop`, `Stopped`; then the coordinator's
`Flush`. `StartManager` and `AddInstance` do not wait.

* A document is the *reading* of the daemon that it shows: its number and its native
  session. All that the fences compare is in it.
* The hints of one commit (discovery, then what changed) are one event, since they
  are published together and about one zone.
* A lagging receiver may lose any event. `lost` remembers the instances whose
  latest event was lost, `canonical` the zones as the reliable lane alone would
  leave them; both only serve properties.
* The daemon's protocol is abstracted to a read that succeeds or fails, with or
  without the loss of the session. The session check that follows a read in the code is part of it.

Left out: profiles; the roll-back of `remove_instance` when the sink
refuses, which happens only when the runtime has gone; the restart of a worker
that panicked; reconfiguration of an instance that exists (only add and remove);
`refresh_*`, which have no callers; saving the configuration file; the other
documents of the aggregate. `StartManager` waits for the coordinator's second
`AdapterStopping` to be published, and not for its effect: the coordinator waits
for an acknowledgement, with a time limit.

### 2.3 `AdapterLifecycle`

The requests that start, stop and reconfigure adapters (`POST /api/settings`, `POST
/lms/configure`, `POST /api/zones/visibility`), the coordinator's registry, and the two
LMS workers with the path of what they observe into the list of zones.

A request is a list of *steps*, one for each place where its handler waits, and
`Serve` executes the head. `StartGroup`, `StopGroup`, `Changes`, `Rollback` and
`Configuration` build the lists in the order of the code; `Failed` replaces what is
left of the list by the roll-back. A start of an observer is `Claim`, `FreshToken`,
`Spawn`, `Track`, and a stop is `Cancel`, `Join`, `Stopped`, `Flush`. Workers take the
server when they poll, so an answer may be about a former one (`Poll`, `Answer`,
`Submit`).

LMS is modelled with its companion. HQPlayer appears as a provider whose start may
fail, its own workers being the subject of 2.2. A zone is the server it was read from.
The wait for `ZonesFlushed` is bounded in the code, and does not wait in the model.

The code does not serialise its requests, and neither does the model: any number of
handlers may be at work. A poller also ends by itself when its polls keep failing
(`RunFails`): it clears its mark, waits, and runs again, and in between a start does not
see it. `crossed` is the history of both: two requests (`Crosses`), or two runs of an
observer (`Claim`), have overlapped. Three others (`lost`, `orphaned`, `unsaved`) name the
remaining exceptions that properties make. Two pairs of steps are one in the model: a stop
cancels the token and takes the handle (`Cancel`), and a start spawns the task and stores
its handle (`Spawn`).

`MCAdapterLifecycle` is the instance that is checked. Requests that follow one another
interleave with everything the observers do; two that overlap are about LMS only, and overlap
where nothing has been observed (`Silent`), so that the steps of the two and the life of the
workers are all that interleaves.

### 2.4 `OneOutput`, `RelayContract`, `NaaRelay`, `HqpOutputs`

`NaaRelay` is `relay.rs` with the threads of `protocol.rs`. Every action is a critical
section of the relay's lock or the step of a thread between two of them. The owner's calls are
`AddRoutes`, `UpdateRoute`, `RemoveRoute`, `CommitSelection`, `ClearSelection`,
`BumpGeneration`, `DisableRouting`, `StartListener` (then `Bound`) and `StopListener`
(then `Joined`, `Drained`). The accept loop is `Poll`, `NoClient`, `LoopEnds`, `Refuse`,
`Reserve`; a thread is `Attach`, `Milestone`, `FinishOwn`, `Finish`. `Crash` is a
restart that reloads the saved routes. `Persist` may fail in every operation that saves.

Two specifications abstract from it. `OneOutput` says what a listener notices: audio goes
to one endpoint at a time, the chosen one. `RelayContract` says what the
coordinator may rely on: whatever closes the session begins a new generation, unless the
session ends by itself, and a session tells under which generation it began.
`NaaRelay` implements both.

`HqpOutputs` is `coordinator.rs`, and EXTENDS `RelayContract`: the coordinator is composed
with what the relay promises, not with its threads. Commands are executed one at a time
by the endpoint (`busy`): `Select`, `StopOutput`, `Edit`, `Configure` admit an operation,
and `Direct`, `Clear`, `Halt`, `Edited`, `Unbind`, `Bind` and so on carry it out. A select of a
playing instance goes to a task of its own (`select_sequence`), whose state is the point
it has reached (`at`), one for each await; `cancelled` is its token, `pre` and `gen`
the generations that its fences compare, `lease` the adapter's operation lock that native
writes take. `native` is a history of the last native write.

### 2.5 `CloudConnector`, `CloudCommands`

`CloudConnector` is the supervised run of the connector (`Load`, `Admit`, `Wake`, `Reserve`,
`Connect`, `Disconnect`, `Stop`) with its four files: schedule, attempts of the hour,
quarantine with cooldown, epoch. Every write of a file is a step that may fail, and `Crash`
may fall between any two. A file holds an instant; the model holds its *age*, which `Tick`
increments and a `Jump` of the wall clock shifts, so an instant in the future has a
negative age. A run reads the wall clock once and goes on with a monotone one, so a jump
falls between runs. A release of the quarantine is `Resume`, `Stamp`, `Clear`,
`Release`, three file operations. `owed`, `paid` and `accepted` are histories.

`CloudCommands` is the admission, execution and answer of commands within a session. The
relay issues signed grants (`Issue`), the network delivers any of them at any time,
again and in other sessions (`Deliver`), the verifier refuses what is late, foreign or
seen (`Refuse`), the ledger repeats a recorded answer (`Repeat`, `Known`), and a new
command is begun, dispatched and recorded in separate steps, between which the connection
may break (`Begin`, `Dispatch`, `Finish`). Both memories prune by age and have a limit.
Signatures, issuer and audience are taken as valid; the connection's generation is folded
into the epoch; the installation's clock does not go back here. The relay's is off by `Behind`
or `Ahead` at most, and neither is tied to the verifier's tolerance `Skew`.

### 2.6 `MqttPublisher`

The task of the publisher: one handler is one action. `Publish` is the deduplication, the
cache and the request channel; `Handle`, `Resync`, `Tick` and `Birth` are the arms of the
`select!`; `Connect`, `Interrupted`, `Send` are its poll of the connection;
`Start`, `Cancel`, `Exit`, `Abandon` are the restart of the task. The broker may lose its
sessions and retained messages, publish the last will, or come back empty. The client
library may resend or forget what was queued when a connection broke. A handler that finds the
channel full waits for the loop that only its own task drives, and is `stuck`. `Quiet`
describes a moment in which nothing is left to send, and the two properties are about such
moments. The documents that one call announces are on different topics and are published as a
set, in a fixed but arbitrary order; the order among calls, and that of messages on one topic, is
the code's. The subscriptions of one announcement count as one message. A knob's document shows
its state and the zones it may be given, so it changes when a zone comes or goes.

## 3. The runs

| run | instance | checks |
| --- | --- | --- |
| `runtime_roon` | 2 calls to a Roon zone, 2 adapter runs, queue of 1, 2 revisions | `NotDispatchedMeansUntouched`, `ConfirmedByItsOwnCommit`, `OneWriterPerKey`, `ImplementsLedger`, `SubmittersAreAnswered` |
| `runtime_hqplayer` | 2 calls, 1 correlation, a reconfiguration, a client that disconnects | `AlwaysAWayOut`, `SubmitterSeesStatus`, `ReadBackFinalityHolds` |
| `hqplayer_projection` | 1 instance, 2 readings, 2 sessions, 1 command, 1 failed poll, 1 stop or removal with any starts and additions, queue of 2 | `AdvancedOfItsSession`, `NothingBehindRetirement`, `EchoesConverge`, `PairsCommittedTogether`, `OperationsReturn` |
| `adapter_lifecycle` | 2 request handlers, which overlap while nothing is observed, 2 requests, 2 servers, bus of 2, 1 lag, failing saves, starts and runs | `TypeOK`, `CompanionReachable`, `SettledAgrees`, `FormerServerGone`, `RequestsReturn` |
| `naa_relay` | 2 routes, 2 endpoints, 2 workers at most, 3 sessions, 3 calls, 1 fault | `NoSessionBehindADeadLoop`, `WorkersCounted`, `ImplementsOneOutput`, `ImplementsContract`, `UnsavedStopStaysShown`, `ListenerCallsReturn` |
| `hqp_outputs` | 1 route, 2 operations, 1 fault | `TypeOK`, `StopReachesEverySelect`, `EvidenceIsFresh`, `GateClosedByItsOwner`, `StopMeansStopped`, `EveryOperationEnds` |
| `cloud_connector` | hour of 5 ticks, budget of 2, healthy after 2, cooldown of 3, jumps of 2, 2 faults, 2 epochs | `RestartIsNoRefill`, `JumpsNeverStrand`, `ReleasesArePaid`, `OutageRecovers` |
| `cloud_commands` | 2 idempotency keys, 2 payloads, grants that live 2 ticks (`Lifetime`), tolerance of 3 (`Skew`), a relay's clock ahead by up to 3 (`Ahead`, with `Behind` 0), memories of 1 entry kept 3 ticks (`Retention`), 4 ticks, 2 requests, 2 epochs, 2 runs | `TypeOK`, `GrantOncePerRetention`, `KeyOncePerRetention`, `ResultsAreTrue` |
| `mqtt_publisher` | 1 zone, 1 knob, 2 documents, channel of 5, bus of 1, 2 starts, 2 changes, 2 faults | `QuietMeansCurrent`, `GoneIsRetracted` |
| `runtime_duplicate`, `hqplayer_retired`, `outputs_superseded` | the same, with the second call, session or route that it takes | one statement of the documentation each, which the code does not keep (part 5) |

**What they show.** In `runtime_roon` a command may be refused by a full queue, an
expired deadline or a vanished endpoint, leased at the last moment, confirmed
before or after its native answer, and left behind by a stopped adapter. Whatever
happens, callers see a behaviour of `CommandLedger`, refusals are true, and a
submitter is answered. `runtime_hqplayer` adds correlations, disconnecting clients and
reconfigurations, and shows that nothing is stranded but the commands of dropped
submit futures, and that a provider confirmed by read-back never takes back a
final status. The corresponding statement for Roon does not hold: the failure of the native
call may replace the confirmation of a callback that came first (`CommandLedger`
allows it).

`hqplayer_projection` shows that admission by cursor implies admission by
the snapshot's session, that options never mix sessions, that the queue holds
nothing of a removed instance behind its retirement, that zones converge to
what was committed, also when a start overtakes the hints of a stop, and that joining
the tasks under the lifecycle lock does not deadlock with tasks that wait for the
permit or the queue.

`adapter_lifecycle` shows that a companion is not left where no stop reaches it, nor run twice,
also when a start is overtaken by the stops and starts of another request. Of the poller the same
is not true, because its mark is cleared by others than its own task (part 5). For requests that
do not overlap it shows that they end, that settings and workers agree once a request has
settled, also after a roll-back, and that a former server's zones go away. The exceptions are
named in the properties and explained in part 5.

`naa_relay` shows that no two threads forward at once, that superseded threads are
counted until they end and no longer, that a session is not left behind by a loop that
has failed, that what a failed save made durable only in memory stays shown as such,
and that stopping the listener returns. `hqp_outputs` shows, over the relay's contract, that
a Stop is never overtaken by an older Play, that success is never read from somebody
else's session, that a failed resume does not close a newer selection's gate, and that every
operation ends although each of its waits may be overtaken.

`cloud_connector` shows that neither a crash nor a failed write gives an attempt back, that no
file and no jump of the clock keeps the connector from trying again, that every
release of the quarantine was accepted and paid with a cooldown, and that after an outage it connects.
`cloud_commands` shows that a redelivered grant is never executed again in another run, and in
the same run only after the retention has passed and before the grant expires, which takes a
relay's clock that is ahead; that a key is executed once while it is remembered, and that a
result is not reported of a command that was never executed. `mqtt_publisher` shows that when nothing is left to send, the
broker holds what the bridge means to retain, and nothing of a zone that went away.

**The bounds and why they are enough.** Every conflict in the runtime is between
two commands, or between a command and one event (a deadline, a stop, a callback).
Two calls with a queue of one slot make the queue full, two adapter runs make the
second one meet the worker of the first, and two revisions let an unrelated commit
come between. In the projection model two readings and two sessions are the least
that can be confused, and a queue of two holds a dropped poll in front of a
retirement. (With two stops or removals the safety properties hold as well.) One instance
is enough there, since the sources share only the queue and the manager; the proofs hold for
any set of instances. In the relay, two endpoints and three sessions let a current, a
superseded and a refused session coexist. In the coordinator each property relates two
operations, and the operation that overtakes may fall at every await of the other; the run
with two routes is the violation run, and the proofs hold for any number of both. The cloud's
times are small numbers that keep the order of the real ones (a cooldown and a healthy
session are parts of an hour; an age above `Old` is like `Old`). The relay's clock may be ahead
by all that the verifier admits, which is as long as its memory lasts (60 s both in the code), so
grants occur that outlive the memory; `Behind` is 0 since a relay that is behind only makes
grants expire sooner. Of the requests for adapters two may overlap, which is what it takes to
overtake one; that nothing is observed then costs the invariant about the companion nothing,
because marks, tokens and runs do not depend on what is observed, and its theorem does without. The channel of the MQTT publisher is at its limit with one announcement and a
retained document in it, and a bus of one event lags as soon as two things happen.
Symmetry is used in `cloud_commands` only, of keys and of payloads: they are compared for
equality alone, and the run has no liveness property.

**Deadlock.** `CHECK_DEADLOCK FALSE` is set in every configuration: the bounds end
every behaviour, and in the program nobody is obliged to submit another command. The
deadlocks that matter are those of tasks that wait for one another, and the liveness
properties exclude them.

**Fairness.** Nobody has to call, disconnect, start, stop or call back, and no poll or
connection has to succeed. What is assumed is that the runtime polls ready tasks:

* `ReliableRuntime`: tasks are polled, time passes, and native I/O ends, since every provider
  client has a timeout.
* `HqplayerProjection`: the same, and strong fairness of each publisher's `Stamp` and `Send`,
  which wait on a tokio semaphore and a tokio channel; both serve in order of arrival.
  The aggregator's subscriber is not assumed to keep up.
* `AdapterLifecycle`: each handler's next step, and a worker noticing its cancelled token. The
  handlers run in tasks of their own. `RequestsReturn` is claimed until `crossed`: a join has
  no time limit, and when requests overlap it may wait for a run that nobody has cancelled.
* `NaaRelay`: the steps of the calls, of the accept loop, and the end of a superseded
  thread that does not forward, whose reads and writes have time limits.
* `HqpOutputs`: the next step of each operation, since each of its waits has a deadline. The
  relay is not assumed to serve.
* `CloudConnector`: the connector's own steps and time. `OutageRecovers` supposes that
  faults end, as they do in the model.
* `CloudCommands` and `MqttPublisher` are checked for safety only.

## 4. The proofs

All proof modules follow the same scheme: an inductive invariant, lemmas that
the initial states satisfy it and that each step preserves each of its parts, and
theorems as its consequences. All constants are arbitrary; the assumptions are those named
in the modules (`RuntimeAssumption`, `AggregatorAssumption`, `RelayAssumption`,
`OutputsAssumption` and so on): bounds are natural numbers, and a missing value is not
confused with anything else.

**`ReliableRuntime_proofs`** proves `Spec => []Inductive` with `Inductive` =
`TypeOK`, `WellFormed`, `LeaseRecorded`, `ActorRecordsItsCommit`,
`LiveEndpointIsRegistered`, `Promises`.

* The refusal theorem needs `LeaseRecorded`: the history of native attempts is
  exactly the set of commands whose status admits one, so that a status
  `NotDispatched`, which is only ever entered from `Queued`, has none.
* A single writer needs `LiveEndpointIsRegistered`: an endpoint that was not
  dropped is the registered one of its key, so two workers of one key are one worker.
* A confirmation needs `ActorRecordsItsCommit`: what the actor is about to record
  is what it committed.
* A submitter's view needs `Synced`: its own ticket keeps the channel alive.
* `RuntimeImplementsLedger` maps every step to a step of `CommandLedger` or to a
  stutter. The mapping is `LifeOf`, by which two statuses of the code (`Dispatched`,
  `AwaitingProjection`) are one life.
* `ReadBackFinality`, an action property, needs a second invariant, `Nominations`, inductive
  on top of `Inductive`. `WorkIsRouted`: what an endpoint has queued or in hand is for its own
  key, so the worker that may still fail a command knows whether a callback confirms it.
  `LeasesNominate`: a command is armed or nominated only after its lease, and one worker has
  that lease. `FailureComesFirst`: while a worker may still fail a command that no callback
  confirms, nobody has nominated it and nothing has ended it. A status that changes after it
  was final could only be that failure (`FinalMoves`), and by then it is excluded.

**`HqplayerProjection_proofs`** proves `Spec => []Inductive` with its own `Inductive`.

* `NothingFollowsRetirement`: a submission belongs to the task that waits for it
  (`JobsFormed`), the manager submits one update at a time and waits for it
  (`QueueFormed`), an instance whose removal has joined its tasks has none
  (`RemovalFormed`). So nobody can send behind a retirement (`RetirementLast`).
  Without `QueueFormed` the retirement in the queue could be one that the manager
  has forgotten, and the instance could have been added again.
* `PairsTogether`: the cursor of an instance has seen the session that its snapshot
  shows (`SnapshotBehindCursor`), and an observation is stamped with the session of
  its own reading (`SameSession`). So an observation that is not stale by the cursor
  is not older than the snapshot, and the snapshot takes it.
* `OptionsOfTheirSession` is inductive with the types alone.
* `LateHintsConverge` needs a second invariant, `EchoInv`, inductive on top of `Inductive`. Its
  core is `Converging`: of the events that are due (the bus, then the hints the actor holds)
  the last one about an instance leaves it with the zone the reliable lane committed, and if
  there is none, the zone is already that one or the subscriber lost the event; the same with no
  zone once the provider is stopped. It is not inductive alone: the flush of the coordinator
  would take back a zone that is still canonical, so `StopIsLast` says that after the stop is
  committed nothing is canonical and nothing observed is on its way, which in turn holds only if
  the stop is never refused as stale (`StopsNumbered`: the bridge's marker numbers the stops, and
  one is under way at a time). While a stop runs nothing is promised: its announcement may have
  reached the subscriber while the reliable lane still holds the zones.

**`NaaRelay_proofs`** proves `Typed`, `SessionFits`, `ThreadsFit`, `SelectionFits` and
`WorkersCounted` together. `SessionFits` says that the session's route is the selected
one, with its current endpoint, an open gate and a living loop; `ThreadsFit` that no thread but
the session's own forwards. From these follow the theorems of the run and both refinements:
`OneOutput` with the forwarding thread as its stream, and `RelayContract` with the
session, its route and what it has reached as what the relay shows.

**`HqpOutputs_proofs`** proves `TypeOK`, `PointsFit`, `PendingFits`, `GenerationsFit`, `LateFits`,
`PlaysFit` and the four safety properties of the run together. The many steps of the tasks are of
a dozen shapes (`Walks`, `GivesUp`, `Commits`, `Hears`, `Hooks`, `Writes`, `Closes` for a task;
`EndpointMoves`, `EndpointEnds`, `Halts` for the endpoint; `Supersedes`, `Joins` for an admission);
each action is shown to be of its shape, and each shape to keep the invariant.

* A selection whose task is at work is the pending one or has been cancelled
  (`PendingFits`), hence `StopReaches`.
* While the relay is in the generation of a selection's commit, it has that selection's
  route and shows no session but its own (`GenerationsFit`), hence `EvidenceFresh`.
* A task past the fence of its own generation, with the relay still in it, is neither superseded
  nor cancelled (`LateFits`), hence `GateOwned`. The lease that a native write holds
  carries this over to the wire (`PlaysFit`), hence `StopIsLast`: a Stop that could write
  its own stop had the lease, and it has ended the older generations before.

**`CloudConnector_proofs`** proves `TypeOK`, `OwedIsScheduled`, `RestartIsNoRefill`,
`QuarantineHolds`, `NothingInTheFuture`, `CoolIsStamped` and `EpochIsSaved` together. `OwedIsScheduled` is the
reason why a restart gives nothing back: what is owed in memory was written before the
attempt. Jumps of the clock strand nothing because an instant in the future is repaired
when it is read (`NothingInTheFuture`). Three theorems of this module go beyond the run:
`AttemptsSpaced`, `QuarantineRespected` and `EpochsOnlyGrow`.

**`CloudCommands_proofs`** proves `Typed`, `Bounded`, `Issued`, `ExecutedFits`, `BusyFits`, `BusyIsNew` and
the two properties about executing once: what has been executed in a session is in the
verifier's memory or has expired (`Guarded`), and what has been executed in a run is in the
ledger, being recorded, or older than the retention (`Kept`). `ResultsTrue` proves
`ResultsAreTrue` from a second invariant, `RInv`: an entry of the ledger says what became of its
key in this run, and there is one per key (`LedgerTrue`); so does the key being recorded
(`BusyTrue`). Nothing is assumed of the relay's clock, nor of
how the lifetime and the retention compare: the four theorems say for every value what part 5
says of the code's own numbers.

**`AdapterLifecycle_proofs`** has two invariants. Both hold for every set of handlers and any number
of requests, servers, changes and failures; no theorem assumes that requests are serialised.
The first one, `IInv`, says what is so until two requests or two runs overlap: then `crossed`
holds, and the properties that follow from it claim nothing more.

* The steps of a request are numbered in the order of the code (`Stage`). What is left of
  it is a path through these stages (`PlanFits`), so the stage of the next step says what
  has been done. Each other part of the invariant is a table by that stage.
* `WorkersFit` says for each observer who knows of it: the registry's mark, its token, the
  awaited task. Between requests, with `ListFits` and `OffFits` for the settings, this
  is `Settled`.
* `FormerServer` needs the zones' side (`ObservedFits`, `ZonesFit`): whatever is listed or on its
  way is of the configured server, or a flush that comes after it retires it; the
  exceptions are those the property names.

The second one, `CInv`, is about the companion and holds whatever overlaps. `Planned` says that
what is left of a request never has a stop or another start between the steps of a start;
`CompanionFits` that at most one request is between the companion's claim and its spawn, that there is
no run then, and that the request has the current token. Each step of any request and each step of a
worker is shown to keep this, and the end of the run, which alone clears the mark, is the
only way back to a claim. Hence `CompanionIsReachable`.

**`MqttPublisher_proofs`** proves that a quiet publisher has brought the broker up to date
(`Current`) and retracted what is gone (`Retraction`), for any sets of zones, knobs and
documents and any capacities. The properties are about quiet moments; the invariant says
at every moment what makes the next quiet one right:

* `CacheKnows`, `BrokerFollows`: the last queued message on a topic says what the cache
  holds, and when none is queued the broker retains it. So a document that is skipped
  is one the broker has or is about to have.
* `ZoneServed`, `BusTells`: a zone that the cache does not show as it is will be told by an
  event that is due, and the events about a zone end with what it has come to. A
  receiver that has lagged is excused until its resynchronisation.
* `Retracted`: what is gone was missed by this task (which the property exempts),
  will be told by an event, or the last word about it is its retraction.
* `Resting`: a task that is stuck or has ended has forgotten all of this, and a new one starts
  from nothing.

The module proves first what `Publish` does to a task, for any set of messages on different
topics, and then goes through the steps.

**Only model-checked.** All liveness properties (`SubmittersAreAnswered`, `OperationsReturn`,
`RequestsReturn`, `OutageRecovers`, `EveryOperationEnds`, `ListenerCallsReturn`), whose proofs would
need reasoning about `ENABLED` and fairness; the properties that the code violates; and the type
invariant of `AdapterLifecycle`, whose bound on the tokens would need a count of the starts
that overlapping requests have still to make. Every other invariant and every action property of a
passing run is stated by a theorem.

## 5. Where code and documentation disagree

Three runs find a behaviour that a comment or a document of the repository excludes.

* `CorrelationExecutesOnce` (`bus/runtime.rs:456`): two simultaneous calls with one
  correlation both miss the lookup and both reach the provider.
* `RetiredIsGone` (`hqplayer.rs:10655`): `remove_instance` reads the session to retire before it
  stops the worker. A session opened in between is not the one that is retired, and its
  zone and snapshot stay. (The floor recorded for the next adapter of that name is
  too old for the same reason.)
* `SupersededNeverCommits` (`naa/coordinator.rs:392` and `docs/naa-proxy.md:88`): a selection tests its
  token before it commits its route, and not under the lock of the commit, so a
  selection that was superseded between the two commits all the same.
  `StopReachesEverySelect` and `StopMeansStopped` show what is left of the promise.

The rest of this part are observations, made while modelling, without a run of their own.

**Command runtime.**
- A client that disconnects while its command waits for a queue slot leaves a record
  that no task will ever move, and a retry with its correlation watches that record.
- A retry may subscribe to a status that is older than the record (`runtime.rs:861`) and
  wait for a change that does not come.
- An adapter that is stopped and started while its worker is in native I/O runs without an
  endpoint for good (`roon.rs:4257`).
- Records and correlations are never forgotten: the ledger of a process grows.

**Aggregator and HQPlayer.**
- Until the subscriber has caught up, the late hint of an older commit
  shows an older zone beside the newer native snapshot (`aggregator.rs:167`). `EchoesConverge`
  shows that this does not last.
- Worker and endpoint are ordered by who publishes first and not by who read first, so a
  command may be confirmed while the projection shows a reading taken before it (`hqplayer.rs:11073`).

**Adapter lifecycle.**
- When requests overlap, the poller may get a second run beside one that nobody has cancelled, and
  no stop reaches the first. Its mark, by which a second start is to be a "No-op if already
  running" (`traits.rs:18`, and `lms.rs:1479`), is cleared by any stop (`lms.rs:1536`), also one
  that was overtaken, and by a run that fails and will run again (`lms.rs:3719`). The latter is
  enough with a single request at a time, when a start comes while the run waits. The
  companion's mark is cleared by its own task only, which is what `CompanionReachable` rests on.
- Also when requests overlap: a stop may take the handle of a later run and wait for it without
  having cancelled it; a start that stores its handle late may replace that of a live run; and
  a stop that is overtaken may stop nothing, so that settings and workers disagree
  (`api/mod.rs:4073`). `SettledAgrees`, `FormerServerGone` and `RequestsReturn` claim nothing then.
- An update that is already in the reliable lane when its worker is cancelled is committed after
  the retirement of its server (`lms.rs:1524`).
- A roll-back writes the whole former settings back (`api/mod.rs:4038`), over a zone hidden
  meanwhile, though `api/mod.rs:3906` wants neither lost.
- A bus receiver that lags ends a worker like a shutdown (`handle.rs:206`); the poller's mark
  stays, so that it is taken to be running until it is stopped.

**Relay and outputs.**
- `start_listener` sets `Bound` after it has spawned the accept loop; a loop that fails
  at once leaves `Bound` with no loop behind it.
- The second of two quick selections finds HQPlayer stopped by the first, and does
  not resume what was playing before both.
- No operation is current while a selection is pending, and a hook that has run out of time
  is reported as a cancellation.

**Cloud.**
- The verifier admits grants issued up to 60 s in the future, which live 15 s, and the memories
  keep 60 s. With the relay's clock more than 45 s ahead an envelope that is redelivered after a
  minute executes a second time, though `docs/hiphi-cloud-threat-model.md:191` says "Request IDs
  are replay checked". `GrantOncePerRetention` says exactly how far the promise reaches.
- `docs/hiphi-cloud-threat-model.md:193` says "A lost terminal result becomes
  `unknown_outcome` and is not silently executed again". Nothing produces that outcome, and the
  ledger is one of a run: after a restart a retry executes again.
- A request refused as busy because the ledger was full has been remembered as seen, and
  is forbidden when it is delivered again. A refusal may hide that a device was reached.
- After a safety error, completing a pairing starts the connector again in the same process.

**MQTT.**
- Two overlapping configuration calls (`mqtt/mod.rs:371`) may each spawn a task, of which one
  is unreachable and has the other's client id. In the model calls do not overlap.
- In an outage of a few hours the subscription that is repeated every two seconds fills the
  channel of 4096 requests. The next handler then waits for the loop that only its own
  task drives (`mqtt/mod.rs:82`); stopping it detaches it after five seconds.
- A retraction that was lost with its connection is not repeated by later announcements (`missed`
  names these zones in `GoneIsRetracted`); a changed base topic leaves the former topics retained.
- A shutdown queues its "offline" without polling again, so that only the last will says so.
- `select!` drops a connection attempt at each event of the bus and each tick; a slow
  connection may never complete (`Connect` is one step in the model).
- An event published before the aggregator has applied it makes the publisher read the older
  zone, and a `ZoneDiscovered` event's own zone may overwrite a newer document for a while.

## 6. What is not modelled

* **Guided setup and discovery** (`naa/coordinator.rs`, `naa/setup.rs`, `hqplayer.rs`). The form that is
  rewritten is HQPlayer's, and which of its readings belong together is a question of its
  web server. Worth knowing: a crash between the two rollback files of a second
  application loses the roll-back of the first, and an application marks whatever preview is current.
* **The other adapters** (Spotify, Apple Music, Music Assistant) and the browsing and queues
  of all of them: wire protocols and tokens. Their endpoints' workers and
  their start and stop have the shape of the modelled ones.
* **Adaptive producers** and contract types. `main.rs` does not compose them at this commit.
  Which tasks drive them, and in which order, is not in the source, and a model would have
  to invent it.
* **Pairing and identity**: key material and signatures. `CloudCommands` begins with a verified
  envelope.
* **MQTT discovery payloads, knobs' images, MCP, settings, credentials and tunnels, the web UI**:
  formatting, files and readers of the aggregate, with little state shared between tasks.
* **Shutdown of the process**, profiles, and restarts of panicked workers.

`PROJECT.json` says for each component, also for the modelled ones, what is left out.
