--------------------------- MODULE AdapterLifecycle ---------------------------
(***************************************************************************)
(* The start and stop of adapters: the registry of the coordinator         *)
(* (src/src/coordinator.rs), the requests that drive it (POST              *)
(* /api/settings, POST /lms/configure and POST /api/zones/visibility in    *)
(* src/src/api/mod.rs), the run loop of a worker                           *)
(* (src/src/adapters/handle.rs) and the path of what it observes into the  *)
(* list of zones.                                                          *)
(*                                                                         *)
(* Two providers stand for all.  LMS has a poller and a companion, the CLI *)
(* observer, that write the same zones and are stopped together; its start *)
(* cannot fail once a server is configured.  HQPlayer stands for a         *)
(* provider whose start may fail; its own workers are the subject of       *)
(* HqplayerProjection and do not appear here.                              *)
(*                                                                         *)
(* A request is a list of steps, one for every place where the handler     *)
(* waits.  A zone is abstracted to the LMS server it was read from.        *)
(***************************************************************************)
EXTENDS Integers, Sequences, FiniteSets

CONSTANTS
    Handlers,       \* requests that may be served at the same time
    MaxRequests,    \* bound on requests
    MaxServers,     \* the LMS servers that a user may name are 1 .. MaxServers
    BusCapacity,    \* bound of the broadcast channel (256 in the code)
    MaxLags         \* bound on workers that lag behind the bus

ASSUME LifecycleAssumption ==
    /\ Handlers # {}
    /\ MaxRequests \in Nat /\ MaxServers \in Nat \ {0}
    /\ BusCapacity \in Nat \ {0} /\ MaxLags \in Nat

\* AVAILABLE_ADAPTERS, and who observes for them.
Main == "lms"
Companion == "lms-cli"
Observers == {Main, Companion}
Providers == {"lms", "hqplayer"}
Adapters == Observers \cup Providers

Servers == 1 .. MaxServers
NoServer == 0
Tokens == 1 .. MaxRequests      \* a request starts an observer at most once
NoToken == 0

VARIABLES
    disk,       \* app-settings.json
    enabled,    \* RegisteredAdapter::enabled
    running,    \* RegisteredAdapter::direct_running
    flag,       \* the adapter's own mark that it runs
    token,      \* its current cancellation token
    cancelled,  \* the tokens cancelled so far
    task,       \* the join handle it keeps
    server,     \* LmsState::host
    known,      \* LmsState::players
    worker,     \* the spawned tasks, by token
    ingress,    \* ProjectionIngress
    bus,        \* the broadcast events the aggregator has not received
    listed,     \* ZoneAggregator's zones
    handler,    \* the requests being served
    requests,   \* requests so far
    lost,       \* history: some receiver of the bus has lagged
    orphaned,   \* history: a task has ended with an update in the lane
    unsaved,    \* history: a rollback could not save the settings
    crossed,    \* history: two requests, or two runs of an observer, have overlapped
    lags        \* lags of workers so far

coordinatorVars == <<enabled, running>>
adapterVars == <<flag, token, cancelled, task, server, known, worker>>
projectionVars == <<ingress, bus, listed>>
historyVars == <<lost, orphaned, unsaved, crossed, lags>>
vars == <<disk, coordinatorVars, adapterVars, projectionVars, handler, requests, historyVars>>

Absent == [phase |-> "none", poll |-> NoServer, out |-> <<>>]
Idle == [todo |-> <<>>, old |-> [p \in Providers |-> FALSE],
         new |-> [p \in Providers |-> FALSE], applied |-> <<>>, hides |-> FALSE,
         back |-> FALSE, token |-> NoToken, join |-> NoToken]

Init ==
    /\ disk = [on |-> [p \in Providers |-> FALSE], hidden |-> FALSE]
    /\ enabled = [a \in Adapters |-> FALSE]
    /\ running = [a \in Adapters |-> FALSE]
    /\ flag = [a \in Adapters |-> FALSE]
    /\ token = [o \in Observers |-> NoToken]
    /\ cancelled = [o \in Observers |-> {}]
    /\ task = [o \in Observers |-> NoToken]
    /\ server = NoServer
    /\ known = {}
    /\ worker = [o \in Observers |-> [t \in Tokens |-> Absent]]
    /\ ingress = <<>> /\ bus = <<>> /\ listed = {}
    /\ handler = [h \in Handlers |-> Idle]
    /\ requests = 0
    /\ lost = FALSE /\ orphaned = FALSE /\ unsaved = FALSE /\ crossed = FALSE /\ lags = 0

Live(o) == {t \in Tokens : worker[o][t].phase # "none"}
-------------------------------------------------------------------------------
(* The lists of steps *)

Step(do, who) == [do |-> do, who |-> who]

\* Startable::start and start_adapter_and_track of one adapter.
StartOne(a) ==
    IF a \in Observers
    THEN <<Step("claim", a), Step("token", a), Step("spawn", a), Step("track", a)>>
    ELSE <<Step("claim", a), Step("track", a)>>

\* Mutant of StopOne: the task is not awaited.
StopOneNoJoin(a) ==
    IF a \in Observers THEN <<Step("cancel", a), Step("stopped", a)>> ELSE <<Step("stopped", a)>>

\* Startable::stop of one adapter.
StopOne(a) ==
    IF a \in Observers
    THEN <<Step("cancel", a), Step("join", a), Step("stopped", a)>>
    ELSE <<Step("stopped", a)>>

\* A provider with its companions, in the order of the coordinator.
StartGroup(p) == IF p = "lms" THEN StartOne(Main) \o StartOne(Companion) ELSE StartOne(p)

StopGroup(p) ==
    IF p = "lms"
    THEN StopOne(Main) \o StopOne(Companion)
            \o <<Step("flush", p), Step("untrack", Main), Step("untrack", Companion)>>
    ELSE StopOne(p) \o <<Step("flush", p), Step("untrack", p)>>

\* The adapters whose toggle changed, in the order of api_settings_post_handler.
Changes(old, new) ==
    LET toggled(p) == IF old[p] # new[p] THEN <<Step("toggle", p)>> ELSE <<>>
    IN  toggled("lms") \o toggled("hqplayer")

\* Mutant of Rollback: only the transition that failed is taken back.
RollbackLast(applied) ==
    <<Step("restore", applied[Len(applied)]), Step("unsave", "lms")>>

\* rollback_adapter_transitions, last transition first, then the settings file.
Rollback(applied) ==
    [i \in 1 .. Len(applied) |-> Step("restore", applied[Len(applied) + 1 - i])]
        \o <<Step("unsave", "lms")>>

\* lms_configure_handler after its first stop.  The wait for ZonesFlushed is bounded, and
\* the server is named by then.
Configuration ==
    StopGroup("lms") \o <<Step("await", "lms"), Step("configure", "lms"),
                          Step("mark", "lms"), Step("enable", "lms")>> \o StartGroup("lms")
-------------------------------------------------------------------------------
(* Requests *)

\* The handlers take no lock in common: a request may begin while others are served.
Crosses(h) == crossed' = (crossed \/ \E g \in Handlers \ {h} : handler[g] # Idle)

\* POST /api/settings with the adapter toggles of new and without zone preferences:
\* saved first, inside the lock, with the hidden zones carried forward.
PostSettings(h) ==
    /\ handler[h] = Idle
    /\ requests < MaxRequests
    /\ requests' = requests + 1
    /\ \E new \in [Providers -> BOOLEAN] :
          /\ disk' = [disk EXCEPT !.on = new]
          /\ handler' = [handler EXCEPT ![h] =
                IF new = disk.on THEN Idle
                ELSE [Idle EXCEPT !.todo = Changes(disk.on, new), !.old = disk.on,
                                  !.new = new, !.hides = disk.hidden]]
    /\ Crosses(h)
    /\ UNCHANGED <<coordinatorVars, adapterVars, projectionVars, lost, orphaned, unsaved, lags>>

\* POST /lms/configure
PostConfigure(h) ==
    /\ handler[h] = Idle
    /\ requests < MaxRequests
    /\ requests' = requests + 1
    /\ handler' = [handler EXCEPT ![h] = [Idle EXCEPT !.todo = Configuration]]
    /\ Crosses(h)
    /\ UNCHANGED <<disk, coordinatorVars, adapterVars, projectionVars, lost, orphaned, unsaved,
                   lags>>

\* POST /api/zones/visibility: load, change and save under the lock.
PostHide ==
    /\ requests < MaxRequests
    /\ ~disk.hidden
    /\ requests' = requests + 1
    /\ disk' = [disk EXCEPT !.hidden = TRUE]
    /\ UNCHANGED <<coordinatorVars, adapterVars, projectionVars, handler, historyVars>>
-------------------------------------------------------------------------------
(* The steps of a request.  todo is what is left of it. *)

Current(h) == Head(handler[h].todo)
Doing(h, do) == handler[h].todo # <<>> /\ Current(h).do = do
Rest(h) == Tail(handler[h].todo)
\* A request with nothing left is answered.
Continue(h, todo) ==
    handler' = [handler EXCEPT ![h] = IF todo = <<>> THEN Idle ELSE [@ EXCEPT !.todo = todo]]
Drop(n, s) == SubSeq(s, n + 1, Len(s))

\* Mutant of Publish: nothing is overwritten.
PublishAll(e) ==
    /\ bus' = Append(bus, e)
    /\ UNCHANGED lost

\* Publishing never waits: a full channel overwrites its oldest event, which a slow
\* receiver has then lost.
Publish(e) ==
    /\ bus' = IF Len(bus) < BusCapacity THEN Append(bus, e) ELSE Append(Tail(bus), e)
    /\ lost' = (lost \/ Len(bus) = BusCapacity)

\* set_enabled, and what the toggle asks for.  An adapter that is enabled before it is
\* configured is left idle.
Toggle(h) ==
    /\ Doing(h, "toggle")
    /\ LET p == Current(h).who
           on == handler[h].new[p]
           follow == IF ~on THEN StopGroup(p)
                     ELSE IF p = "lms" /\ server = NoServer THEN <<>> ELSE StartGroup(p)
           todo == follow \o Rest(h)
       IN  /\ enabled' = [enabled EXCEPT ![p] = on]
           /\ handler' = [handler EXCEPT ![h] =
                 IF todo = <<>> THEN Idle
                 ELSE [handler[h] EXCEPT !.todo = todo, !.applied = Append(@, p)]]
    /\ UNCHANGED <<disk, running, adapterVars, projectionVars, requests, historyVars>>

\* One transition of rollback_adapter_transitions.
Restore(h) ==
    /\ Doing(h, "restore")
    /\ LET p == Current(h).who
           on == handler[h].old[p]
       IN  /\ enabled' = [enabled EXCEPT ![p] = on]
           /\ Continue(h, (IF on THEN StartGroup(p) ELSE StopGroup(p)) \o Rest(h))
    /\ UNCHANGED <<disk, running, adapterVars, projectionVars, requests, historyVars>>

\* The settings as they were before the request replace the file; the result is ignored.
Unsave(h) ==
    /\ Doing(h, "unsave")
    /\ \/ /\ disk' = [on |-> handler[h].old, hidden |-> handler[h].hides]
          /\ UNCHANGED unsaved
       \/ /\ unsaved' = TRUE
          /\ UNCHANGED disk
    /\ Continue(h, Rest(h))
    /\ UNCHANGED <<coordinatorVars, adapterVars, projectionVars, requests, lost, orphaned, crossed,
                   lags>>

\* The start failed: api_settings_post_handler rolls back, a rollback goes on to the
\* next transition, and lms_configure_handler answers with the error.
Failed(h) ==
    LET group == Len(StartGroup(Current(h).who))
    IN  IF handler[h].back THEN Continue(h, Drop(group, handler[h].todo))
        ELSE IF handler[h].applied # <<>>
        THEN handler' = [handler EXCEPT ![h].todo = Rollback(handler[h].applied),
                                        ![h].back = TRUE]
        ELSE handler' = [handler EXCEPT ![h] = Idle]

\* can_start, and the check of the adapter's own mark, which is set in the same breath.
\* A poller that waits to try again has cleared the mark and is still there.
Claim(h) ==
    /\ Doing(h, "claim")
    /\ LET a == Current(h).who
       IN  \/ /\ a \in Observers /\ server = NoServer
              /\ Failed(h)
              /\ UNCHANGED <<flag, crossed>>
           \/ /\ a \in Observers => server # NoServer
              /\ flag[a]
              /\ Continue(h, Drop(IF a \in Observers THEN 3 ELSE 1, handler[h].todo))
              /\ UNCHANGED <<flag, crossed>>
           \/ /\ a \in Observers => server # NoServer
              /\ ~flag[a]
              /\ flag' = [flag EXCEPT ![a] = TRUE]
              /\ crossed' = (crossed \/ (a \in Observers /\ Live(a) # {}))
              /\ Continue(h, Rest(h))
           \/ /\ a \notin Observers /\ ~flag[a]
              /\ Failed(h)
              /\ UNCHANGED <<flag, crossed>>
    /\ UNCHANGED <<disk, coordinatorVars, token, cancelled, task, server, known, worker,
                   projectionVars, requests, lost, orphaned, unsaved, lags>>

\* A fresh token for this run.
FreshToken(h) ==
    /\ Doing(h, "token")
    /\ LET o == Current(h).who
       IN  /\ token' = [token EXCEPT ![o] = @ + 1]
           /\ handler' = [handler EXCEPT ![h].token = token[o] + 1, ![h].todo = Rest(h)]
    /\ UNCHANGED <<disk, coordinatorVars, flag, cancelled, task, server, known, worker,
                   projectionVars, requests, historyVars>>

\* The poller is not connected before its first update has been published.
Spawn(h) ==
    /\ Doing(h, "spawn")
    /\ LET o == Current(h).who
           t == handler[h].token
       IN  /\ worker' = [worker EXCEPT ![o][t].phase = IF o = Main THEN "first" ELSE "up"]
           /\ task' = [task EXCEPT ![o] = t]
    /\ Continue(h, Rest(h))
    /\ UNCHANGED <<disk, coordinatorVars, flag, token, cancelled, server, known,
                   projectionVars, requests, historyVars>>

\* set_running
Track(h) ==
    /\ Doing(h, "track") \/ Doing(h, "untrack")
    /\ running' = [running EXCEPT ![Current(h).who] = Current(h).do = "track"]
    /\ Continue(h, Rest(h))
    /\ UNCHANGED <<disk, enabled, adapterVars, projectionVars, requests, historyVars>>

\* Mutant of Cancel: the task is awaited before its token is cancelled.
CancelAfterJoin(h) ==
    /\ Doing(h, "cancel")
    /\ LET o == Current(h).who
       IN  /\ task' = [task EXCEPT ![o] = NoToken]
           /\ handler' = [handler EXCEPT ![h].join = task[o], ![h].todo = Rest(h)]
    /\ UNCHANGED <<disk, coordinatorVars, flag, token, cancelled, server, known, worker,
                   projectionVars, requests, historyVars>>

\* stop cancels the current token and takes the join handle.
Cancel(h) ==
    /\ Doing(h, "cancel")
    /\ LET o == Current(h).who
       IN  /\ cancelled' = [cancelled EXCEPT ![o] = @ \cup {token[o]}]
           /\ task' = [task EXCEPT ![o] = NoToken]
           /\ handler' = [handler EXCEPT ![h].join = task[o], ![h].todo = Rest(h)]
    /\ UNCHANGED <<disk, coordinatorVars, flag, token, server, known, worker,
                   projectionVars, requests, historyVars>>

\* It waits until the supervisor of the run has ended.
Join(h) ==
    /\ Doing(h, "join")
    /\ handler[h].join \notin Live(Current(h).who)
    /\ Continue(h, Rest(h))
    /\ UNCHANGED <<disk, coordinatorVars, adapterVars, projectionVars, requests, historyVars>>

\* Mutant of Stopped: the mark of the companion is cleared as the poller's is.
StoppedBoth(h) ==
    /\ Doing(h, "stopped")
    /\ flag' = [flag EXCEPT ![Current(h).who] = FALSE]
    /\ Continue(h, Rest(h))
    /\ UNCHANGED <<disk, coordinatorVars, token, cancelled, task, server, known, worker,
                   projectionVars, requests, historyVars>>

\* The mark of the companion is cleared by its own task, see Ended.
Stopped(h) ==
    /\ Doing(h, "stopped")
    /\ flag' = [flag EXCEPT ![Current(h).who] = @ /\ Current(h).who = Companion]
    /\ Continue(h, Rest(h))
    /\ UNCHANGED <<disk, coordinatorVars, token, cancelled, task, server, known, worker,
                   projectionVars, requests, historyVars>>

\* AdapterStopping: the shared projection is retired after its observers.
Flush(h) ==
    /\ Doing(h, "flush")
    /\ IF Current(h).who = "lms"
       THEN Publish([type |-> "stopping", server |-> NoServer])
       ELSE UNCHANGED <<bus, lost>>
    /\ Continue(h, Rest(h))
    /\ UNCHANGED <<disk, coordinatorVars, adapterVars, ingress, listed, requests, orphaned,
                   unsaved, crossed, lags>>

\* The acknowledgement, or the two seconds granted to it.
Await(h) ==
    /\ Doing(h, "await")
    /\ Continue(h, Rest(h))
    /\ UNCHANGED <<disk, coordinatorVars, adapterVars, projectionVars, requests, historyVars>>

\* LmsAdapter::configure keeps the players it knows.
Configure(h) ==
    /\ Doing(h, "configure")
    /\ \E s \in Servers : server' = s
    /\ Continue(h, Rest(h))
    /\ UNCHANGED <<disk, coordinatorVars, flag, token, cancelled, task, known, worker,
                   projectionVars, requests, historyVars>>

\* mark_adapter_configured: without a saved toggle the adapter is not started.
Mark(h) ==
    /\ Doing(h, "mark")
    /\ \/ /\ disk' = [disk EXCEPT !.on["lms"] = TRUE]
          /\ Continue(h, Rest(h))
       \/ /\ handler' = [handler EXCEPT ![h] = Idle]
          /\ UNCHANGED disk
    /\ UNCHANGED <<coordinatorVars, adapterVars, projectionVars, requests, historyVars>>

\* enable_with_companions
Enable(h) ==
    /\ Doing(h, "enable")
    /\ enabled' = [enabled EXCEPT ![Main] = TRUE, ![Companion] = TRUE]
    /\ Continue(h, Rest(h))
    /\ UNCHANGED <<disk, running, adapterVars, projectionVars, requests, historyVars>>

Serve(h) ==
    \/ Toggle(h) \/ Restore(h) \/ Unsave(h) \/ Claim(h) \/ FreshToken(h) \/ Spawn(h)
    \/ Track(h) \/ Cancel(h) \/ Join(h) \/ Stopped(h) \/ Flush(h) \/ Await(h)
    \/ Configure(h) \/ Mark(h) \/ Enable(h)
-------------------------------------------------------------------------------
(* Workers: AdapterHandle::run_with_retry around update_players_internal *)

Quiet(w) == w.poll = NoServer /\ w.out = <<>>
WorkerStep == UNCHANGED <<disk, coordinatorVars, token, cancelled, task, server, handler,
                          requests, unsaved, crossed>>

\* A poll takes the host when it sends its request.
Poll(o, t) ==
    /\ worker[o][t].phase \in {"first", "up"}
    /\ Quiet(worker[o][t])
    /\ worker' = [worker EXCEPT ![o][t].poll = server,
                                ![o][t].phase = IF @ = "first" THEN "connecting" ELSE @]
    /\ WorkerStep /\ UNCHANGED <<flag, known, projectionVars, lost, orphaned, lags>>

\* The answer replaces the players.  Their zones and the removal of the zones of players
\* that are gone are submitted one after the other.
Answer(o, t) ==
    /\ worker[o][t].poll # NoServer
    /\ LET s == worker[o][t].poll
           gone == {[type |-> "gone", server |-> k] : k \in known \ {s}}
       IN  /\ known' = {s}
           /\ \E rest \in {q \in [1 .. Cardinality(gone) -> gone] :
                              \A i, j \in DOMAIN q : i # j => q[i] # q[j]} :
                 worker' = [worker EXCEPT ![o][t].poll = NoServer,
                                ![o][t].out = <<[type |-> "zone", server |-> s]>> \o rest]
    /\ WorkerStep /\ UNCHANGED <<flag, projectionVars, lost, orphaned, lags>>

\* A poll fails, and the next one is due: the run goes on, or its first poll has failed and
\* the handle starts it again.
PollFails(o, t) ==
    /\ worker[o][t].poll # NoServer
    /\ worker' = [worker EXCEPT ![o][t].poll = NoServer,
                                ![o][t].phase = IF @ = "connecting" THEN "first" ELSE @]
    /\ WorkerStep /\ UNCHANGED <<flag, known, projectionVars, lost, orphaned, lags>>

\* Too many polls have failed in a row: the run clears the mark and ends with an error, and
\* the handle starts it again after its delay.
RunFails(t) ==
    /\ worker[Main][t].phase = "up" /\ worker[Main][t].poll # NoServer
    /\ worker' = [worker EXCEPT ![Main][t].poll = NoServer, ![Main][t].phase = "first"]
    /\ flag' = [flag EXCEPT ![Main] = FALSE]
    /\ WorkerStep /\ UNCHANGED <<known, projectionVars, lost, orphaned, lags>>

\* LmsRuntimeBridge::publish: one submission at a time, and its commit is awaited.
Submit(o, t) ==
    /\ worker[o][t].out # <<>>
    /\ \A i \in DOMAIN ingress : ingress[i].by[2] \notin Live(ingress[i].by[1])
    /\ ingress' = Append(ingress, [by |-> <<o, t>>, update |-> Head(worker[o][t].out)])
    /\ worker' = [worker EXCEPT ![o][t].out = Tail(@)]
    /\ WorkerStep /\ UNCHANGED <<flag, known, bus, listed, lost, orphaned, lags>>

\* After the first update the poller marks itself connected and running.
Connected(o, t) ==
    /\ worker[o][t].phase = "connecting"
    /\ Quiet(worker[o][t])
    /\ \A i \in DOMAIN ingress : ingress[i].by # <<o, t>>
    /\ worker' = [worker EXCEPT ![o][t].phase = "up"]
    /\ flag' = [flag EXCEPT ![o] = TRUE]
    /\ WorkerStep /\ UNCHANGED <<known, projectionVars, lost, orphaned, lags>>

\* The task ends, whatever it was waiting for; an update it has sent stays in the lane.
Ended(o, t) ==
    /\ worker' = [worker EXCEPT ![o][t] = Absent]
    /\ flag' = [flag EXCEPT ![o] = @ /\ o # Companion]
    /\ orphaned' = (orphaned \/ \E i \in DOMAIN ingress : ingress[i].by = <<o, t>>)
    /\ WorkerStep /\ UNCHANGED <<known, projectionVars>>

\* run_once notices the cancellation.
EndsCancelled(o, t) ==
    /\ t \in Live(o) /\ t \in cancelled[o]
    /\ Ended(o, t)
    /\ UNCHANGED <<lost, lags>>

\* The receiver of run_once lags, which ends the run as a shutdown would.
EndsLagged(o, t) ==
    /\ t \in Live(o)
    /\ lags < MaxLags
    /\ lags' = lags + 1
    /\ lost' = TRUE
    /\ Ended(o, t)
-------------------------------------------------------------------------------
(* The projection: the actor of the reliable lane and the aggregate's own subscriber *)

Listing(zones, e) ==
    CASE e.type = "zone" -> zones \cup {e.server}
      [] e.type = "gone" -> zones \ {e.server}
      [] e.type = "stopping" -> {}

\* commit_reliable_projection, and the hint it publishes.
Commit ==
    /\ ingress # <<>>
    /\ ingress' = Tail(ingress)
    /\ LET u == Head(ingress).update
       IN  /\ listed' = Listing(listed, u)
           /\ IF u.type = "gone" /\ u.server \notin listed
              THEN UNCHANGED <<bus, lost>>
              ELSE Publish(u)
    /\ UNCHANGED <<disk, coordinatorVars, adapterVars, handler, requests, orphaned, unsaved, crossed,
                   lags>>

\* run_inner: hints of commits write the zone once more, AdapterStopping removes them all.
Deliver ==
    /\ bus # <<>>
    /\ bus' = Tail(bus)
    /\ listed' = Listing(listed, Head(bus))
    /\ UNCHANGED <<disk, coordinatorVars, adapterVars, ingress, handler, requests, historyVars>>
-------------------------------------------------------------------------------
Work(o, t) ==
    \/ Poll(o, t) \/ Answer(o, t) \/ PollFails(o, t) \/ Submit(o, t) \/ Connected(o, t)
    \/ EndsCancelled(o, t) \/ EndsLagged(o, t)
    \/ o = Main /\ RunFails(t)

Next ==
    \/ \E h \in Handlers : PostSettings(h) \/ PostConfigure(h) \/ Serve(h)
    \/ PostHide
    \/ \E o \in Observers, t \in Tokens : Work(o, t)
    \/ Commit
    \/ Deliver

\* Handlers run when they can, and a task notices its cancelled token.
Fairness ==
    /\ \A h \in Handlers : WF_vars(Serve(h))
    /\ \A o \in Observers, t \in Tokens : WF_vars(EndsCancelled(o, t))

Spec == Init /\ [][Next]_vars /\ Fairness
-------------------------------------------------------------------------------
Update == [type : {"zone", "gone"}, server : Servers]
Steps == [do : {"toggle", "restore", "unsave", "claim", "token", "spawn", "track", "untrack",
                "cancel", "join", "stopped", "flush", "await", "configure", "mark", "enable"},
          who : Adapters]
Toggles == [Providers -> BOOLEAN]

\* Every variable stays within its type, and the bus within its capacity.
TypeOK ==
    /\ disk \in [on : Toggles, hidden : BOOLEAN]
    /\ enabled \in [Adapters -> BOOLEAN]
    /\ running \in [Adapters -> BOOLEAN]
    /\ flag \in [Adapters -> BOOLEAN]
    /\ token \in [Observers -> Tokens \cup {NoToken}]
    /\ cancelled \in [Observers -> SUBSET (Tokens \cup {NoToken})]
    /\ task \in [Observers -> Tokens \cup {NoToken}]
    /\ server \in Servers \cup {NoServer}
    /\ known \subseteq Servers
    /\ \A o \in Observers, t \in Tokens :
          /\ worker[o][t].phase \in {"none", "first", "connecting", "up"}
          /\ worker[o][t].poll \in Servers \cup {NoServer}
          /\ worker[o][t].out \in Seq(Update)
    /\ ingress \in Seq([by : Observers \X Tokens, update : Update])
    /\ bus \in Seq(Update \cup [type : {"stopping"}, server : {NoServer}])
    /\ Len(bus) <= BusCapacity
    /\ listed \subseteq Servers
    /\ \A h \in Handlers :
          /\ handler[h].todo \in Seq(Steps)
          /\ handler[h].old \in Toggles /\ handler[h].new \in Toggles
          /\ handler[h].applied \in Seq(Providers)
          /\ handler[h].hides \in BOOLEAN /\ handler[h].back \in BOOLEAN
          /\ {handler[h].token, handler[h].join} \subseteq Tokens \cup {NoToken}
    /\ requests \in 0 .. MaxRequests
    /\ {lost, orphaned} \subseteq BOOLEAN /\ {unsaved, crossed} \subseteq BOOLEAN
    /\ lags \in 0 .. MaxLags

\* Between requests the settings file, the coordinator and the workers agree: a provider
\* is enabled in the registry just when it is on disk, and one that is off has no worker,
\* is not tracked as running and does not think that it runs, also after a request that
\* was rolled back half-way.  A rollback that could not be saved excuses the file; nothing
\* is claimed once two requests, or two runs of an observer, have overlapped, for the code
\* serialises neither.
SettledAgrees ==
    ~crossed /\ (\A h \in Handlers : handler[h] = Idle) =>
        \A p \in Providers :
           /\ disk.on[p] = enabled[p] \/ unsaved
           /\ ~enabled[p] =>
                 /\ ~running[p] /\ ~flag[p]
                 /\ p = "lms" => \A o \in Observers : Live(o) = {} /\ ~running[o] /\ ~flag[o]

AtRest ==
    /\ \A h \in Handlers : handler[h] = Idle
    /\ ingress = <<>> /\ bus = <<>> /\ ~lost
    /\ \A o \in Observers : \A t \in Live(o) : worker[o][t].phase = "up" /\ Quiet(worker[o][t])

\* When everything has come to rest, no zone of a former server is listed, and none at all
\* when the provider is off: whatever the old observers were doing when they were stopped,
\* and though the request did not wait for the flush.  It takes that the stop awaits its
\* workers, and that both observers are stopped before the projection is retired.  The
\* exceptions are an update that was in the reliable lane already when its task ended, and
\* requests or runs that have overlapped.
FormerServerGone ==
    AtRest /\ ~orphaned /\ ~crossed =>
        listed \subseteq (IF enabled["lms"] THEN {server} ELSE {})

\* Whatever requests overlap, a run of the companion that is alive has the current token, the
\* one that the next stop cancels: a start that is overtaken by the stops and starts of other
\* requests leaves no run behind that nobody can stop, and two runs never observe together.
\* It holds because the companion's mark is cleared by the task whose start has set it, and
\* only there; the poller's is cleared by any stop and by a run that fails, and the same is
\* not true of it.
CompanionReachable == Live(Companion) \subseteq {token[Companion]}

\* Every request is answered: a stop that waits for its workers always comes to an end.  When
\* requests overlap it may have taken the handle of a later run than the one it has cancelled.
RequestsReturn == \A h \in Handlers : (handler[h] # Idle) ~> (handler[h] = Idle \/ crossed)
===============================================================================
