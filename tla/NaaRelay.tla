------------------------------- MODULE NaaRelay -------------------------------
(***************************************************************************)
(* The managed NAA relay of one HQPlayer instance                          *)
(* (src/src/adapters/hqplayer/naa/relay.rs): saved routes and the selected *)
(* one, the listener with its accept loop, the one session that HQPlayer   *)
(* may hold, and the worker threads of this session and of those that were *)
(* superseded (naa/protocol.rs).                                           *)
(*                                                                         *)
(* Every action is one critical section of the relay's lock, or one step   *)
(* of a thread between two of them.  Starting and stopping the listener    *)
(* take several.  HQPlayer and the NAA endpoint are external: a connection *)
(* may come, fail or end at any time.                                      *)
(***************************************************************************)
EXTENDS Integers, FiniteSets

CONSTANTS
    Routes,         \* route ids
    Endpoints,      \* the physical endpoints a route may name
    NoRoute, Absent,
    MaxWorkers,     \* MAX_WORKERS (16 in the code)
    MaxSessions,    \* bound on the sessions of one process
    MaxCalls,       \* bound on the calls of the owner
    MaxFaults       \* bound on failures of the accept loop, and on crashes

ASSUME RelayAssumption ==
    /\ NoRoute \notin Routes /\ Absent \notin Endpoints
    /\ MaxWorkers \in Nat \ {0} /\ MaxSessions \in Nat
    /\ MaxCalls \in Nat /\ MaxFaults \in Nat

Ids == 1 .. MaxSessions

VARIABLES
    routes,     \* RelayInner::routes, by id
    selected,   \* RelayInner::selected_route_id
    disk,       \* the saved routes and selection
    generation, \* RelayInner::generation
    gate,       \* RelayInner::routing_enabled
    error,      \* RelayInner::last_error
    session,    \* RelayInner::session
    reserved,   \* RelayInner::next_session
    workers,    \* RelayInner::workers
    worker,     \* the session threads
    listener,   \* RelayInner::listener
    loop,       \* the accept thread
    stop,       \* AcceptLoop::stop
    owner,      \* where start_listener or stop_listener stands
    committed,  \* the generation commit_selection returned last, or 0
    calls, faults

routeVars == <<routes, selected, disk>>
sessionVars == <<session, reserved, workers, worker>>
listenerVars == <<listener, loop, stop, owner>>
relayVars == <<routeVars, generation, gate, error, sessionVars, listenerVars, committed, faults>>
vars == <<relayVars, calls>>

\* What the thread of a session has seen the two sides agree on.  "playing" is started and
\* audio; the milestone shown is kept with the thread that reported it.
Milestones == {"initialized", "playing"}
NoSession == [id |-> 0, route |-> NoRoute, endpoint |-> Absent, generation |-> 0, shows |-> {}]
NoWorker == [phase |-> "none", endpoint |-> Absent]

\* NaaRelay::new on what is saved.
RelayInit ==
    /\ generation = 0 /\ gate = TRUE /\ error = "none"
    /\ session = NoSession /\ reserved = 0 /\ workers = 0
    /\ worker = [i \in Ids |-> NoWorker]
    /\ listener = "disabled" /\ loop = "none" /\ stop = FALSE /\ owner = "idle"
    /\ committed = 0

\* What is saved may be the routes and the selection of any former run.
Init ==
    /\ routes \in [Routes -> Endpoints \cup {Absent}]
    /\ selected \in {r \in Routes : routes[r] # Absent} \cup {NoRoute}
    /\ disk = [routes |-> routes, selected |-> selected]
    /\ RelayInit
    /\ calls = 0 /\ faults = 0

Unfinished == {i \in Ids : worker[i].phase \in {"connecting", "forwarding", "closed"}}

\* The routes and the selection are saved before they are used.
Persist(newRoutes, newSelected) ==
    disk' = [routes |-> newRoutes, selected |-> newSelected]

\* disconnect_locked: a new generation, and both sockets of the session are shut.  A
\* worker that is still connecting finds out when it attaches.
Disconnect ==
    /\ generation' = generation + 1
    /\ session' = NoSession
    /\ worker' = [i \in Ids |->
          IF i = session.id /\ worker[i].phase = "forwarding"
          THEN [worker[i] EXCEPT !.phase = "closed"] ELSE worker[i]]

Connected == <<generation, session, worker>>
-------------------------------------------------------------------------------
(* Routes and selection.  A save that fails leaves all as it was, so it is no step,      *)
(* except in ClearSelection.                                                             *)

\* add_route, and add_imported_routes for several at once.
AddRoutes ==
    /\ \E new \in SUBSET {r \in Routes : routes[r] = Absent} \ {{}} :
          \E to \in [new -> Endpoints] :
             routes' = [r \in Routes |-> IF r \in new THEN to[r] ELSE routes[r]]
    /\ Persist(routes', selected)
    /\ UNCHANGED <<selected, Connected, gate, error, reserved, workers,
                   listenerVars, committed, faults>>

\* update_route.
\* Mutant of UpdateRoute: the session to the former endpoint is kept.
UpdateRouteKeeping(r) ==
    /\ routes[r] # Absent
    /\ \E e \in Endpoints : routes' = [routes EXCEPT ![r] = e]
    /\ Persist(routes', selected)
    /\ UNCHANGED <<selected, Connected, gate, error, reserved, workers,
                   listenerVars, committed, faults>>

UpdateRoute(r) ==
    /\ routes[r] # Absent
    /\ \E e \in Endpoints : routes' = [routes EXCEPT ![r] = e]
    /\ Persist(routes', selected)
    /\ IF r = selected
       THEN Disconnect /\ error' = "none"
       ELSE UNCHANGED <<Connected, error>>
    /\ UNCHANGED <<selected, gate, reserved, workers, listenerVars, committed,
                   faults>>

RemoveRoute(r) ==
    /\ routes[r] # Absent
    /\ routes' = [routes EXCEPT ![r] = Absent]
    /\ selected' = IF r = selected THEN NoRoute ELSE selected
    /\ Persist(routes', selected')
    /\ IF r = selected
       THEN Disconnect /\ error' = "none"
       ELSE UNCHANGED <<Connected, error>>
    /\ UNCHANGED <<gate, reserved, workers, listenerVars, committed, faults>>

\* commit_selection.  The generation it returns identifies the operation from here on.
\* Mutant of CommitSelection: a session to the same endpoint is kept.
CommitSelectionKeeping(r) ==
    /\ routes[r] # Absent
    /\ Persist(routes, r)
    /\ IF selected # NoRoute /\ routes[selected] = routes[r]
       THEN generation' = generation + 1 /\ UNCHANGED <<session, worker>> ELSE Disconnect
    /\ selected' = r
    /\ gate' = TRUE /\ error' = "none"
    /\ committed' = generation'
    /\ UNCHANGED <<routes, reserved, workers, listenerVars, faults>>

CommitSelection(r) ==
    /\ routes[r] # Absent
    /\ Persist(routes, r)
    /\ Disconnect
    /\ selected' = r
    /\ gate' = TRUE /\ error' = "none"
    /\ committed' = generation'
    /\ UNCHANGED <<routes, reserved, workers, listenerVars, faults>>

\* clear_selection: first in memory, and then the file, which may fail.
ClearSelection ==
    /\ Disconnect
    /\ selected' = NoRoute
    /\ gate' = TRUE
    /\ \/ Persist(routes, NoRoute) /\ error' = "none"
       \/ UNCHANGED disk /\ error' = "unsaved"
    /\ UNCHANGED <<routes, reserved, workers, listenerVars, committed, faults>>

\* bump_generation
BumpGeneration ==
    /\ generation' = generation + 1
    /\ UNCHANGED <<routeVars, gate, error, sessionVars, listenerVars, committed, faults>>

\* disable_routing_after_failed_resume, with the generation of the operation's commit.
DisableRouting(g) ==
    /\ g = generation
    /\ Disconnect
    /\ gate' = FALSE /\ error' = "resume"
    /\ UNCHANGED <<routeVars, reserved, workers, listenerVars, committed, faults>>
-------------------------------------------------------------------------------
(* The listener *)

\* start_listener up to the spawn of the accept thread.  The former one has been joined.
StartListener ==
    /\ owner = "idle" /\ listener # "bound" /\ loop = "none"
    /\ \/ /\ loop' = "top" /\ stop' = FALSE /\ owner' = "starting"
          /\ UNCHANGED listener
       \/ /\ listener' = "failed"
          /\ UNCHANGED <<loop, stop, owner>>
    /\ UNCHANGED <<routeVars, generation, gate, error, sessionVars, committed, faults>>

\* It is entered as bound when its thread already accepts.
Bound ==
    /\ owner = "starting"
    /\ owner' = "idle"
    /\ listener' = "bound"
    /\ gate' = TRUE /\ error' = "none"
    /\ UNCHANGED <<routeVars, generation, sessionVars, loop, stop, committed, faults>>

\* stop_listener, in three steps.
\* Mutant of StopListener: the accept loop is not told to stop.
StopListenerSilent ==
    /\ owner = "idle"
    /\ owner' = "joining"
    /\ Disconnect
    /\ UNCHANGED <<routeVars, gate, error, reserved, workers, listener, loop, stop, committed,
                   faults>>

StopListener ==
    /\ owner = "idle"
    /\ stop' = TRUE /\ owner' = "joining"
    /\ Disconnect
    /\ UNCHANGED <<routeVars, gate, error, reserved, workers, listener, loop,
                   committed, faults>>

Joined ==
    /\ owner = "joining" /\ loop = "none"
    /\ owner' = "draining"
    /\ Disconnect
    /\ UNCHANGED <<routeVars, gate, error, reserved, workers, listener, loop, stop,
                   committed, faults>>

\* Workers are waited for as long as the budget lasts.
Drained ==
    /\ owner = "draining"
    /\ owner' = "idle"
    /\ listener' = IF listener = "failed" THEN "failed" ELSE "disabled"
    /\ UNCHANGED <<routeVars, generation, gate, error, sessionVars, loop, stop, committed, faults>>

\* accept_loop looks at the flag, and then for a client.
Poll ==
    /\ loop = "top" /\ ~stop
    /\ loop' = "polling"
    /\ UNCHANGED <<routeVars, generation, gate, error, sessionVars, listener, stop, owner,
                   committed, faults>>

NoClient ==
    /\ loop = "polling"
    /\ loop' = "top"
    /\ UNCHANGED <<routeVars, generation, gate, error, sessionVars, listener, stop, owner,
                   committed, faults>>

\* Whatever ended the loop, its session is closed.
\* Mutant of LoopEnds: a session is left to its thread.
LoopEndsAlone ==
    /\ \/ loop = "top" /\ stop /\ listener' = "disabled" /\ UNCHANGED faults
       \/ loop = "polling" /\ faults < MaxFaults /\ faults' = faults + 1 /\ listener' = "failed"
    /\ loop' = "none"
    /\ UNCHANGED <<routeVars, Connected, gate, error, reserved, workers, stop, owner,
                   committed>>

LoopEnds ==
    /\ \/ loop = "top" /\ stop /\ listener' = "disabled" /\ UNCHANGED faults
       \/ loop = "polling" /\ faults < MaxFaults /\ faults' = faults + 1 /\ listener' = "failed"
    /\ loop' = "none"
    /\ Disconnect
    /\ UNCHANGED <<routeVars, gate, error, reserved, workers, stop, owner,
                   committed>>

\* reserve refuses a client while there is a session, too many workers, no selection or a
\* closed gate; a hint about the selection does not cover a standing error.
\* Mutant of Refuse: the hint covers the error.
RefuseHinting ==
    /\ loop = "polling"
    /\ loop' = "top"
    /\ session.id # 0 \/ workers >= MaxWorkers \/ selected = NoRoute \/ ~gate
    /\ error' = IF session.id = 0 /\ workers < MaxWorkers /\ selected = NoRoute
                THEN "hint" ELSE error
    /\ UNCHANGED <<routeVars, generation, gate, sessionVars, listener, stop, owner,
                   committed, faults>>

Refuse ==
    /\ loop = "polling"
    /\ loop' = "top"
    /\ session.id # 0 \/ workers >= MaxWorkers \/ selected = NoRoute \/ ~gate
    /\ error' = IF session.id = 0 /\ workers < MaxWorkers /\ selected = NoRoute
                   /\ error = "none"
                THEN "hint" ELSE error
    /\ UNCHANGED <<routeVars, generation, gate, sessionVars, listener, stop, owner,
                   committed, faults>>

\* Otherwise the session is its own, and a worker is spawned for it.
Reserve ==
    /\ loop = "polling"
    /\ loop' = "top"
    /\ session.id = 0 /\ workers < MaxWorkers /\ selected # NoRoute /\ gate
    /\ reserved < MaxSessions
    /\ reserved' = reserved + 1
    /\ workers' = workers + 1
    /\ session' = [id |-> reserved', route |-> selected, endpoint |-> routes[selected],
                   generation |-> generation, shows |-> {}]
    /\ worker' = [worker EXCEPT ![reserved'] =
                     [phase |-> "connecting", endpoint |-> routes[selected]]]
    /\ error' = "none"
    /\ UNCHANGED <<routeVars, generation, gate, listener, stop, owner, committed, faults>>
-------------------------------------------------------------------------------
(* The thread of a session: protocol::serve *)

\* The endpoint is connected.  attach fails when the session is no longer this one.
Attach(i) ==
    /\ worker[i].phase = "connecting"
    /\ session.id = i
    /\ worker' = [worker EXCEPT ![i].phase = "forwarding"]
    /\ UNCHANGED <<routeVars, generation, gate, error, session, reserved, workers,
                   listenerVars, committed, faults>>

\* What a milestone leaves of those before it.
After(shows, i, m) ==
    CASE m = "initializing" -> {}
      [] m \in {"starting", "stopped"} -> {n \in shows : n[2] # "playing"}
      [] OTHER -> shows \cup {<<i, m>>}

\* milestone and audio, also of a thread whose sockets are already shut.
Milestone(i, m) ==
    /\ worker[i].phase \in {"forwarding", "closed"}
    /\ session.id = i
    /\ session' = [session EXCEPT !.shows = After(@, i, m)]
    /\ UNCHANGED <<routeVars, generation, gate, error, reserved, workers, worker,
                   listenerVars, committed, faults>>

\* finish, with the error of a failed session or none.
\* Mutant of Finish: only the thread of the session gives back its place.
FinishOwn(i) ==
    /\ i \in Unfinished
    /\ worker' = [worker EXCEPT ![i].phase = "gone"]
    /\ IF session.id = i
       THEN session' = NoSession /\ error' \in {"none", "session"} /\ workers' = workers - 1
       ELSE UNCHANGED <<session, error, workers>>
    /\ UNCHANGED <<routeVars, generation, gate, reserved, listenerVars, committed, faults>>

Finish(i) ==
    /\ i \in Unfinished
    /\ worker' = [worker EXCEPT ![i].phase = "gone"]
    /\ workers' = workers - 1
    /\ IF session.id = i
       THEN session' = NoSession /\ error' \in {"none", "session"}
       ELSE UNCHANGED <<session, error>>
    /\ UNCHANGED <<routeVars, generation, gate, reserved, listenerVars, committed, faults>>

\* The process dies and comes back with what it saved.
Crash ==
    /\ faults < MaxFaults
    /\ faults' = faults + 1
    /\ routes' = disk.routes /\ selected' = disk.selected
    /\ generation' = 0 /\ gate' = TRUE /\ error' = "none"
    /\ session' = NoSession /\ reserved' = 0 /\ workers' = 0
    /\ worker' = [i \in Ids |-> NoWorker]
    /\ listener' = "disabled" /\ loop' = "none" /\ stop' = FALSE /\ owner' = "idle"
    /\ committed' = 0
    /\ UNCHANGED disk
-------------------------------------------------------------------------------
Listening == Bound \/ Joined \/ Drained \/ Poll \/ NoClient \/ LoopEnds \/ Refuse \/ Reserve

Serve(i) ==
    \/ Attach(i)
    \/ \E m \in Milestones \cup {"initializing", "starting", "stopped"} : Milestone(i, m)
    \/ Finish(i)

OwnerCall ==
    \/ AddRoutes \/ ClearSelection \/ BumpGeneration \/ StartListener \/ StopListener
    \/ committed # 0 /\ DisableRouting(committed)
    \/ \E r \in Routes : UpdateRoute(r) \/ RemoveRoute(r) \/ CommitSelection(r)

Step == Listening \/ (\E i \in Ids : Serve(i)) \/ Crash

Next ==
    \/ calls < MaxCalls /\ calls' = calls + 1 /\ OwnerCall
    \/ Step /\ UNCHANGED calls

\* Threads run.  Of a session thread it is only certain that it ends once its sockets are
\* shut, or its bounded connect returns to find it superseded.
Fairness ==
    /\ WF_relayVars(Bound) /\ WF_relayVars(Joined) /\ WF_relayVars(Drained)
    /\ WF_relayVars(Poll \/ NoClient \/ Refuse \/ Reserve \/ LoopEnds)
    /\ \A i \in Ids :
          WF_relayVars(worker[i].phase # "forwarding" /\ session.id # i /\ Finish(i))

Spec == Init /\ [][Next]_vars /\ Fairness
-------------------------------------------------------------------------------
\* Every variable stays within its type.
TypeOK ==
    /\ routes \in [Routes -> Endpoints \cup {Absent}]
    /\ selected \in Routes \cup {NoRoute}
    /\ disk \in [routes : [Routes -> Endpoints \cup {Absent}], selected : Routes \cup {NoRoute}]
    /\ generation \in Nat /\ committed \in Nat
    /\ gate \in BOOLEAN /\ stop \in BOOLEAN
    /\ error \in {"none", "hint", "session", "unsaved", "resume"}
    /\ session \in [id : Ids \cup {0}, route : Routes \cup {NoRoute},
                    endpoint : Endpoints \cup {Absent}, generation : Nat,
                    shows : SUBSET (Ids \X Milestones)]
    /\ reserved \in 0 .. MaxSessions
    /\ workers \in 0 .. MaxWorkers
    /\ worker \in [Ids -> [phase : {"none", "connecting", "forwarding", "closed", "gone"},
                           endpoint : Endpoints \cup {Absent}]]
    /\ listener \in {"disabled", "bound", "failed"}
    /\ loop \in {"none", "top", "polling"}
    /\ owner \in {"idle", "starting", "joining", "draining"}
    /\ calls \in 0 .. MaxCalls
    /\ faults \in 0 .. MaxFaults

\* Audio reaches no endpoint but the one of the selected route, as the route now stands,
\* and none behind a closed gate: no thread forwards unless it is the session's own,
\* however the selection, the routes, the gate or the listener changed while it connected.
ForwardsToTheSelection ==
    \A i \in Ids : worker[i].phase = "forwarding" =>
        /\ session.id = i
        /\ selected = session.route /\ selected # NoRoute
        /\ worker[i].endpoint = routes[selected]
        /\ gate

\* The relay implements OneOutput: whatever the owner calls and the threads do, audio is one
\* stream to the chosen endpoint, and every change of the choice closes it first.
Output == INSTANCE OneOutput WITH
    Threads <- Ids,
    chosen <- IF gate /\ selected # NoRoute THEN routes[selected] ELSE Absent,
    streams <- {<<i, worker[i].endpoint>> : i \in {j \in Ids : worker[j].phase = "forwarding"}}

ImplementsOneOutput == Output!Spec

\* To its owner the relay is the RelayContract: a session that is shown began under the
\* generation it names, and is of the route that is selected.
Contract == INSTANCE RelayContract WITH
    shown <- IF session.id = 0 THEN [since |-> 0, route |-> NoRoute, reached |-> {}]
             ELSE [since |-> session.generation, route |-> session.route,
                   reached |-> {n[2] : n \in session.shows}]

ImplementsContract == Contract!ContractSpec

\* No session outlives the loop that accepted it.  The owner may rely on that when
\* stop_listener returns: nothing is reserved in the window before the loop is joined
\* and left behind.
NoSessionBehindADeadLoop == session.id # 0 => loop # "none"

\* The worker counter is the number of threads that have not finished, superseded ones
\* included, and stays within its limit: threads of superseded sessions neither leak a
\* place nor give it back twice.
WorkersCounted == workers = Cardinality(Unfinished) /\ workers <= MaxWorkers

\* A session shows what its own thread has reported and nothing of a superseded one: the
\* coordinator takes its evidence for the new route from here.
EvidenceIsItsOwn == \A n \in session.shows : n[1] = session.id

\* A Stop that could not be saved is shown until it is saved or the listener is started
\* again: a restart would connect to the previous route without the user's will.
UnsavedStopStaysShown ==
    [][ disk.selected # selected /\ error = "unsaved" /\ error' # "unsaved"
        => disk'.selected = selected' \/ owner = "starting" ]_vars

\* start_listener and stop_listener return: the join of the accept loop is bounded.
ListenerCallsReturn == (owner # "idle") ~> (owner = "idle")
===============================================================================
