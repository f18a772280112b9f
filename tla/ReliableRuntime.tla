--------------------------- MODULE ReliableRuntime ---------------------------
(***************************************************************************)
(* The reliable command runtime of the bridge (src/src/bus/runtime.rs):    *)
(* CommandGateway::submit, the endpoint registry, the deadline gate that   *)
(* an adapter's command worker must win before it touches the network, the *)
(* two deadline timers, and the single ProjectionActor that turns a        *)
(* read-back commit into a confirmation.  The command workers of the       *)
(* adapters (roon, lms, upnp, openhome, hqplayer) and the start and stop   *)
(* of the adapter that owns each of them are part of the model: they are   *)
(* the only code that calls the runtime.                                   *)
(*                                                                         *)
(* A step is one critical section of the code.  `submit' has an await only *)
(* where it reserves a queue slot, and that is the only place where its    *)
(* future can be dropped (CancelSubmit).                                   *)
(*                                                                         *)
(* A call of `submit' allocates at most one id, from an atomic counter, so *)
(* the id of a command is the call that allocated it.                      *)
(***************************************************************************)
EXTENDS Integers, Sequences

CONSTANTS
    Calls,              \* the calls of CommandGateway::submit
    Zones,              \* the targets (PrefixedZoneId)
    Providers,          \* the providers behind the targets
    SourceOf,           \* PrefixedZoneId::source: the provider of a zone
    ExactProviders,     \* providers with one endpoint per exact zone (hqplayer)
    CallbackProviders,  \* providers confirmed by a callback, not a read-back (roon)
    Correlations,       \* client-chosen correlation ids
    Commands,           \* semantic payloads
    Reconfigurations,   \* the payloads submitted on CommandLane::Reconfiguration
    Disconnecting,      \* the calls whose client may go away before the answer
    Nil,                \* no value (Option::None)
    Capacity,           \* bound of an endpoint's queue (16 or 32 in the code)
    MaxGen,             \* bound on adapter runs, and so on endpoint registrations
    MaxRev              \* bound on committed projection revisions

Request == [target : Zones, command : Commands, correlation : Correlations \cup {Nil}]

ASSUME RuntimeAssumption ==
    /\ SourceOf \in [Zones -> Providers]
    /\ ExactProviders \subseteq Providers
    /\ CallbackProviders \subseteq Providers \ ExactProviders
    /\ Reconfigurations \subseteq Commands
    /\ Zones \cap Providers = {} /\ Disconnecting \subseteq Calls
    /\ Nil \notin Calls \cup Zones \cup Correlations /\ Nil \notin Request
    /\ Capacity \in Nat \ {0} /\ MaxGen \in Nat /\ MaxRev \in Nat

Keys == Zones \cup Providers            \* EndpointKey::Zone and EndpointKey::Provider
Gens == 1 .. MaxGen                     \* endpoints, named by the run that registered them

\* The keys an adapter registers: its exact zones, or its provider name.
EndpointKeys ==
    {z \in Zones : SourceOf[z] \in ExactProviders} \cup (Providers \ ExactProviders)

CallPhase == {"idle", "lookup", "insert", "route", "reserve",
              "returned", "left", "conflict", "cancelled"}
CommandStatus == {"Absent", "Queued", "Dispatched", "AwaitingProjection",
                  "Indeterminate", "Confirmed", "Failed", "NotDispatched"}
Final == {"Confirmed", "Failed", "NotDispatched"}
WorkerPhase == {"none", "idle", "held", "checked", "dispatched", "native",
                "reading", "committing", "observing", "gone"}

VARIABLES
    (* submit calls *)
    req,         \* the request of each call, or Nil
    pc,          \* where each call is
    ticket,      \* the command whose status the returned CommandTicket watches
    routed,      \* the endpoint whose sender the call cloned, or 0
    clock,       \* 0, then 1 once dispatch_by has passed, then 2 once confirm_by has
    (* RuntimeState *)
    status,      \* CommandRecord.status, "Absent" before insert_record
    seen,        \* CommandRecord.updates: the value in the watch channel of a command
    rev,         \* the revision inside Confirmed, else 0
    correlated,  \* RuntimeData.correlations
    expiry,      \* commands with a pending dispatch-expiry task
    doubt,       \* commands with a pending confirmation-timeout task
    native,      \* history: commands that obtained the native-dispatch lease
    (* endpoints and their workers *)
    slot,        \* EndpointRegistry.endpoints: the registered generation of a key, or 0
    nextGen,     \* EndpointRegistry.generation, drawn once per run
    keyOf,       \* the key each endpoint was registered under
    queue,       \* the bounded mpsc channel of each endpoint
    worker,      \* the phase of the task that owns the endpoint
    hand,        \* the work item the worker holds
    busy,        \* endpoints whose ReconfigurationGuard is held
    cancelled,   \* endpoints whose worker's shutdown token is cancelled
    armed,       \* RoonRuntimeBridge.pending of a callback provider
    (* adapter runs *)
    running,     \* keys whose adapter is started
    owned,       \* the endpoint the present (or last) run registered, or 0
    (* projections *)
    ingress,     \* ProjectionIngress: the bounded lane into the actor
    actor,       \* the submission being committed, and its outcome, or Nil
    commits      \* history: the command each committed revision names

callVars == <<req, pc, ticket, routed, clock>>
ledgerVars == <<status, seen, rev, correlated, expiry, doubt, native>>
endpointVars == <<slot, nextGen, keyOf, queue, worker, hand, busy, cancelled, armed>>
runVars == <<running, owned>>
projectionVars == <<ingress, actor, commits>>
vars == <<callVars, ledgerVars, endpointVars, runVars, projectionVars>>

Init ==
    /\ req = [c \in Calls |-> Nil]
    /\ pc = [c \in Calls |-> "idle"]
    /\ ticket = [c \in Calls |-> Nil]
    /\ routed = [c \in Calls |-> 0]
    /\ clock = [c \in Calls |-> 0]
    /\ status = [c \in Calls |-> "Absent"]
    /\ seen = [c \in Calls |-> "Absent"]
    /\ rev = [c \in Calls |-> 0]
    /\ correlated = [k \in Correlations |-> Nil]
    /\ expiry = {} /\ doubt = {} /\ native = {}
    /\ slot = [k \in Keys |-> 0]
    /\ nextGen = 1
    /\ keyOf = [g \in Gens |-> Nil]
    /\ queue = [g \in Gens |-> << >>]
    /\ worker = [g \in Gens |-> "none"]
    /\ hand = [g \in Gens |-> Nil]
    /\ busy = {} /\ cancelled = {}
    /\ armed = [k \in Keys |-> Nil]
    /\ running = {}
    /\ owned = [k \in Keys |-> 0]
    /\ ingress = << >> /\ actor = Nil /\ commits = << >>

-----------------------------------------------------------------------------
(* Helpers of RuntimeState.                                                *)

\* Mutant of Watched: submit subscribes when it returns, not when it inserts.
WatchedAfterReturn(c) == \E d \in Calls : ticket[d] = c /\ pc[d] = "returned"

\* Some caller still has a CommandTicket for c, or is about to get it.
Watched(c) ==
    \E d \in Calls : ticket[d] = c /\ pc[d] \in {"route", "reserve", "returned"}

\* A status write.  watch::Sender::send fails when every receiver is gone, and
\* then the channel keeps the value it had, also for later subscribers.
SetStatus(c, s) ==
    /\ status' = [status EXCEPT ![c] = s]
    /\ seen' = IF Watched(c) THEN [seen EXCEPT ![c] = s] ELSE seen

\* Mutant of NotDispatched: the transition is not conditional on Queued.
RefusedAnyway(c) == SetStatus(c, "NotDispatched")

\* transition to NotDispatched, which only a Queued command takes.
NotDispatched(c) ==
    IF status[c] = "Queued" THEN SetStatus(c, "NotDispatched") ELSE UNCHANGED <<status, seen>>

\* The endpoint a target is routed to: the exact zone first, then its provider.
Route(z) == IF slot[z] # 0 THEN slot[z] ELSE slot[SourceOf[z]]

\* Whether a projection from this source may confirm a command for this target.
SourceMatchesTarget(sub, z) ==
    /\ sub.adapter = SourceOf[z]
    /\ \/ sub.instance = z
       \/ sub.instance = Nil /\ SourceOf[z] \notin ExactProviders

\* A projection naming command c is queued or being committed.
InFlight(c) ==
    \/ \E i \in 1 .. Len(ingress) : ingress[i].by = c
    \/ actor # Nil /\ actor.sub.by = c

Alive(g) == worker[g] \notin {"none", "gone"}

-----------------------------------------------------------------------------
(* CommandGateway::submit.                                                 *)

Begin(c) ==
    /\ pc[c] = "idle"
    /\ \E r \in Request :
          /\ r.command \in Reconfigurations => SourceOf[r.target] \in ExactProviders
          /\ req' = [req EXCEPT ![c] = r]
          /\ pc' = [pc EXCEPT ![c] = IF r.correlation = Nil THEN "insert" ELSE "lookup"]
    /\ UNCHANGED <<ticket, routed, clock, ledgerVars, endpointVars, runVars, projectionVars>>

\* ticket_for_correlation, under the data lock: a miss goes on to insert_record
\* under a later acquisition of the same lock.
Lookup(c) ==
    LET prior == correlated[req[c].correlation] IN
    /\ pc[c] = "lookup"
    /\ \/ /\ prior = Nil
          /\ pc' = [pc EXCEPT ![c] = "insert"]
          /\ UNCHANGED ticket
       \/ /\ prior # Nil
          /\ req[prior].target = req[c].target /\ req[prior].command = req[c].command
          /\ pc' = [pc EXCEPT ![c] = "returned"]
          /\ ticket' = [ticket EXCEPT ![c] = prior]
       \/ /\ prior # Nil
          /\ ~(req[prior].target = req[c].target /\ req[prior].command = req[c].command)
          /\ pc' = [pc EXCEPT ![c] = "conflict"]
          /\ UNCHANGED ticket
    /\ UNCHANGED <<req, routed, clock, ledgerVars, endpointVars, runVars, projectionVars>>

\* insert_record: the record and, if the caller gave one, its correlation.
Insert(c) ==
    /\ pc[c] = "insert"
    /\ pc' = [pc EXCEPT ![c] = "route"]
    /\ ticket' = [ticket EXCEPT ![c] = c]
    /\ status' = [status EXCEPT ![c] = "Queued"] /\ seen' = [seen EXCEPT ![c] = "Queued"]
    /\ correlated' = IF req[c].correlation = Nil THEN correlated
                     ELSE [correlated EXCEPT ![req[c].correlation] = c]
    /\ UNCHANGED <<req, routed, clock, rev, expiry, doubt, native,
                   endpointVars, runVars, projectionVars>>

\* registry.route, and the load of the endpoint's `reconfiguring' flag: a flag
\* that changes between the two gives what a later or an earlier route gives.
RouteCall(c) ==
    LET g == Route(req[c].target)
        admitted == g # 0 /\ g \notin busy IN
    /\ pc[c] = "route"
    /\ routed' = [routed EXCEPT ![c] = IF admitted THEN g ELSE 0]
    /\ \/ admitted /\ pc' = [pc EXCEPT ![c] = "reserve"] /\ UNCHANGED <<status, seen>>
       \/ ~admitted /\ pc' = [pc EXCEPT ![c] = "returned"] /\ NotDispatched(c)
    /\ UNCHANGED <<req, ticket, clock, rev, correlated, expiry, doubt, native,
                   endpointVars, runVars, projectionVars>>

\* Mutant of Enqueue: the work is sent without its dispatch-expiry task.
EnqueueUntimed(c) ==
    LET g == routed[c] IN
    /\ pc[c] = "reserve"
    /\ Alive(g) /\ Len(queue[g]) < Capacity
    /\ queue' = [queue EXCEPT ![g] = Append(@, c)]
    /\ pc' = [pc EXCEPT ![c] = "returned"] /\ routed' = [routed EXCEPT ![c] = 0]
    /\ UNCHANGED <<req, ticket, clock, ledgerVars, slot, nextGen, keyOf, worker, hand, busy,
                   cancelled, armed, runVars, projectionVars>>

\* A slot is free: send the work and start its dispatch-expiry task.
Enqueue(c) ==
    LET g == routed[c] IN
    /\ pc[c] = "reserve"
    /\ Alive(g) /\ Len(queue[g]) < Capacity
    /\ queue' = [queue EXCEPT ![g] = Append(@, c)]
    /\ expiry' = expiry \cup {c}
    /\ pc' = [pc EXCEPT ![c] = "returned"] /\ routed' = [routed EXCEPT ![c] = 0]
    /\ UNCHANGED <<req, ticket, clock, status, seen, rev, correlated, doubt, native,
                   slot, nextGen, keyOf, worker, hand, busy, cancelled, armed,
                   runVars, projectionVars>>

\* reserve failed: the receiver is gone, or dispatch_by passed on a full queue.
ReserveFailed(c) ==
    LET g == routed[c] IN
    /\ pc[c] = "reserve"
    /\ \/ ~Alive(g)
       \/ clock[c] > 0 /\ Len(queue[g]) = Capacity
    /\ NotDispatched(c)
    /\ pc' = [pc EXCEPT ![c] = "returned"] /\ routed' = [routed EXCEPT ![c] = 0]
    /\ UNCHANGED <<req, ticket, clock, rev, correlated, expiry, doubt, native,
                   endpointVars, runVars, projectionVars>>

\* The caller drops the future (a client disconnects) while it waits for a slot.
CancelSubmit(c) ==
    /\ c \in Disconnecting /\ pc[c] = "reserve"
    /\ Alive(routed[c]) /\ Len(queue[routed[c]]) = Capacity
    /\ pc' = [pc EXCEPT ![c] = "cancelled"] /\ routed' = [routed EXCEPT ![c] = 0]
    /\ UNCHANGED <<req, ticket, clock, ledgerVars, endpointVars, runVars, projectionVars>>

\* The caller drops its ticket: its client is gone.
Leave(c) ==
    /\ c \in Disconnecting /\ pc[c] = "returned"
    /\ pc' = [pc EXCEPT ![c] = "left"]
    /\ UNCHANGED <<req, ticket, routed, clock, ledgerVars, endpointVars, runVars, projectionVars>>

-----------------------------------------------------------------------------
(* Time and the two timers of a command.                                   *)

\* The callers compute both deadlines just before they submit.
DeadlinePasses(c) ==
    /\ pc[c] # "idle" /\ clock[c] < 2
    /\ clock' = [clock EXCEPT ![c] = @ + 1]
    /\ UNCHANGED <<req, pc, ticket, routed, ledgerVars, endpointVars, runVars, projectionVars>>

\* The task of schedule_dispatch_expiry.
DispatchExpires(c) ==
    /\ c \in expiry /\ clock[c] > 0
    /\ expiry' = expiry \ {c}
    /\ NotDispatched(c)
    /\ UNCHANGED <<callVars, rev, correlated, doubt, native,
                   endpointVars, runVars, projectionVars>>

\* Mutant of ConfirmationTimesOut: the transition is unconditional.
DoubtsAnyway(c) ==
    /\ c \in doubt /\ clock[c] = 2
    /\ doubt' = doubt \ {c}
    /\ SetStatus(c, "Indeterminate")
    /\ UNCHANGED <<callVars, rev, correlated, expiry, native,
                   endpointVars, runVars, projectionVars>>

\* The task of schedule_confirmation_timeout.
ConfirmationTimesOut(c) ==
    /\ c \in doubt /\ clock[c] = 2
    /\ doubt' = doubt \ {c}
    /\ IF status[c] \in {"Dispatched", "AwaitingProjection"}
       THEN SetStatus(c, "Indeterminate") ELSE UNCHANGED <<status, seen>>
    /\ UNCHANGED <<callVars, rev, correlated, expiry, native,
                   endpointVars, runVars, projectionVars>>

-----------------------------------------------------------------------------
(* The command worker of an adapter: one task per endpoint, serial.        *)

ByCallback(g) == keyOf[g] \in CallbackProviders

\* The end of a loop iteration: the permit and the reconfiguration guard drop.
Finish(g) ==
    /\ worker' = [worker EXCEPT ![g] = "idle"]
    /\ hand' = [hand EXCEPT ![g] = Nil]
    /\ busy' = busy \ {g}

\* endpoint.recv, then the guard of a reconfiguration.
Receive(g) ==
    /\ worker[g] = "idle" /\ queue[g] # << >>
    /\ worker' = [worker EXCEPT ![g] = "held"]
    /\ hand' = [hand EXCEPT ![g] = Head(queue[g])]
    /\ queue' = [queue EXCEPT ![g] = Tail(@)]
    /\ busy' = IF req[Head(queue[g])].command \in Reconfigurations THEN busy \cup {g} ELSE busy
    /\ UNCHANGED <<callVars, ledgerVars, slot, nextGen, keyOf, cancelled, armed,
                   runVars, projectionVars>>

\* begin_dispatch reads the clock ...
CheckDeadline(g) ==
    LET c == hand[g] IN
    /\ worker[g] = "held"
    /\ \/ /\ clock[c] = 0
          /\ worker' = [worker EXCEPT ![g] = "checked"]
          /\ UNCHANGED <<status, seen, hand, busy>>
       \/ clock[c] > 0 /\ NotDispatched(c) /\ Finish(g)
    /\ UNCHANGED <<callVars, rev, correlated, expiry, doubt, native,
                   slot, nextGen, keyOf, queue, cancelled, armed, runVars, projectionVars>>

\* Mutants of BeginDispatch: the status is not read again after the clock; the
\* lease starts no confirmation-timeout task.
LeasesOnDeadlineAlone(g) ==
    /\ worker[g] = "checked"
    /\ SetStatus(hand[g], "Dispatched")
    /\ doubt' = doubt \cup {hand[g]} /\ native' = native \cup {hand[g]}
    /\ worker' = [worker EXCEPT ![g] = "dispatched"]
    /\ UNCHANGED <<callVars, rev, correlated, expiry, slot, nextGen, keyOf, queue, hand, busy,
                   cancelled, armed, runVars, projectionVars>>
LeasesUntimed(g) ==
    LET c == hand[g] IN
    /\ worker[g] = "checked"
    /\ \/ /\ status[c] = "Queued"
          /\ SetStatus(c, "Dispatched")
          /\ native' = native \cup {c}
          /\ worker' = [worker EXCEPT ![g] = "dispatched"]
          /\ UNCHANGED <<hand, busy>>
       \/ status[c] # "Queued" /\ Finish(g) /\ UNCHANGED <<status, seen, native>>
    /\ UNCHANGED <<callVars, rev, correlated, expiry, doubt, slot, nextGen, keyOf, queue,
                   cancelled, armed, runVars, projectionVars>>

\* ... and then takes the irreversible lease, unless the expiry task came first.
BeginDispatch(g) ==
    LET c == hand[g] IN
    /\ worker[g] = "checked"
    /\ \/ /\ status[c] = "Queued"
          /\ SetStatus(c, "Dispatched")
          /\ doubt' = doubt \cup {c}
          /\ native' = native \cup {c}
          /\ worker' = [worker EXCEPT ![g] = "dispatched"]
          /\ UNCHANGED <<hand, busy>>
       \/ status[c] # "Queued" /\ Finish(g) /\ UNCHANGED <<status, seen, doubt, native>>
    /\ UNCHANGED <<callVars, rev, correlated, expiry,
                   slot, nextGen, keyOf, queue, cancelled, armed, runVars, projectionVars>>

\* Roon arms its bridge before the native call, so that no callback is missed.
Arm(g) ==
    /\ worker[g] = "dispatched" /\ ByCallback(g) /\ armed[keyOf[g]] = Nil
    /\ armed' = [armed EXCEPT ![keyOf[g]] = hand[g]]
    /\ worker' = [worker EXCEPT ![g] = "native"]
    /\ UNCHANGED <<callVars, ledgerVars, slot, nextGen, keyOf, queue, hand, busy, cancelled,
                   runVars, projectionVars>>

\* disarm: forget this command's expectation, if it is still the pending one.
Disarm(g) ==
    armed' = IF ByCallback(g) /\ armed[keyOf[g]] = hand[g]
             THEN [armed EXCEPT ![keyOf[g]] = Nil] ELSE armed

\* The worker still owes a native result: before Arm only a failure, for Roon.
OwesResult(g) == worker[g] \in {"dispatched", "native"}

\* complete_native(Failed) is unconditional: it replaces any status.
NativeFailed(g) ==
    LET c == hand[g] IN
    /\ OwesResult(g)
    /\ SetStatus(c, "Failed")
    /\ rev' = [rev EXCEPT ![c] = 0]
    /\ Disarm(g)
    /\ Finish(g)
    /\ UNCHANGED <<callVars, correlated, expiry, doubt, native,
                   slot, nextGen, keyOf, queue, cancelled, runVars, projectionVars>>

\* complete_native(Accepted): the native fact, never a confirmation.
NativeAccepted(g) ==
    LET c == hand[g] IN
    /\ worker[g] = IF ByCallback(g) THEN "native" ELSE "dispatched"
    /\ IF status[c] = "Dispatched"
       THEN SetStatus(c, "AwaitingProjection") ELSE UNCHANGED <<status, seen>>
    /\ worker' = [worker EXCEPT ![g] = IF ByCallback(g) THEN "observing" ELSE "reading"]
    /\ UNCHANGED <<callVars, rev, correlated, expiry, doubt, native,
                   slot, nextGen, keyOf, queue, hand, busy, cancelled, armed,
                   runVars, projectionVars>>

\* The projection of the endpoint's source: hqplayer names its instance.
Projection(k, c) ==
    [adapter |-> IF k \in Zones THEN SourceOf[k] ELSE k,
     instance |-> IF k \in Zones THEN k ELSE Nil,
     by |-> c]

\* A coherent read-back nominates the command; it can also fail.
ReadBack(g) ==
    /\ worker[g] = "reading"
    /\ \/ /\ ingress' = Append(ingress, Projection(keyOf[g], hand[g]))
          /\ worker' = [worker EXCEPT ![g] = "committing"]
          /\ UNCHANGED <<hand, busy>>
       \/ Finish(g) /\ UNCHANGED ingress
    /\ UNCHANGED <<callVars, ledgerVars, slot, nextGen, keyOf, queue, cancelled, armed,
                   runVars, actor, commits>>

\* The commit was answered, or Roon's observation arrived, or confirm_by passed.
Settle(g) ==
    LET c == hand[g] IN
    /\ \/ worker[g] = "committing" /\ ~InFlight(c)
       \/ worker[g] = "observing" /\ armed[keyOf[g]] # c /\ ~InFlight(c)
       \/ worker[g] = "observing" /\ clock[c] = 2
    /\ Disarm(g)
    /\ Finish(g)
    /\ UNCHANGED <<callVars, ledgerVars, slot, nextGen, keyOf, queue, cancelled,
                   runVars, projectionVars>>

\* The worker sees its token, drops the endpoint (which unregisters its own
\* generation only) and with it the receiver and every queued work item.
WorkerExit(g) ==
    /\ worker[g] = "idle" /\ g \in cancelled
    /\ worker' = [worker EXCEPT ![g] = "gone"]
    /\ slot' = IF slot[keyOf[g]] = g THEN [slot EXCEPT ![keyOf[g]] = 0] ELSE slot
    /\ queue' = [queue EXCEPT ![g] = << >>]
    /\ UNCHANGED <<callVars, ledgerVars, nextGen, keyOf, hand, busy, cancelled, armed,
                   runVars, projectionVars>>

-----------------------------------------------------------------------------
(* The adapter that owns an endpoint.                                      *)

\* Mutant of StartRun: a registration replaces the endpoint that is there.
StartRunReplacing(k) ==
    /\ k \notin running /\ nextGen <= MaxGen
    /\ running' = running \cup {k}
    /\ nextGen' = nextGen + 1
    /\ slot' = [slot EXCEPT ![k] = nextGen]
    /\ keyOf' = [keyOf EXCEPT ![nextGen] = k]
    /\ worker' = [worker EXCEPT ![nextGen] = "idle"]
    /\ owned' = [owned EXCEPT ![k] = nextGen]
    /\ UNCHANGED <<callVars, ledgerVars, queue, hand, busy, cancelled, armed, projectionVars>>

\* The registration at the top of AdapterLogic::run: a key that still has an
\* endpoint refuses a second, and the run goes on without one.  The hqplayer
\* manager joins its old worker before it starts another; the others do not.
StartRun(k) ==
    /\ k \notin running /\ nextGen <= MaxGen
    /\ k \in Zones /\ owned[k] # 0 => worker[owned[k]] = "gone"
    /\ running' = running \cup {k}
    /\ nextGen' = nextGen + 1
    /\ IF slot[k] = 0
       THEN /\ slot' = [slot EXCEPT ![k] = nextGen]
            /\ keyOf' = [keyOf EXCEPT ![nextGen] = k]
            /\ worker' = [worker EXCEPT ![nextGen] = "idle"]
            /\ owned' = [owned EXCEPT ![k] = nextGen]
       ELSE owned' = [owned EXCEPT ![k] = 0] /\ UNCHANGED <<slot, keyOf, worker>>
    /\ UNCHANGED <<callVars, ledgerVars, queue, hand, busy, cancelled, armed, projectionVars>>

\* stop cancels the run's token and does not wait for the command worker.
StopRun(k) ==
    /\ k \in running
    /\ running' = running \ {k}
    /\ cancelled' = IF owned[k] # 0 THEN cancelled \cup {owned[k]} ELSE cancelled
    /\ UNCHANGED <<callVars, ledgerVars, slot, nextGen, keyOf, queue, worker, hand, busy, armed,
                   owned, projectionVars>>

\* An observation that no command caused is submitted and committed.
Observe(k) ==
    /\ k \in running /\ actor = Nil /\ Len(commits) < MaxRev
    /\ commits' = Append(commits, Nil)
    /\ UNCHANGED <<callVars, ledgerVars, endpointVars, runVars, ingress, actor>>

\* A callback that meets the armed expectation takes it and nominates the command.
MatchingCallback(k) ==
    /\ k \in running /\ armed[k] # Nil
    /\ ingress' = Append(ingress, Projection(k, armed[k]))
    /\ armed' = [armed EXCEPT ![k] = Nil]
    /\ UNCHANGED <<callVars, ledgerVars, slot, nextGen, keyOf, queue, worker, hand, busy, cancelled,
                   runVars, actor, commits>>

-----------------------------------------------------------------------------
(* ProjectionActor::run.                                                   *)

\* The committer's answer: a new revision, or StaleIgnored or GapDetected.
Commit ==
    /\ actor = Nil /\ ingress # << >>
    /\ ingress' = Tail(ingress)
    /\ \/ /\ Len(commits) < MaxRev
          /\ commits' = Append(commits, Head(ingress).by)
          /\ actor' = [sub |-> Head(ingress), revision |-> Len(commits) + 1]
       \/ /\ actor' = [sub |-> Head(ingress), revision |-> 0]
          /\ UNCHANGED commits
    /\ UNCHANGED <<callVars, ledgerVars, endpointVars, runVars>>

\* Mutant of Confirms: a refused submission confirms too.
ConfirmsUncommitted(a) ==
    /\ a.sub.by # Nil
    /\ SourceMatchesTarget(a.sub, req[a.sub.by].target)
    /\ status[a.sub.by] \in {"AwaitingProjection", "Dispatched", "Indeterminate"}

\* Whether a committed projection confirms the command that it names.
Confirms(a) ==
    /\ a.revision # 0 /\ a.sub.by # Nil
    /\ SourceMatchesTarget(a.sub, req[a.sub.by].target)
    /\ status[a.sub.by] \in {"AwaitingProjection", "Dispatched", "Indeterminate"}

RecordOutcome ==
    /\ actor # Nil
    /\ IF Confirms(actor)
       THEN /\ SetStatus(actor.sub.by, "Confirmed")
            /\ rev' = [rev EXCEPT ![actor.sub.by] = actor.revision]
       ELSE UNCHANGED <<status, seen, rev>>
    /\ actor' = Nil
    /\ UNCHANGED <<callVars, correlated, expiry, doubt, native,
                   endpointVars, runVars, ingress, commits>>

-----------------------------------------------------------------------------
CallStep(c) ==
    \/ Begin(c) \/ Lookup(c) \/ Insert(c) \/ RouteCall(c)
    \/ Enqueue(c) \/ ReserveFailed(c) \/ CancelSubmit(c) \/ Leave(c)
TimerStep(c) == DeadlinePasses(c) \/ DispatchExpires(c) \/ ConfirmationTimesOut(c)
WorkerStep(g) ==
    \/ Receive(g) \/ CheckDeadline(g) \/ BeginDispatch(g) \/ Arm(g)
    \/ NativeFailed(g) \/ NativeAccepted(g) \/ ReadBack(g) \/ Settle(g) \/ WorkerExit(g)
AdapterStep(k) == StartRun(k) \/ StopRun(k) \/ Observe(k) \/ MatchingCallback(k)

Next ==
    \/ \E c \in Calls : CallStep(c) \/ TimerStep(c)
    \/ \E g \in Gens : WorkerStep(g)
    \/ \E k \in EndpointKeys : AdapterStep(k)
    \/ Commit \/ RecordOutcome

\* The tokio scheduler polls every ready task and time passes.  Nothing makes a
\* client call or disconnect, an operator start or stop, or a provider answer:
\* native I/O ends because every provider client has its own timeout.
Fairness ==
    /\ \A c \in Calls :
          /\ WF_vars(Lookup(c)) /\ WF_vars(Insert(c)) /\ WF_vars(RouteCall(c))
          /\ WF_vars(Enqueue(c) \/ ReserveFailed(c))
          /\ WF_vars(DeadlinePasses(c))
          /\ WF_vars(DispatchExpires(c)) /\ WF_vars(ConfirmationTimesOut(c))
    /\ \A g \in Gens : WF_vars(WorkerStep(g))
    /\ WF_vars(Commit) /\ WF_vars(RecordOutcome)

Spec == Init /\ [][Next]_vars /\ Fairness
-----------------------------------------------------------------------------
(* Properties.                                                             *)

Submission == [adapter : Providers, instance : Zones \cup {Nil}, by : Calls \cup {Nil}]

CallsOK ==
    /\ req \in [Calls -> Request \cup {Nil}]
    /\ pc \in [Calls -> CallPhase]
    /\ ticket \in [Calls -> Calls \cup {Nil}]
    /\ routed \in [Calls -> 0 .. MaxGen]
    /\ clock \in [Calls -> 0 .. 2]

LedgerOK ==
    /\ status \in [Calls -> CommandStatus] /\ seen \in [Calls -> CommandStatus]
    /\ rev \in [Calls -> Nat]
    /\ correlated \in [Correlations -> Calls \cup {Nil}]
    /\ expiry \subseteq Calls /\ doubt \subseteq Calls /\ native \subseteq Calls

EndpointsOK ==
    /\ slot \in [Keys -> 0 .. MaxGen]
    /\ nextGen \in 1 .. MaxGen + 1
    /\ keyOf \in [Gens -> EndpointKeys \cup {Nil}]
    /\ queue \in [Gens -> Seq(Calls)]
    /\ worker \in [Gens -> WorkerPhase]
    /\ hand \in [Gens -> Calls \cup {Nil}]
    /\ busy \subseteq Gens /\ cancelled \subseteq Gens
    /\ armed \in [Keys -> Calls \cup {Nil}]
    /\ running \subseteq EndpointKeys
    /\ owned \in [Keys -> 0 .. MaxGen]

ProjectionsOK ==
    /\ ingress \in Seq(Submission)
    /\ actor \in [sub : Submission, revision : Nat] \cup {Nil}
    /\ commits \in Seq(Calls \cup {Nil})

TypeOK == CallsOK /\ LedgerOK /\ EndpointsOK /\ ProjectionsOK

\* The phases of a worker that holds a work item with the native lease.
Leased == {"dispatched", "native", "reading", "committing", "observing"}

(* A timeout never becomes an unreported native attempt: once a caller can  *)
(* read NotDispatched, no worker has written or will write the command to   *)
(* the provider.  The dispatch-expiry task, the deadline gate, a full queue,*)
(* a dropped endpoint and a reconfiguration all race the worker's lease.    *)
NotDispatchedMeansUntouched ==
    \A c \in Calls : status[c] = "NotDispatched" =>
        c \notin native /\ \A g \in Gens : worker[g] \in Leased => hand[g] # c

(* A confirmation is always the confirmation of this command: its revision  *)
(* is a committed one, the commit names this very command, and the native   *)
(* attempt was made.  Commits of other commands and of unrelated            *)
(* observations interleave, and some are refused as stale.                  *)
ConfirmedByItsOwnCommit ==
    \A c \in Calls : status[c] = "Confirmed" =>
        rev[c] \in 1 .. Len(commits) /\ commits[rev[c]] = c /\ c \in native

(* At most one worker at a time does native I/O for a key: a new run of the *)
(* adapter cannot overtake the worker an earlier run has left behind.       *)
OneWriterPerKey ==
    \A g, h \in Gens :
        worker[g] \in Leased /\ worker[h] \in Leased /\ keyOf[g] = keyOf[h] => g = h

(* No status is a dead end before the deadline that ends it: a Queued       *)
(* command is with its submit call or has its expiry task, and a started    *)
(* one has its confirmation task.  Only a submit future that was dropped    *)
(* while it waited for a slot leaves a Queued record that nothing will move.*)
AlwaysAWayOut ==
    \A c \in Calls :
        /\ status[c] = "Queued" =>
              pc[c] \in {"route", "reserve", "cancelled"} \/ c \in expiry
        /\ status[c] \in {"Dispatched", "AwaitingProjection"} => c \in doubt

(* A retried request never rides on another request's operation: a ticket   *)
(* watches a command with the caller's own target and payload.              *)
TicketMatchesRequest ==
    \A c \in Calls : ticket[c] # Nil =>
        /\ req[ticket[c]] # Nil
        /\ req[ticket[c]].target = req[c].target /\ req[ticket[c]].command = req[c].command

(* For a provider confirmed by read-back a final status is for ever: its    *)
(* worker nominates a command only after it has given up the right to fail  *)
(* it.                                                                      *)
ReadBackFinalityHolds ==
    [][\A c \in Calls :
          /\ status[c] \in Final
          /\ SourceOf[req[c].target] \notin CallbackProviders
          => status'[c] = status[c] /\ rev'[c] = rev[c]]_vars

\* wait_for_observable_result of the ticket of c returns.
Answered(c) == ticket[c] # Nil /\ seen[ticket[c]] \in Final \cup {"Indeterminate"}

(* A caller that submitted the command itself and waits is answered.        *)
SubmittersAreAnswered ==
    \A c \in Calls : (pc[c] = "returned" /\ ticket[c] = c) ~> (pc[c] = "left" \/ Answered(c))

(* A ticket shows the authoritative status of its command: a caller that    *)
(* submitted the command does not lose a transition while it waits.         *)
SubmitterSeesStatus ==
    \A c \in Calls : ticket[c] = c /\ pc[c] \in {"route", "reserve", "returned"} =>
        seen[c] = status[c]

(* A correlation names one operation: two calls with the same correlation,  *)
(* target and payload never both reach the provider.                        *)
CorrelationExecutesOnce ==
    \A c, d \in native :
        /\ req[c].correlation # Nil /\ req[c].correlation = req[d].correlation
        /\ req[c].target = req[d].target /\ req[c].command = req[d].command
        => c = d

\* The ledger a caller sees through its ticket.
LifeOf(s) ==
    CASE s = "Absent" -> "none"
      [] s = "Queued" -> "pending"
      [] s = "NotDispatched" -> "refused"
      [] s \in {"Dispatched", "AwaitingProjection"} -> "started"
      [] s = "Indeterminate" -> "uncertain"
      [] s = "Confirmed" -> "confirmed"
      [] s = "Failed" -> "failed"

Ledger == INSTANCE CommandLedger WITH life <- [c \in Calls |-> LifeOf(status[c])], attempts <- native

(* The runtime implements the ledger it promises.                           *)
ImplementsLedger == Ledger!Spec

-----------------------------------------------------------------------------
(* The strengthening that makes the invariants above inductive.             *)

Attempted == {"Dispatched", "AwaitingProjection", "Indeterminate", "Confirmed", "Failed"}

RequestsMade ==
    \A c \in Calls :
        /\ IF pc[c] = "idle" THEN req[c] = Nil ELSE req[c] \in Request
        /\ pc[c] = "lookup" => req[c].correlation \in Correlations
        /\ pc[c] = "reserve" => routed[c] \in Gens

WorkersFormed ==
    \A g \in Gens :
        /\ worker[g] # "none" => keyOf[g] \in EndpointKeys
        /\ worker[g] \notin {"none", "idle", "gone"} => hand[g] \in Calls
        /\ g >= nextGen => worker[g] = "none"

WellFormed == RequestsMade /\ WorkersFormed

\* The native history is exactly the commands whose status admits an attempt,
\* and a worker in a leased phase holds one of them.
LeaseRecorded ==
    /\ \A c \in Calls :
          /\ c \in native <=> status[c] \in Attempted
          /\ pc[c] \in {"idle", "lookup", "insert"} => status[c] = "Absent"
    /\ \A g \in Gens : worker[g] \in Leased => hand[g] \in native

\* What the actor is about to record is what it committed.
ActorRecordsItsCommit ==
    actor # Nil /\ actor.revision # 0 =>
        /\ actor.revision \in 1 .. Len(commits)
        /\ commits[actor.revision] = actor.sub.by

\* An endpoint that has not been dropped is the registered one of its key.
LiveEndpointIsRegistered ==
    \A g \in Gens : Alive(g) => slot[keyOf[g]] = g

\* A correlation always leads to a call that has made its request.
CorrelationsHaveRequests ==
    \A k \in Correlations : correlated[k] # Nil => req[correlated[k]] \in Request

TicketsFormed ==
    /\ CorrelationsHaveRequests /\ TicketMatchesRequest
    /\ \A c \in Calls : pc[c] \in {"idle", "lookup", "insert"} => ticket[c] = Nil

\* A command that is not yet in the ledger, or whose own submitter watches it,
\* has its status in the channel.
Synced(c) ==
    \/ pc[c] \in {"idle", "lookup", "insert"}
    \/ ticket[c] = c /\ pc[c] \in {"route", "reserve", "returned"}

SeenInSync == \A c \in Calls : Synced(c) => seen[c] = status[c]

\* The invariants on callers' promises that are inductive relative to the rest.
Promises == TicketsFormed /\ SeenInSync /\ AlwaysAWayOut /\ ConfirmedByItsOwnCommit

Inductive ==
    /\ TypeOK /\ WellFormed /\ LeaseRecorded /\ ActorRecordsItsCommit
    /\ LiveEndpointIsRegistered /\ Promises
=============================================================================
