---------------------------- MODULE NaaRelay_proofs ----------------------------
(***************************************************************************)
(* Proofs about NaaRelay, for every set of routes and endpoints and every  *)
(* bound.                                                                  *)
(*                                                                         *)
(* The argument: every step that changes the selection, the selected       *)
(* route, the gate or the life of the accept loop takes the session away,  *)
(* and shuts its sockets.  So the session always is of the selected route  *)
(* as it stands (SessionFits), and a thread forwards only while the        *)
(* session is its own (ThreadsFit).                                        *)
(***************************************************************************)
EXTENDS NaaRelay, FiniteSetTheorems, TLAPS

(* A session is of the selected route, its accept loop lives, its thread   *)
(* is at work, and its evidence is its own.                                *)
SessionFits ==
    /\ session.id <= reserved
    /\ session.id # 0 =>
          /\ session.route = selected /\ selected # NoRoute
          /\ session.endpoint = routes[selected]
          /\ gate
          /\ loop # "none"
          /\ worker[session.id].phase \in {"connecting", "forwarding"}
          /\ worker[session.id].endpoint = session.endpoint
    /\ \A n \in session.shows : n[1] = session.id

(* Only the thread of the session forwards; threads are numbered as they   *)
(* are reserved.                                                           *)
ThreadsFit ==
    /\ \A i \in Ids : worker[i].phase = "forwarding" => session.id = i
    /\ \A i \in Ids : i > reserved => worker[i].phase = "none"

(* What is selected exists, and what could not be saved is a Stop.         *)
SelectionFits ==
    /\ selected # NoRoute => routes[selected] # Absent
    /\ disk.selected # NoRoute => disk.routes[disk.selected] # Absent
    /\ committed <= generation
    /\ disk.selected # selected =>
          selected = NoRoute /\ (committed = 0 \/ committed < generation)

(* TypeOK but for the range of the worker counter.                         *)
Typed ==
    /\ routes \in [Routes -> Endpoints \cup {Absent}]
    /\ selected \in Routes \cup {NoRoute}
    /\ disk \in [routes : [Routes -> Endpoints \cup {Absent}], selected : Routes \cup {NoRoute}]
    /\ generation \in Nat /\ committed \in Nat
    /\ gate \in BOOLEAN /\ stop \in BOOLEAN
    /\ error \in {"none", "hint", "session", "unsaved", "resume"}
    /\ session \in [id : Ids \cup {0}, route : Routes \cup {NoRoute},
                    endpoint : Endpoints \cup {Absent}, generation : Nat,
                    shows : SUBSET (Ids \X Milestones)]
    /\ reserved \in 0 .. MaxSessions
    /\ worker \in [Ids -> [phase : {"none", "connecting", "forwarding", "closed", "gone"},
                           endpoint : Endpoints \cup {Absent}]]
    /\ listener \in {"disabled", "bound", "failed"}
    /\ loop \in {"none", "top", "polling"}
    /\ owner \in {"idle", "starting", "joining", "draining"}
    /\ calls \in 0 .. MaxCalls
    /\ faults \in 0 .. MaxFaults

IInv == Typed /\ SessionFits /\ ThreadsFit /\ SelectionFits /\ WorkersCounted

LEMMA Constants ==
    /\ MaxSessions \in Nat /\ MaxWorkers \in Nat \ {0} /\ MaxCalls \in Nat /\ MaxFaults \in Nat
    /\ NoRoute \notin Routes /\ Absent \notin Endpoints
    /\ 0 \notin Ids
BY RelayAssumption DEF Ids

(* The unfinished threads are finitely many, and their number moves by one *)
(* as one begins or ends.                                                  *)
LEMMA UnfinishedFinite == IsFiniteSet(Unfinished) /\ Cardinality(Unfinished) \in Nat
<1>1. IsFiniteSet(Ids)
    BY FS_Interval, Constants DEF Ids
<1>2. Unfinished \subseteq Ids
    BY DEF Unfinished
<1> QED BY <1>1, <1>2, FS_Subset, FS_CardinalityType

(* What a disconnect leaves.                                               *)
LEMMA DisconnectTyped ==
    ASSUME Typed, ThreadsFit, Disconnect
    PROVE  /\ generation' \in Nat /\ generation' = generation + 1
           /\ session' = NoSession
           /\ session' \in [id : Ids \cup {0}, route : Routes \cup {NoRoute},
                            endpoint : Endpoints \cup {Absent}, generation : Nat,
                            shows : SUBSET (Ids \X Milestones)]
           /\ worker' \in [Ids -> [phase : {"none", "connecting", "forwarding", "closed", "gone"},
                                   endpoint : Endpoints \cup {Absent}]]
           /\ \A i \in Ids : worker'[i].phase # "forwarding"
           /\ \A i \in Ids : worker[i].phase = "none" => worker'[i].phase = "none"
           /\ Unfinished' = Unfinished
<1>1. NoSession \in [id : Ids \cup {0}, route : Routes \cup {NoRoute},
                     endpoint : Endpoints \cup {Absent}, generation : Nat,
                     shows : SUBSET (Ids \X Milestones)]
    BY DEF NoSession
<1> DEFINE Thread == [phase : {"none", "connecting", "forwarding", "closed", "gone"},
                      endpoint : Endpoints \cup {Absent}]
           Shut(i) == IF i = session.id /\ worker[i].phase = "forwarding"
                      THEN [worker[i] EXCEPT !.phase = "closed"] ELSE worker[i]
<1>2. worker' = [i \in Ids |-> Shut(i)]
    BY DEF Disconnect
<1>3. ASSUME NEW i \in Ids
      PROVE  /\ Shut(i) \in Thread
             /\ Shut(i).phase # "forwarding"
             /\ Shut(i).phase = "none" <=> worker[i].phase = "none"
             /\ Shut(i).phase \in {"connecting", "forwarding", "closed"}
                   <=> worker[i].phase \in {"connecting", "forwarding", "closed"}
  <2>1. worker[i] \in Thread
      BY <1>3 DEF Typed
  <2>2. CASE i = session.id /\ worker[i].phase = "forwarding"
      BY <2>1, <2>2
  <2>3. CASE ~(i = session.id /\ worker[i].phase = "forwarding")
      BY <2>1, <2>3, <1>3 DEF ThreadsFit
  <2> QED BY <2>2, <2>3
<1> HIDE DEF Shut
<1>4. \A i \in Ids : worker'[i] = Shut(i)
    BY <1>2
<1>5. worker' \in [Ids -> Thread]
    BY <1>2, <1>3
<1>6. Unfinished' = Unfinished
    BY <1>3, <1>4 DEF Unfinished
<1> QED BY <1>1, <1>3, <1>4, <1>5, <1>6 DEF Disconnect, Typed

(* A disconnect that reserves nothing keeps what concerns the session, the *)
(* threads and their number.                                               *)
LEMMA DisconnectKeeps ==
    ASSUME IInv, Disconnect, reserved' = reserved, workers' = workers
    PROVE  SessionFits' /\ ThreadsFit' /\ WorkersCounted'
<1>1. /\ session' = NoSession
      /\ \A i \in Ids : worker'[i].phase # "forwarding"
      /\ \A i \in Ids : worker[i].phase = "none" => worker'[i].phase = "none"
      /\ Unfinished' = Unfinished
    BY DisconnectTyped DEF IInv
<1>2. SessionFits'
    BY <1>1 DEF IInv, SessionFits, NoSession, Typed
<1>3. ThreadsFit'
    BY <1>1 DEF IInv, ThreadsFit
<1>4. WorkersCounted'
    BY <1>1 DEF IInv, WorkersCounted
<1> QED BY <1>2, <1>3, <1>4

(* A step that touches neither session nor threads nor what the session    *)
(* was made from.                                                          *)
LEMMA SessionKept ==
    ASSUME IInv, UNCHANGED <<session, reserved, workers, worker, selected>>,
           selected # NoRoute => routes'[selected] = routes[selected],
           session.id # 0 => gate' /\ loop' # "none"
    PROVE  SessionFits' /\ ThreadsFit' /\ WorkersCounted'
<1>1. SessionFits'
    BY DEF IInv, SessionFits
<1>2. ThreadsFit'
    BY DEF IInv, ThreadsFit
<1>3. WorkersCounted'
    BY DEF IInv, WorkersCounted, Unfinished
<1> QED BY <1>1, <1>2, <1>3

LEMMA AddRoutesKeeps ==
    ASSUME IInv, AddRoutes, calls' \in 0 .. MaxCalls
    PROVE  IInv'
<1>0. PICK new \in SUBSET {r \in Routes : routes[r] = Absent} : \E to \in [new -> Endpoints] :
          routes' = [r \in Routes |-> IF r \in new THEN to[r] ELSE routes[r]]
    BY DEF AddRoutes
<1>1. PICK to \in [new -> Endpoints] :
          routes' = [r \in Routes |-> IF r \in new THEN to[r] ELSE routes[r]]
    BY <1>0
<1>2. routes' \in [Routes -> Endpoints \cup {Absent}]
    BY <1>1 DEF IInv, Typed
<1>3. \A r \in Routes : routes[r] # Absent => routes'[r] = routes[r]
    BY <1>0, <1>1
<1>4. disk' = [routes |-> routes', selected |-> selected]
    BY DEF AddRoutes, Persist
<1>5. Typed'
    BY <1>2, <1>4 DEF IInv, Typed, AddRoutes, Connected, listenerVars
<1>6. selected # NoRoute => routes'[selected] = routes[selected]
    BY <1>3 DEF IInv, Typed, SelectionFits
<1>7. SessionFits' /\ ThreadsFit' /\ WorkersCounted'
    BY <1>6, SessionKept DEF AddRoutes, Connected, listenerVars, IInv, SessionFits
<1>8. SelectionFits'
    BY <1>4, <1>6 DEF IInv, SelectionFits, AddRoutes, Connected
<1> QED BY <1>5, <1>7, <1>8 DEF IInv

LEMMA UpdateRouteKeeps ==
    ASSUME IInv, NEW r \in Routes, UpdateRoute(r), calls' \in 0 .. MaxCalls
    PROVE  IInv'
<1>0. PICK e \in Endpoints : routes' = [routes EXCEPT ![r] = e]
    BY DEF UpdateRoute
<1>1. /\ routes' \in [Routes -> Endpoints \cup {Absent}]
      /\ \A q \in Routes : routes[q] # Absent => routes'[q] # Absent
      /\ \A q \in Routes : q # r => routes'[q] = routes[q]
    BY <1>0, Constants DEF IInv, Typed
<1>2. disk' = [routes |-> routes', selected |-> selected] /\ selected' = selected
    BY DEF UpdateRoute, Persist
<1>3. SelectionFits' /\ generation' \in Nat
    BY <1>1, <1>2 DEF IInv, Typed, SelectionFits, UpdateRoute, Disconnect, Connected
<1>4. CASE r = selected
  <2>1. Disconnect
      BY <1>4 DEF UpdateRoute
  <2>2. Typed'
      BY <1>1, <1>2, <1>4, <2>1, DisconnectTyped DEF IInv, Typed, UpdateRoute, listenerVars
  <2> QED BY <1>3, <2>1, <2>2, DisconnectKeeps DEF IInv, UpdateRoute
<1>5. CASE r # selected
  <2>1. UNCHANGED <<generation, session, worker, error>>
      BY <1>5 DEF UpdateRoute, Connected
  <2>2. Typed'
      BY <1>1, <1>2, <2>1 DEF IInv, Typed, UpdateRoute, listenerVars
  <2>3. SessionFits' /\ ThreadsFit' /\ WorkersCounted'
      BY <1>1, <1>2, <1>5, <2>1, SessionKept
      DEF UpdateRoute, listenerVars, IInv, SessionFits, Typed
  <2> QED BY <1>3, <2>2, <2>3 DEF IInv
<1> QED BY <1>4, <1>5

LEMMA RemoveRouteKeeps ==
    ASSUME IInv, NEW r \in Routes, RemoveRoute(r), calls' \in 0 .. MaxCalls
    PROVE  IInv'
<1>1. /\ routes' \in [Routes -> Endpoints \cup {Absent}]
      /\ \A q \in Routes : q # r => routes'[q] = routes[q]
    BY DEF IInv, Typed, RemoveRoute
<1>2. /\ selected' = IF r = selected THEN NoRoute ELSE selected
      /\ selected' \in Routes \cup {NoRoute}
      /\ disk' = [routes |-> routes', selected |-> selected']
    BY DEF RemoveRoute, Persist, IInv, Typed
<1>3. SelectionFits' /\ generation' \in Nat
    BY <1>1, <1>2 DEF IInv, Typed, SelectionFits, RemoveRoute, Disconnect, Connected
<1>4. CASE r = selected
  <2>1. Disconnect
      BY <1>4 DEF RemoveRoute
  <2>2. Typed'
      BY <1>1, <1>2, <1>4, <2>1, DisconnectTyped DEF IInv, Typed, RemoveRoute, listenerVars
  <2> QED BY <1>3, <2>1, <2>2, DisconnectKeeps DEF IInv, RemoveRoute
<1>5. CASE r # selected
  <2>1. UNCHANGED <<generation, session, worker, error>>
      BY <1>5 DEF RemoveRoute, Connected
  <2>2. Typed'
      BY <1>1, <1>2, <2>1 DEF IInv, Typed, RemoveRoute, listenerVars
  <2>3. SessionFits' /\ ThreadsFit' /\ WorkersCounted'
      BY <1>1, <1>2, <1>5, <2>1, SessionKept
      DEF RemoveRoute, listenerVars, IInv, SessionFits, Typed
  <2> QED BY <1>3, <2>2, <2>3 DEF IInv
<1> QED BY <1>4, <1>5

LEMMA CommitSelectionKeeps ==
    ASSUME IInv, NEW r \in Routes, CommitSelection(r), calls' \in 0 .. MaxCalls
    PROVE  IInv'
<1>1. Disconnect /\ disk' = [routes |-> routes, selected |-> r]
    BY DEF CommitSelection, Persist
<1>2. Typed'
    BY <1>1, DisconnectTyped DEF IInv, Typed, CommitSelection, listenerVars
<1>3. SelectionFits'
    BY <1>1, <1>2 DEF IInv, Typed, SelectionFits, CommitSelection
<1> QED BY <1>1, <1>2, <1>3, DisconnectKeeps DEF IInv, CommitSelection

LEMMA ClearSelectionKeeps ==
    ASSUME IInv, ClearSelection, calls' \in 0 .. MaxCalls
    PROVE  IInv'
<1>1. Disconnect /\ generation' = generation + 1 /\ selected' = NoRoute /\ routes' = routes
    BY DEF ClearSelection, Disconnect
<1>2. disk' = [routes |-> routes, selected |-> NoRoute] \/ disk' = disk
    BY DEF ClearSelection, Persist
<1>3. Typed'
    BY <1>1, <1>2, DisconnectTyped DEF IInv, Typed, ClearSelection, listenerVars
<1>4. SelectionFits'
    BY <1>1, <1>2 DEF IInv, Typed, SelectionFits, ClearSelection
<1> QED BY <1>1, <1>3, <1>4, DisconnectKeeps DEF IInv, ClearSelection

(* The remaining calls of the owner.                                       *)
LEMMA DisableRoutingKeeps ==
    ASSUME IInv, committed # 0, DisableRouting(committed), calls' \in 0 .. MaxCalls
    PROVE  IInv'
<1>1. Disconnect /\ generation' = generation + 1 /\ committed = generation
    BY DEF DisableRouting, Disconnect
<1>2. Typed'
    BY <1>1, DisconnectTyped DEF IInv, Typed, DisableRouting, listenerVars, routeVars
<1>3. SelectionFits'
    BY <1>1 DEF IInv, Typed, SelectionFits, DisableRouting, routeVars
<1> QED BY <1>1, <1>2, <1>3, DisconnectKeeps DEF IInv, DisableRouting

LEMMA ListenerCallsKeep ==
    ASSUME IInv, BumpGeneration \/ StartListener \/ StopListener, calls' \in 0 .. MaxCalls
    PROVE  IInv'
<1>1. CASE BumpGeneration
  <2>1. Typed'
      BY <1>1 DEF IInv, Typed, BumpGeneration, routeVars, sessionVars, listenerVars
  <2>2. SelectionFits'
      BY <1>1 DEF IInv, Typed, SelectionFits, BumpGeneration, routeVars
  <2> QED BY <1>1, <2>1, <2>2, SessionKept
        DEF IInv, SessionFits, BumpGeneration, routeVars, sessionVars, listenerVars
<1>2. CASE StartListener
  <2>1. Typed'
    <3>1. /\ loop' \in {"none", "top", "polling"} /\ stop' \in BOOLEAN
          /\ owner' \in {"idle", "starting", "joining", "draining"}
          /\ listener' \in {"disabled", "bound", "failed"}
        BY <1>2 DEF IInv, Typed, StartListener
    <3>2. UNCHANGED <<routeVars, generation, gate, error, sessionVars, committed, faults>>
        BY <1>2 DEF StartListener
    <3> QED BY <3>1, <3>2 DEF IInv, Typed, routeVars, sessionVars
  <2>2. SelectionFits'
      BY <1>2 DEF IInv, SelectionFits, StartListener, routeVars
  <2> QED BY <1>2, <2>1, <2>2, SessionKept
        DEF IInv, SessionFits, StartListener, routeVars, sessionVars
<1>3. CASE StopListener
  <2>1. Disconnect /\ generation' = generation + 1
      BY <1>3 DEF StopListener, Disconnect
  <2>2. Typed'
      BY <1>3, <2>1, DisconnectTyped DEF IInv, Typed, StopListener, routeVars
  <2>3. SelectionFits'
      BY <1>3, <2>1 DEF IInv, Typed, SelectionFits, StopListener, routeVars
  <2> QED BY <1>3, <2>1, <2>2, <2>3, DisconnectKeeps DEF IInv, StopListener
<1> QED BY <1>1, <1>2, <1>3

(* The listener.  Bound opens the gate: it can only have been closed with  *)
(* the session.                                                            *)
LEMMA ListenerStepsKeep ==
    ASSUME IInv, Bound \/ Joined \/ Drained \/ Poll \/ NoClient \/ LoopEnds \/ Refuse,
           UNCHANGED calls
    PROVE  IInv'
<1>1. CASE Joined \/ LoopEnds
  <2>1. Disconnect /\ generation' = generation + 1
      BY <1>1 DEF Joined, LoopEnds, Disconnect
  <2>2. Typed'
    <3>1. faults' \in 0 .. MaxFaults
        BY <1>1, Constants DEF IInv, Typed, Joined, LoopEnds
    <3> QED BY <1>1, <2>1, <3>1, DisconnectTyped DEF IInv, Typed, Joined, LoopEnds, routeVars
  <2>3. SelectionFits'
      BY <1>1, <2>1 DEF IInv, Typed, SelectionFits, Joined, LoopEnds, routeVars
  <2>4. reserved' = reserved /\ workers' = workers
      BY <1>1 DEF Joined, LoopEnds
  <2> QED BY <2>1, <2>2, <2>3, <2>4, DisconnectKeeps DEF IInv
<1>2. CASE Bound \/ Drained \/ Poll \/ NoClient \/ Refuse
  <2>1. Typed'
    <3>1. CASE Bound
        BY <1>2, <3>1 DEF IInv, Typed, Bound, routeVars, sessionVars, listenerVars
    <3>2. CASE Drained
        BY <1>2, <3>2 DEF IInv, Typed, Drained, routeVars, sessionVars, listenerVars
    <3>3. CASE Poll \/ NoClient
        BY <1>2, <3>3 DEF IInv, Typed, Poll, NoClient, routeVars, sessionVars, listenerVars
    <3>4. CASE Refuse
        BY <1>2, <3>4 DEF IInv, Typed, Refuse, routeVars, sessionVars, listenerVars
    <3> QED BY <1>2, <3>1, <3>2, <3>3, <3>4
  <2>2. UNCHANGED <<routeVars, sessionVars, generation, committed>>
      BY <1>2 DEF Bound, Drained, Poll, NoClient, Refuse
  <2>3. SelectionFits'
      BY <2>2 DEF IInv, SelectionFits, routeVars
  <2>4. session.id # 0 => gate' /\ loop' # "none"
      BY <1>2 DEF IInv, SessionFits, Bound, Drained, Poll, NoClient, Refuse
  <2> QED BY <2>1, <2>2, <2>3, <2>4, SessionKept DEF IInv, routeVars, sessionVars
<1> QED BY <1>1, <1>2

LEMMA ReserveKeeps ==
    ASSUME IInv, Reserve, UNCHANGED calls
    PROVE  IInv'
<1> DEFINE n == reserved + 1
<1>0. n \in Ids /\ reserved' = n /\ reserved \in Nat
    BY Constants DEF IInv, Typed, Reserve, Ids
<1>1. worker[n].phase = "none" /\ n # 0
    BY <1>0, Constants DEF IInv, ThreadsFit
<1>2. session' = [id |-> n, route |-> selected, endpoint |-> routes[selected],
                  generation |-> generation, shows |-> {}]
    BY DEF Reserve
<1>3. worker' = [worker EXCEPT ![n] = [phase |-> "connecting", endpoint |-> routes[selected]]]
    BY DEF Reserve
<1>4. selected \in Routes /\ selected # NoRoute /\ gate /\ loop' = "top"
    BY DEF IInv, Typed, Reserve
<1>5. routes[selected] \in Endpoints \cup {Absent}
    BY <1>4 DEF IInv, Typed
<1> HIDE DEF n
<1>6. Typed'
  <2>1. session' \in [id : Ids \cup {0}, route : Routes \cup {NoRoute},
                      endpoint : Endpoints \cup {Absent}, generation : Nat,
                      shows : SUBSET (Ids \X Milestones)]
      BY <1>0, <1>2, <1>4, <1>5 DEF IInv, Typed
  <2>2. worker' \in [Ids -> [phase : {"none", "connecting", "forwarding", "closed", "gone"},
                             endpoint : Endpoints \cup {Absent}]]
    <3>1. [phase |-> "connecting", endpoint |-> routes[selected]]
              \in [phase : {"none", "connecting", "forwarding", "closed", "gone"},
                   endpoint : Endpoints \cup {Absent}]
      <4> DEFINE e == routes[selected]
      <4>1. e \in Endpoints \cup {Absent}
          BY <1>5
      <4> HIDE DEF e
      <4>2. [phase |-> "connecting", endpoint |-> e]
                \in [phase : {"none", "connecting", "forwarding", "closed", "gone"},
                     endpoint : Endpoints \cup {Absent}]
          BY <4>1
      <4> QED BY <4>2 DEF e
    <3>2. worker \in [Ids -> [phase : {"none", "connecting", "forwarding", "closed", "gone"},
                              endpoint : Endpoints \cup {Absent}]]
        BY DEF IInv, Typed
    <3> QED BY <1>0, <1>3, <3>1, <3>2
  <2>3. reserved' \in 0 .. MaxSessions
      BY <1>0, Constants DEF Ids
  <2>4. /\ UNCHANGED <<routes, selected, disk, generation, gate, listener, stop, owner,
                       committed, faults, calls>>
        /\ error' = "none" /\ loop' = "top"
    <3>1. UNCHANGED <<routeVars, generation, gate, listener, stop, owner, committed, faults>>
        BY DEF Reserve
    <3>2. error' = "none" /\ loop' = "top"
        BY DEF Reserve
    <3> QED BY <3>1, <3>2 DEF routeVars
  <2>5. Typed
      BY DEF IInv
  <2> QED BY <2>1, <2>2, <2>3, <2>4, <2>5 DEF Typed
<1>7. worker'[n] = [phase |-> "connecting", endpoint |-> routes[selected]]
    BY <1>0, <1>3 DEF IInv, Typed
<1>8. \A i \in Ids : i # n => worker'[i] = worker[i]
    BY <1>3 DEF IInv, Typed
<1>9. SessionFits'
  <2>1. /\ session'.id = n /\ session'.route = selected /\ session'.endpoint = routes[selected]
        /\ session'.shows = {}
      BY <1>2
  <2>2. worker'[n].phase = "connecting" /\ worker'[n].endpoint = routes[selected]
      BY <1>7
  <2>3. UNCHANGED <<routes, selected, gate>>
      BY DEF Reserve, routeVars
  <2> QED BY <1>0, <1>4, <2>1, <2>2, <2>3 DEF SessionFits, Ids
<1>10. ThreadsFit'
  <2>1. ASSUME NEW i \in Ids, worker'[i].phase = "forwarding"
        PROVE  FALSE
      BY <2>1, <1>7, <1>8, Constants DEF IInv, ThreadsFit, Reserve
  <2>2. ASSUME NEW i \in Ids, i > n
        PROVE  worker'[i].phase = "none"
      BY <2>2, <1>0, <1>8 DEF IInv, ThreadsFit, Ids, n
  <2> QED BY <1>0, <2>1, <2>2 DEF ThreadsFit
<1>11. SelectionFits'
    BY DEF IInv, SelectionFits, Reserve, routeVars
<1>12. WorkersCounted'
  <2>1. n \notin Unfinished /\ Unfinished' = Unfinished \cup {n}
      BY <1>0, <1>1, <1>7, <1>8 DEF Unfinished
  <2>2. Cardinality(Unfinished') = Cardinality(Unfinished) + 1
      BY <2>1, UnfinishedFinite, FS_AddElement
  <2> QED BY <2>2, UnfinishedFinite, Constants DEF IInv, WorkersCounted, Reserve
<1> QED BY <1>6, <1>9, <1>10, <1>11, <1>12 DEF IInv

(* What a thread does to its own entry.                                    *)
LEMMA PhaseTyped ==
    ASSUME Typed, NEW i \in Ids,
           NEW p \in {"none", "connecting", "forwarding", "closed", "gone"},
           worker' = [worker EXCEPT ![i].phase = p]
    PROVE  /\ worker' \in [Ids -> [phase : {"none", "connecting", "forwarding", "closed", "gone"},
                                   endpoint : Endpoints \cup {Absent}]]
           /\ worker'[i].phase = p /\ worker'[i].endpoint = worker[i].endpoint
           /\ \A j \in Ids : j # i => worker'[j] = worker[j]
<1>1. worker[i] \in [phase : {"none", "connecting", "forwarding", "closed", "gone"},
                     endpoint : Endpoints \cup {Absent}]
    BY DEF Typed
<1>2. worker' = [worker EXCEPT ![i] = [worker[i] EXCEPT !.phase = p]]
    OBVIOUS
<1>3. [worker[i] EXCEPT !.phase = p] = [phase |-> p, endpoint |-> worker[i].endpoint]
    BY <1>1
<1>4. worker' = [worker EXCEPT ![i] = [phase |-> p, endpoint |-> worker[i].endpoint]]
    BY <1>2, <1>3
<1> QED BY <1>1, <1>4 DEF Typed

LEMMA AttachKeeps ==
    ASSUME IInv, NEW i \in Ids, Attach(i), UNCHANGED calls
    PROVE  IInv'
<1>1. /\ worker[i].phase = "connecting" /\ session.id = i
      /\ worker' = [worker EXCEPT ![i].phase = "forwarding"]
      /\ UNCHANGED <<routeVars, generation, gate, error, session, reserved, workers,
                     listenerVars, committed, faults>>
    BY DEF Attach
<1>2. /\ worker'[i].phase = "forwarding" /\ worker'[i].endpoint = worker[i].endpoint
      /\ \A j \in Ids : j # i => worker'[j] = worker[j]
    BY <1>1, PhaseTyped DEF IInv
<1>3. Typed'
    BY <1>1, PhaseTyped DEF IInv, Typed, routeVars, listenerVars
<1>4. SessionFits'
    BY <1>1, <1>2 DEF IInv, SessionFits, routeVars, listenerVars
<1>5. ThreadsFit'
  <2>1. i <= reserved /\ \A j \in Ids : j > reserved => j # i
      BY <1>1 DEF IInv, SessionFits, Typed, Ids
  <2> QED BY <1>1, <1>2, <2>1 DEF IInv, ThreadsFit
<1>6. SelectionFits'
    BY <1>1 DEF IInv, SelectionFits, routeVars
<1>7. WorkersCounted'
  <2>1. Unfinished' = Unfinished
      BY <1>1, <1>2 DEF Unfinished
  <2> QED BY <1>1, <2>1 DEF IInv, WorkersCounted
<1> QED BY <1>3, <1>4, <1>5, <1>6, <1>7 DEF IInv

LEMMA MilestoneKeeps ==
    ASSUME IInv, NEW i \in Ids,
           NEW m \in Milestones \cup {"initializing", "starting", "stopped"},
           Milestone(i, m), UNCHANGED calls
    PROVE  IInv'
<1> DEFINE after == After(session.shows, i, m)
<1>1. /\ session.id = i
      /\ session' = [session EXCEPT !.shows = after]
      /\ UNCHANGED <<routeVars, generation, gate, error, reserved, workers, worker,
                     listenerVars, committed, faults>>
    BY DEF Milestone
<1>2. after \subseteq session.shows \cup ({i} \X Milestones)
  <2>1. CASE m = "initializing"
      BY <2>1 DEF After
  <2>2. CASE m \in {"starting", "stopped"}
      BY <2>2 DEF After
  <2>3. CASE m \in Milestones
    <3>1. after = session.shows \cup {<<i, m>>}
        BY <2>3 DEF After, Milestones
    <3> QED BY <2>3, <3>1
  <2> QED BY <2>1, <2>2, <2>3
<1> HIDE DEF after
<1>3. /\ after \in SUBSET (Ids \X Milestones)
      /\ \A n \in after : n[1] = i
    BY <1>1, <1>2 DEF IInv, Typed, SessionFits
<1>4. /\ session' \in [id : Ids \cup {0}, route : Routes \cup {NoRoute},
                       endpoint : Endpoints \cup {Absent}, generation : Nat,
                       shows : SUBSET (Ids \X Milestones)]
      /\ session'.id = session.id /\ session'.route = session.route
      /\ session'.endpoint = session.endpoint /\ session'.shows = after
    BY <1>1, <1>3 DEF IInv, Typed
<1>5. Typed'
    BY <1>1, <1>4 DEF IInv, Typed, routeVars, listenerVars
<1>6. SessionFits'
    BY <1>1, <1>3, <1>4 DEF IInv, SessionFits, routeVars, listenerVars
<1>7. ThreadsFit' /\ SelectionFits' /\ WorkersCounted'
    BY <1>1, <1>4 DEF IInv, ThreadsFit, SelectionFits, WorkersCounted, Unfinished, routeVars
<1> QED BY <1>5, <1>6, <1>7 DEF IInv

LEMMA FinishKeeps ==
    ASSUME IInv, NEW i \in Ids, Finish(i), UNCHANGED calls
    PROVE  IInv'
<1>1. /\ i \in Unfinished
      /\ worker' = [worker EXCEPT ![i].phase = "gone"]
      /\ workers' = workers - 1
      /\ UNCHANGED <<routeVars, generation, gate, reserved, listenerVars, committed, faults>>
    BY DEF Finish
<1>2. /\ worker'[i].phase = "gone"
      /\ \A j \in Ids : j # i => worker'[j] = worker[j]
    BY <1>1, PhaseTyped DEF IInv
<1>3. \/ session.id = i /\ session' = NoSession /\ error' \in {"none", "session"}
      \/ session.id # i /\ session' = session /\ error' = error
    BY DEF Finish
<1>4. NoSession \in [id : Ids \cup {0}, route : Routes \cup {NoRoute},
                     endpoint : Endpoints \cup {Absent}, generation : Nat,
                     shows : SUBSET (Ids \X Milestones)]
    BY DEF NoSession
<1>5. Typed'
    BY <1>1, <1>3, <1>4, PhaseTyped DEF IInv, Typed, routeVars, listenerVars
<1>6. SessionFits'
  <2>1. CASE session.id = i
      BY <1>1, <1>3, <2>1 DEF IInv, SessionFits, NoSession, Typed, Ids
  <2>2. CASE session.id # i
    <3>1. session.id # 0 => worker'[session.id] = worker[session.id]
        BY <1>2, <2>2 DEF IInv, Typed
    <3> QED BY <1>1, <1>3, <2>2, <3>1 DEF IInv, SessionFits, routeVars, listenerVars
  <2> QED BY <2>1, <2>2
<1>7. ThreadsFit'
  <2>1. ASSUME NEW j \in Ids, worker'[j].phase = "forwarding"
        PROVE  session'.id = j
      BY <2>1, <1>2, <1>3 DEF IInv, ThreadsFit
  <2>2. ASSUME NEW j \in Ids, j > reserved
        PROVE  j # i /\ worker'[j].phase = "none"
      BY <2>2, <1>1, <1>2 DEF IInv, ThreadsFit, Unfinished
  <2> QED BY <1>1, <2>1, <2>2 DEF ThreadsFit
<1>8. SelectionFits'
    BY <1>1 DEF IInv, SelectionFits, routeVars
<1>9. WorkersCounted'
  <2>1. Unfinished' = Unfinished \ {i}
      BY <1>2 DEF Unfinished
  <2>2. Cardinality(Unfinished') = Cardinality(Unfinished) - 1
      BY <1>1, <2>1, UnfinishedFinite, FS_RemoveElement
  <2> QED BY <1>1, <2>2, UnfinishedFinite, Constants DEF IInv, WorkersCounted
<1> QED BY <1>5, <1>6, <1>7, <1>8, <1>9 DEF IInv

(* A restart, and the start.                                               *)
LEMMA NoThreads ==
    ASSUME worker = [i \in Ids |-> NoWorker], workers = 0
    PROVE  WorkersCounted
<1>1. \A i \in Ids : worker[i].phase = "none"
    BY DEF NoWorker
<1>2. Unfinished = {}
    BY <1>1 DEF Unfinished
<1>3. Cardinality({}) = 0
    BY FS_EmptySet
<1> QED BY <1>2, <1>3, Constants DEF WorkersCounted

LEMMA Starts ==
    ASSUME RelayInit,
           routes \in [Routes -> Endpoints \cup {Absent}], selected \in Routes \cup {NoRoute},
           disk = [routes |-> routes, selected |-> selected],
           selected # NoRoute => routes[selected] # Absent,
           calls \in 0 .. MaxCalls, faults \in 0 .. MaxFaults
    PROVE  IInv
<1>1. worker = [i \in Ids |-> NoWorker] /\ session = NoSession
    BY DEF RelayInit
<1>2. NoWorker \in [phase : {"none", "connecting", "forwarding", "closed", "gone"},
                    endpoint : Endpoints \cup {Absent}]
    BY DEF NoWorker
<1>3. NoSession \in [id : Ids \cup {0}, route : Routes \cup {NoRoute},
                     endpoint : Endpoints \cup {Absent}, generation : Nat,
                     shows : SUBSET (Ids \X Milestones)]
    BY DEF NoSession
<1>w. worker \in [Ids -> [phase : {"none", "connecting", "forwarding", "closed", "gone"},
                         endpoint : Endpoints \cup {Absent}]]
    BY <1>1, <1>2
<1>d. disk \in [routes : [Routes -> Endpoints \cup {Absent}], selected : Routes \cup {NoRoute}]
    OBVIOUS
<1>r. /\ generation = 0 /\ gate = TRUE /\ error = "none" /\ reserved = 0
      /\ listener = "disabled" /\ loop = "none" /\ stop = FALSE /\ owner = "idle"
      /\ committed = 0
    BY DEF RelayInit
<1>s. session \in [id : Ids \cup {0}, route : Routes \cup {NoRoute},
                   endpoint : Endpoints \cup {Absent}, generation : Nat,
                   shows : SUBSET (Ids \X Milestones)]
    BY <1>1, <1>3
<1>n. generation \in Nat /\ committed \in Nat /\ reserved \in 0 .. MaxSessions
    BY <1>r, Constants
<1>4. Typed
    BY <1>w, <1>d, <1>r, <1>s, <1>n DEF Typed
<1>5. SessionFits /\ ThreadsFit
    BY <1>1 DEF SessionFits, ThreadsFit, NoSession, NoWorker, RelayInit
<1>6. SelectionFits
    BY DEF SelectionFits, RelayInit
<1> QED BY <1>1, <1>4, <1>5, <1>6, NoThreads DEF IInv, RelayInit

LEMMA CrashKeeps ==
    ASSUME IInv, Crash, UNCHANGED calls
    PROVE  IInv'
<1>1. /\ worker' = [i \in Ids |-> NoWorker] /\ workers' = 0
      /\ session' = NoSession /\ reserved' = 0
      /\ generation' = 0 /\ committed' = 0
      /\ routes' = disk.routes /\ selected' = disk.selected /\ disk' = disk
    BY DEF Crash
<1>2. NoWorker \in [phase : {"none", "connecting", "forwarding", "closed", "gone"},
                    endpoint : Endpoints \cup {Absent}]
    BY DEF NoWorker
<1>3. NoSession \in [id : Ids \cup {0}, route : Routes \cup {NoRoute},
                     endpoint : Endpoints \cup {Absent}, generation : Nat,
                     shows : SUBSET (Ids \X Milestones)]
    BY DEF NoSession
<1>4. faults' \in 0 .. MaxFaults
    BY Constants DEF IInv, Typed, Crash
<1>w. worker' \in [Ids -> [phase : {"none", "connecting", "forwarding", "closed", "gone"},
                          endpoint : Endpoints \cup {Absent}]]
    BY <1>1, <1>2
<1>r. /\ gate' = TRUE /\ error' = "none"
      /\ listener' = "disabled" /\ loop' = "none" /\ stop' = FALSE /\ owner' = "idle"
    BY DEF Crash
<1>d. /\ disk \in [routes : [Routes -> Endpoints \cup {Absent}], selected : Routes \cup {NoRoute}]
      /\ calls' \in 0 .. MaxCalls
    BY DEF IInv, Typed
<1>s. session' \in [id : Ids \cup {0}, route : Routes \cup {NoRoute},
                    endpoint : Endpoints \cup {Absent}, generation : Nat,
                    shows : SUBSET (Ids \X Milestones)]
    BY <1>1, <1>3
<1>n. generation' \in Nat /\ committed' \in Nat /\ reserved' \in 0 .. MaxSessions
    BY <1>1, Constants
<1>5. Typed'
    BY <1>1, <1>w, <1>r, <1>d, <1>s, <1>n, <1>4 DEF Typed
<1>6. SessionFits' /\ ThreadsFit'
    BY <1>1 DEF SessionFits, ThreadsFit, NoSession, NoWorker
<1>7. SelectionFits'
    BY <1>1 DEF IInv, SelectionFits
<1>8. WorkersCounted'
  <2>1. Unfinished' = {}
      BY <1>1 DEF Unfinished, NoWorker
  <2> QED BY <1>1, <2>1, FS_EmptySet, Constants DEF WorkersCounted
<1> QED BY <1>5, <1>6, <1>7, <1>8 DEF IInv
-----------------------------------------------------------------------------
LEMMA InitInv == Init => IInv
<1> SUFFICES ASSUME Init PROVE IInv
    OBVIOUS
<1>1. /\ routes \in [Routes -> Endpoints \cup {Absent}] /\ selected \in Routes \cup {NoRoute}
      /\ selected # NoRoute => routes[selected] # Absent
      /\ disk = [routes |-> routes, selected |-> selected]
      /\ calls \in 0 .. MaxCalls /\ faults \in 0 .. MaxFaults
    BY Constants DEF Init
<1> QED BY <1>1, Starts DEF Init

LEMMA StepInv == IInv /\ [Next]_vars => IInv'
<1> SUFFICES ASSUME IInv, [Next]_vars PROVE IInv'
    OBVIOUS
<1>1. CASE calls < MaxCalls /\ calls' = calls + 1 /\ OwnerCall
  <2>0. calls' \in 0 .. MaxCalls
      BY <1>1, Constants DEF IInv, Typed
  <2>1. CASE AddRoutes
      BY <2>0, <2>1, AddRoutesKeeps
  <2>2. CASE ClearSelection
      BY <2>0, <2>2, ClearSelectionKeeps
  <2>3. CASE BumpGeneration \/ StartListener \/ StopListener
      BY <2>0, <2>3, ListenerCallsKeep
  <2>4. CASE committed # 0 /\ DisableRouting(committed)
      BY <2>0, <2>4, DisableRoutingKeeps
  <2>5. ASSUME NEW r \in Routes, UpdateRoute(r) \/ RemoveRoute(r) \/ CommitSelection(r)
        PROVE  IInv'
      BY <2>0, <2>5, UpdateRouteKeeps, RemoveRouteKeeps, CommitSelectionKeeps
  <2> QED BY <1>1, <2>1, <2>2, <2>3, <2>4, <2>5 DEF OwnerCall
<1>2. CASE Step /\ UNCHANGED calls
  <2>1. CASE Listening
      BY <1>2, <2>1, ListenerStepsKeep, ReserveKeeps DEF Listening
  <2>2. ASSUME NEW i \in Ids, Serve(i)
        PROVE  IInv'
      BY <1>2, <2>2, AttachKeeps, MilestoneKeeps, FinishKeeps DEF Serve
  <2>3. CASE Crash
      BY <1>2, <2>3, CrashKeeps
  <2> QED BY <1>2, <2>1, <2>2, <2>3 DEF Step
<1>3. CASE UNCHANGED vars
  <2>1. UNCHANGED <<routes, selected, disk, generation, gate, error, session, reserved,
                    workers, worker, listener, loop, stop, owner, committed, calls, faults>>
      BY <1>3 DEF vars, relayVars, routeVars, sessionVars, listenerVars
  <2> QED BY <2>1 DEF IInv, Typed, SessionFits, ThreadsFit, SelectionFits, WorkersCounted,
                      Unfinished
<1> QED BY <1>1, <1>2, <1>3 DEF Next

THEOREM InvariantHolds == Spec => []IInv
BY InitInv, StepInv, PTL DEF Spec

(* Every variable stays within its type, the worker counter within its     *)
(* limit.                                                                  *)
THEOREM TypeCorrect == Spec => []TypeOK
<1>1. IInv => TypeOK
  <2> SUFFICES ASSUME IInv PROVE TypeOK
      OBVIOUS
  <2>1. workers \in 0 .. MaxWorkers
      BY UnfinishedFinite, Constants DEF IInv, WorkersCounted
  <2> QED BY <2>1 DEF IInv, Typed, TypeOK
<1> QED BY <1>1, InvariantHolds, PTL

(* Audio reaches no endpoint but the one of the selected route, as the     *)
(* route now stands, and none behind a closed gate.                        *)
THEOREM ForwardingIsSelected == Spec => []ForwardsToTheSelection
<1>1. IInv => ForwardsToTheSelection
  <2> SUFFICES ASSUME IInv, NEW i \in Ids, worker[i].phase = "forwarding"
               PROVE  /\ session.id = i /\ i # 0
                      /\ selected = session.route /\ selected # NoRoute
                      /\ worker[i].endpoint = routes[selected]
                      /\ gate
      BY DEF ForwardsToTheSelection
  <2> QED BY Constants DEF IInv, ThreadsFit, SessionFits
<1> QED BY <1>1, InvariantHolds, PTL

(* No session outlives the loop that accepted it.                          *)
THEOREM SessionNeedsLoop == Spec => []NoSessionBehindADeadLoop
<1>1. IInv => NoSessionBehindADeadLoop
    BY DEF IInv, SessionFits, NoSessionBehindADeadLoop
<1> QED BY <1>1, InvariantHolds, PTL

(* The worker counter is the number of unfinished threads.                 *)
THEOREM CounterExact == Spec => []WorkersCounted
<1>1. IInv => WorkersCounted
    BY DEF IInv
<1> QED BY <1>1, InvariantHolds, PTL

(* A session shows nothing that a superseded thread has reported.          *)
THEOREM EvidenceOwn == Spec => []EvidenceIsItsOwn
<1>1. IInv => EvidenceIsItsOwn
    BY DEF IInv, SessionFits, EvidenceIsItsOwn
<1> QED BY <1>1, InvariantHolds, PTL
-----------------------------------------------------------------------------
(* A Stop that could not be saved is shown until it is, or until the       *)
(* listener is started again: no thread and no refusal of a client covers  *)
(* the error, because without a selection there is no session to end.      *)
UnsavedStep ==
    disk.selected # selected /\ error = "unsaved" /\ error' # "unsaved"
        => disk'.selected = selected' \/ owner = "starting"

LEMMA UnsavedCalls ==
    ASSUME IInv, OwnerCall
    PROVE  UnsavedStep
<1> SUFFICES ASSUME disk.selected # selected, error = "unsaved", error' # "unsaved"
             PROVE  disk'.selected = selected' \/ owner = "starting"
    BY DEF UnsavedStep
<1>1. selected = NoRoute /\ (committed = 0 \/ committed < generation)
    BY DEF IInv, SelectionFits
<1>2. CASE AddRoutes \/ BumpGeneration \/ StartListener \/ StopListener
    BY <1>2 DEF AddRoutes, BumpGeneration, StartListener, StopListener, Connected
<1>3. CASE ClearSelection
    BY <1>3 DEF ClearSelection, Persist
<1>4. CASE committed # 0 /\ DisableRouting(committed)
    BY <1>1, <1>4 DEF DisableRouting, IInv, Typed
<1>5. ASSUME NEW r \in Routes, UpdateRoute(r) \/ RemoveRoute(r) \/ CommitSelection(r)
      PROVE  disk'.selected = selected'
    BY <1>5 DEF UpdateRoute, RemoveRoute, CommitSelection, Persist
<1> QED BY <1>2, <1>3, <1>4, <1>5 DEF OwnerCall

LEMMA UnsavedThreads ==
    ASSUME IInv, Step
    PROVE  UnsavedStep
<1> SUFFICES ASSUME disk.selected # selected, error = "unsaved", error' # "unsaved"
             PROVE  disk'.selected = selected' \/ owner = "starting"
    BY DEF UnsavedStep
<1>1. session.id = 0 /\ selected = NoRoute
    BY DEF IInv, SelectionFits, SessionFits
<1>2. CASE Listening
    BY <1>1, <1>2 DEF Listening, Bound, Joined, Drained, Poll, NoClient, LoopEnds, Refuse, Reserve
<1>3. ASSUME NEW i \in Ids, Serve(i)
      PROVE  FALSE
    BY <1>1, <1>3, Constants DEF Serve, Attach, Milestone, Finish
<1>4. CASE Crash
    BY <1>4 DEF Crash
<1> QED BY <1>2, <1>3, <1>4 DEF Step

THEOREM UnsavedStopShown == Spec => UnsavedStopStaysShown
<1>1. IInv /\ [Next]_vars => [UnsavedStep]_vars
    BY UnsavedCalls, UnsavedThreads DEF Next
<1>2. [UnsavedStep]_vars => [disk.selected # selected /\ error = "unsaved" /\ error' # "unsaved"
        => disk'.selected = selected' \/ owner = "starting"]_vars
    BY DEF UnsavedStep
<1> QED BY <1>1, <1>2, InvariantHolds, PTL DEF Spec, UnsavedStopStaysShown
-----------------------------------------------------------------------------
(* The relay implements OneOutput.                                         *)
Chosen == IF gate /\ selected # NoRoute THEN routes[selected] ELSE Absent
Streams == {<<i, worker[i].endpoint>> : i \in {j \in Ids : worker[j].phase = "forwarding"}}

(* Between the two only the threads that forward and the choice matter.    *)
LEMMA OutputStutters ==
    ASSUME UNCHANGED <<gate, selected>>, selected # NoRoute => routes'[selected] = routes[selected],
           {j \in Ids : worker'[j].phase = "forwarding"}
              = {j \in Ids : worker[j].phase = "forwarding"},
           \A j \in Ids : worker'[j].endpoint = worker[j].endpoint
    PROVE  UNCHANGED <<Chosen, Streams>>
BY DEF Chosen, Streams

(* When nothing forwards afterwards, any typed choice is a choice of       *)
(* OneOutput.                                                              *)
LEMMA OutputChooses ==
    ASSUME IInv', \A i \in Ids : worker'[i].phase # "forwarding"
    PROVE  /\ Streams' = {}
           /\ Chosen' \in Endpoints \cup {Absent}
<1>1. Streams' = {}
    BY DEF Streams
<1>2. Chosen' \in Endpoints \cup {Absent}
    BY DEF Chosen, IInv, Typed
<1> QED BY <1>1, <1>2

LEMMA OutputCloses ==
    ASSUME IInv, IInv', Disconnect
    PROVE  Output!Next
<1>1. \A i \in Ids : worker'[i].phase # "forwarding"
    BY DisconnectTyped DEF IInv
<1>2. Streams' = {} /\ Chosen' \in Endpoints \cup {Absent}
    BY <1>1, OutputChooses
<1> QED BY <1>2 DEF Output!Next, Output!Choose, Chosen, Streams

LEMMA OutputStep ==
    ASSUME IInv, IInv', [Next]_vars
    PROVE  [Output!Next]_<<Chosen, Streams>>
<1>1. CASE Disconnect
    BY <1>1, OutputCloses
<1>2. CASE \/ AddRoutes \/ BumpGeneration \/ StartListener \/ Drained \/ Poll \/ NoClient \/ Refuse
           \/ UNCHANGED vars
  <2>1. UNCHANGED <<gate, selected, worker>>
      BY <1>2 DEF AddRoutes, BumpGeneration, StartListener, Drained, Poll, NoClient, Refuse,
                  Connected, routeVars, sessionVars, vars, relayVars
  <2>2. selected # NoRoute => routes'[selected] = routes[selected]
    <3>1. CASE AddRoutes
        BY <3>1 DEF AddRoutes, IInv, Typed, SelectionFits
    <3>2. CASE ~AddRoutes
        BY <1>2, <3>2 DEF BumpGeneration, StartListener, Drained, Poll, NoClient, Refuse,
                          routeVars, vars, relayVars
    <3> QED BY <3>1, <3>2
  <2> QED BY <2>1, <2>2, OutputStutters
<1>3. ASSUME NEW r \in Routes, UpdateRoute(r) \/ RemoveRoute(r), ~Disconnect
      PROVE  UNCHANGED <<Chosen, Streams>>
  <2>1. r # selected /\ UNCHANGED <<gate, selected, worker>>
      BY <1>3 DEF UpdateRoute, RemoveRoute, Connected
  <2>2. selected # NoRoute => routes'[selected] = routes[selected]
      BY <1>3, <2>1 DEF UpdateRoute, RemoveRoute, IInv, Typed
  <2> QED BY <2>1, <2>2, OutputStutters
<1>4. CASE Bound
  <2>1. UNCHANGED <<routes, selected, worker>> /\ gate'
      BY <1>4 DEF Bound, routeVars, sessionVars
  <2>2. CASE gate
      BY <2>1, <2>2, OutputStutters DEF IInv, Typed
  <2>3. CASE ~gate
    <3>1. \A i \in Ids : worker'[i].phase # "forwarding"
        BY <2>1, <2>3, Constants DEF IInv, ThreadsFit, SessionFits
    <3>2. Streams' = {} /\ Chosen' \in Endpoints \cup {Absent}
        BY <3>1, OutputChooses
    <3> QED BY <3>2 DEF Output!Next, Output!Choose, Chosen, Streams
  <2> QED BY <2>2, <2>3
<1>5. CASE Reserve
  <2>1. reserved + 1 \in Ids /\ worker[reserved + 1].phase = "none"
      BY <1>5, Constants DEF Reserve, IInv, Typed, ThreadsFit, Ids
  <2>2. \A j \in Ids : worker'[j] = IF j = reserved + 1
                        THEN [phase |-> "connecting", endpoint |-> routes[selected]] ELSE worker[j]
      BY <1>5, <2>1 DEF Reserve, IInv, Typed
  <2>3. UNCHANGED <<routes, selected, gate>>
      BY <1>5 DEF Reserve, routeVars
  <2>4. UNCHANGED Streams
      BY <2>1, <2>2 DEF Streams
  <2> QED BY <2>3, <2>4 DEF Chosen
<1>6. ASSUME NEW i \in Ids, Attach(i)
      PROVE  Output!Open(i)
  <2>1. /\ worker[i].phase = "connecting" /\ session.id = i /\ i # 0
        /\ worker' = [worker EXCEPT ![i].phase = "forwarding"]
        /\ UNCHANGED <<routes, selected, gate>>
      BY <1>6, Constants DEF Attach, routeVars
  <2>2. /\ worker'[i].phase = "forwarding" /\ worker'[i].endpoint = worker[i].endpoint
        /\ \A j \in Ids : j # i => worker'[j] = worker[j]
      BY <2>1, PhaseTyped DEF IInv
  <2>3. \A j \in Ids : worker[j].phase # "forwarding"
      BY <2>1 DEF IInv, ThreadsFit
  <2>4. /\ gate /\ selected # NoRoute /\ worker[i].endpoint = routes[selected]
        /\ routes[selected] # Absent
      BY <2>1 DEF IInv, SessionFits, SelectionFits
  <2>5. Streams = {} /\ Streams' = {<<i, worker[i].endpoint>>}
      BY <2>2, <2>3 DEF Streams
  <2>6. Chosen = routes[selected] /\ Chosen' = Chosen
      BY <2>1, <2>4 DEF Chosen
  <2> QED BY <2>4, <2>5, <2>6 DEF Output!Open, Chosen, Streams
<1>7. ASSUME NEW i \in Ids, NEW m \in Milestones \cup {"initializing", "starting", "stopped"},
             Milestone(i, m)
      PROVE  UNCHANGED <<Chosen, Streams>>
    BY <1>7 DEF Milestone, Chosen, Streams, routeVars
<1>8. ASSUME NEW i \in Ids, Finish(i)
      PROVE  [Output!Next]_<<Chosen, Streams>>
  <2>1. /\ worker' = [worker EXCEPT ![i].phase = "gone"]
        /\ UNCHANGED <<routes, selected, gate>>
      BY <1>8 DEF Finish, routeVars
  <2>2. /\ worker'[i].phase = "gone" /\ worker'[i].endpoint = worker[i].endpoint
        /\ \A j \in Ids : j # i => worker'[j] = worker[j]
      BY <2>1, PhaseTyped DEF IInv
  <2>3. Chosen' = Chosen
      BY <2>1 DEF Chosen
  <2>4. CASE worker[i].phase = "forwarding"
    <3>1. \A j \in Ids : worker'[j].phase # "forwarding"
        BY <2>2, <2>4 DEF IInv, ThreadsFit
    <3>2. Streams' = {}
        BY <3>1 DEF Streams
    <3> QED BY <2>3, <3>2 DEF Output!Next, Output!Close, Chosen, Streams
  <2>5. CASE worker[i].phase # "forwarding"
    <3>1. UNCHANGED Streams
        BY <2>2, <2>5 DEF Streams
    <3> QED BY <2>3, <3>1
  <2> QED BY <2>4, <2>5
<1>9. CASE Crash
  <2>1. \A i \in Ids : worker'[i].phase # "forwarding"
      BY <1>9 DEF Crash, NoWorker
  <2>2. Streams' = {} /\ Chosen' \in Endpoints \cup {Absent}
      BY <2>1, OutputChooses
  <2> QED BY <2>2 DEF Output!Next, Output!Choose, Chosen, Streams
<1>10. CASE ClearSelection \/ StopListener \/ Joined \/ LoopEnds
              \/ DisableRouting(committed) \/ (\E r \in Routes : CommitSelection(r))
    BY <1>1, <1>10 DEF ClearSelection, StopListener, Joined, LoopEnds, DisableRouting,
                       CommitSelection
<1>11. CASE OwnerCall
    BY <1>1, <1>2, <1>3, <1>10, <1>11 DEF OwnerCall
<1>12. CASE Listening
    BY <1>2, <1>4, <1>5, <1>10, <1>12 DEF Listening
<1>13. ASSUME NEW i \in Ids, Serve(i)
       PROVE  [Output!Next]_<<Chosen, Streams>>
  <2>1. CASE Attach(i)
      BY <1>6, <2>1 DEF Output!Next
  <2> QED BY <1>7, <1>8, <1>13, <2>1 DEF Serve
<1> QED BY <1>2, <1>9, <1>11, <1>12, <1>13 DEF Next, Step

THEOREM RelayImplementsOneOutput == Spec => ImplementsOneOutput
<1>1. Init => Output!Init
  <2> SUFFICES ASSUME Init PROVE Output!Init
      OBVIOUS
  <2>1. \A i \in Ids : worker[i].phase = "none"
      BY DEF Init, RelayInit, NoWorker
  <2>2. (IF gate /\ selected # NoRoute THEN routes[selected] ELSE Absent)
           \in Endpoints \cup {Absent}
      BY DEF Init
  <2> QED BY <2>1, <2>2 DEF Init, Output!Init
<1>2. IInv /\ IInv' /\ [Next]_vars => [Output!Next]_Output!outputVars
    BY OutputStep DEF Output!outputVars, Chosen, Streams
<1> QED BY <1>1, <1>2, InvariantHolds, PTL DEF Spec, ImplementsOneOutput, Output!Spec
-----------------------------------------------------------------------------
(* The relay implements RelayContract.                                     *)
Shown == IF session.id = 0 THEN [since |-> 0, route |-> NoRoute, reached |-> {}]
         ELSE [since |-> session.generation, route |-> session.route,
               reached |-> {n[2] : n \in session.shows}]

LEMMA NothingShown ==
    ASSUME IInv
    PROVE  session.id = 0 <=> Shown = Contract!Nothing
<1>1. session.id # 0 => session.route # NoRoute
    BY DEF IInv, SessionFits
<1> QED BY <1>1 DEF Shown, Contract!Nothing

(* Whatever takes the session away is a teardown of the contract.          *)
LEMMA ContractTeardown ==
    ASSUME Disconnect
    PROVE  generation' = generation + 1 /\ Shown' = Contract!Nothing
BY DEF Disconnect, Shown, NoSession, Contract!Nothing

LEMMA ContractStep ==
    ASSUME IInv, IInv', [Next]_vars
    PROVE  [Contract!ContractNext]_<<selected, generation, gate, Shown>>
<1>1. CASE AddRoutes \/ StartListener \/ Drained \/ Poll \/ NoClient \/ Refuse \/ UNCHANGED vars
  <2>1. UNCHANGED <<selected, generation, gate, session>>
      BY <1>1 DEF AddRoutes, StartListener, Drained, Poll, NoClient, Refuse, Connected, routeVars,
                  sessionVars, vars, relayVars
  <2> QED BY <2>1 DEF Shown
<1>2. CASE BumpGeneration
  <2>1. generation' = generation + 1 /\ UNCHANGED <<selected, gate, session>>
      BY <1>2 DEF BumpGeneration, routeVars, sessionVars
  <2>2. UNCHANGED Shown
      BY <2>1 DEF Shown
  <2> QED BY <2>1, <2>2 DEF Contract!ContractNext, Contract!BumpGeneration, Shown
<1>3. CASE StopListener \/ Joined \/ LoopEnds
  <2>1. Disconnect /\ UNCHANGED <<selected, gate>>
      BY <1>3 DEF StopListener, Joined, LoopEnds, routeVars
  <2> QED BY <2>1, ContractTeardown
          DEF Contract!ContractNext, Contract!Close, Contract!Teardown, Shown
<1>4. CASE DisableRouting(committed)
  <2>1. Disconnect /\ gate' = FALSE /\ selected' = selected
      BY <1>4 DEF DisableRouting, routeVars
  <2> QED BY <2>1, ContractTeardown
          DEF Contract!ContractNext, Contract!DisableRouting, Contract!Teardown, Shown
<1>5. CASE ClearSelection
  <2>1. Disconnect /\ gate' = TRUE /\ selected' = NoRoute
      BY <1>5 DEF ClearSelection
  <2> QED BY <2>1, ContractTeardown
          DEF Contract!ContractNext, Contract!ClearSelection, Contract!Teardown, Shown
<1>6. ASSUME NEW r \in Routes, CommitSelection(r)
      PROVE  Contract!CommitSelection(r)
  <2>1. Disconnect /\ gate' = TRUE /\ selected' = r
      BY <1>6 DEF CommitSelection
  <2> QED BY <2>1, ContractTeardown DEF Contract!CommitSelection, Contract!Teardown, Shown
<1>7. ASSUME NEW r \in Routes, UpdateRoute(r) \/ RemoveRoute(r)
      PROVE  [Contract!Close \/ Contract!Deselect]_<<selected, generation, gate, Shown>>
  <2>1. CASE r # selected
    <3>1. UNCHANGED <<selected, generation, gate, session>>
        BY <1>7, <2>1 DEF UpdateRoute, RemoveRoute, Connected
    <3> QED BY <3>1 DEF Shown
  <2>2. CASE r = selected
    <3>1. Disconnect /\ gate' = gate /\ (selected' = selected \/ selected' = NoRoute)
        BY <1>7, <2>2 DEF UpdateRoute, RemoveRoute
    <3> QED BY <3>1, ContractTeardown
            DEF Contract!Close, Contract!Deselect, Contract!Teardown, Shown
  <2> QED BY <2>1, <2>2
<1>8. CASE Bound
  <2>1. gate' = TRUE /\ UNCHANGED <<selected, generation, session>>
      BY <1>8 DEF Bound, routeVars, sessionVars
  <2>2. UNCHANGED Shown
      BY <2>1 DEF Shown
  <2> QED BY <2>1, <2>2 DEF Contract!ContractNext, Contract!OpenGate, Shown
<1>9. CASE Reserve
  <2>1. /\ session.id = 0 /\ selected # NoRoute /\ gate
        /\ session' = [id |-> reserved + 1, route |-> selected, endpoint |-> routes[selected],
                       generation |-> generation, shows |-> {}]
        /\ UNCHANGED <<selected, generation, gate>>
      BY <1>9 DEF Reserve, routeVars
  <2>2. session'.id # 0
      BY <2>1 DEF IInv, Typed
  <2>3. Shown' = [since |-> generation, route |-> selected, reached |-> {}]
      BY <2>1, <2>2 DEF Shown
  <2>4. Shown = Contract!Nothing
      BY <2>1, NothingShown
  <2> QED BY <2>1, <2>3, <2>4
          DEF Contract!ContractNext, Contract!Serving, Contract!Reserve, Shown
<1>10. ASSUME NEW i \in Ids, NEW m \in Milestones \cup {"initializing", "starting", "stopped"},
              Milestone(i, m)
       PROVE  Contract!Report
  <2>1. /\ session.id = i /\ i # 0
        /\ session' = [session EXCEPT !.shows = After(@, i, m)]
        /\ UNCHANGED <<selected, generation, gate>>
      BY <1>10, Constants DEF Milestone, routeVars
  <2>2. /\ session'.id = i /\ session'.generation = session.generation
        /\ session'.route = session.route
        /\ session'.shows \in SUBSET (Ids \X Milestones)
      BY <2>1 DEF IInv, Typed
  <2> DEFINE reached == {n[2] : n \in session'.shows}
  <2>3. reached \in SUBSET Contract!Milestones
      BY <2>2 DEF Milestones, Contract!Milestones
  <2>4. /\ Shown = [since |-> session.generation, route |-> session.route,
                    reached |-> {n[2] : n \in session.shows}]
        /\ Shown' = [since |-> session.generation, route |-> session.route,
                     reached |-> reached]
      BY <2>1, <2>2 DEF Shown
  <2> HIDE DEF reached
  <2>5. Shown' = [Shown EXCEPT !.reached = reached]
      BY <2>4
  <2>6. Shown # Contract!Nothing
      BY <2>1, NothingShown
  <2> QED BY <2>1, <2>3, <2>5, <2>6 DEF Contract!Report, Shown
<1>11. ASSUME NEW i \in Ids, Attach(i) \/ Finish(i)
       PROVE  [Contract!Finish]_<<selected, generation, gate, Shown>>
  <2>1. UNCHANGED <<selected, generation, gate>> /\ (session' = session \/ session' = NoSession)
      BY <1>11 DEF Attach, Finish, routeVars
  <2>2. CASE session' = session
      BY <2>1, <2>2 DEF Shown
  <2>3. CASE session' = NoSession
    <3>1. Shown' = Contract!Nothing
        BY <2>3 DEF Shown, NoSession, Contract!Nothing
    <3> QED BY <2>1, <3>1 DEF Contract!Finish, Shown
  <2> QED BY <2>1, <2>2, <2>3
<1>12. CASE Crash
  <2>1. /\ generation' = 0 /\ gate' = TRUE /\ selected' \in Routes \cup {NoRoute}
        /\ Shown' = Contract!Nothing
      BY <1>12 DEF Crash, IInv, Typed, Shown, NoSession, Contract!Nothing
  <2> QED BY <2>1 DEF Contract!ContractNext, Contract!Restart, Shown
<1>13. CASE OwnerCall
    BY <1>1, <1>2, <1>3, <1>4, <1>5, <1>6, <1>7, <1>13 DEF OwnerCall, Contract!ContractNext, Shown
<1>14. CASE Listening
    BY <1>1, <1>3, <1>8, <1>9, <1>14 DEF Listening
<1>15. ASSUME NEW i \in Ids, Serve(i)
       PROVE  [Contract!ContractNext]_<<selected, generation, gate, Shown>>
    BY <1>10, <1>11, <1>15 DEF Serve, Contract!ContractNext, Contract!Serving, Shown
<1> QED BY <1>1, <1>12, <1>13, <1>14, <1>15 DEF Next, Step

(* What the owner sees of the relay is the RelayContract: every teardown   *)
(* begins a new generation, and a session shown began under the one it     *)
(* names.                                                                  *)
THEOREM RelayImplementsContract == Spec => ImplementsContract
<1>1. Init => \E s \in Routes \cup {NoRoute} : Contract!ContractInit(s)
  <2> SUFFICES ASSUME Init PROVE Contract!ContractInit(selected) /\ selected \in Routes \cup {NoRoute}
      OBVIOUS
  <2> QED BY DEF Init, RelayInit, NoSession, Contract!ContractInit, Contract!Nothing
<1>2. IInv /\ IInv' /\ [Next]_vars => [Contract!ContractNext]_Contract!contractVars
    BY ContractStep DEF Contract!contractVars, Shown
<1> QED BY <1>1, <1>2, InvariantHolds, PTL DEF Spec, ImplementsContract, Contract!ContractSpec
=============================================================================
