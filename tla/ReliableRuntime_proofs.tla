----------------------- MODULE ReliableRuntime_proofs -----------------------
(***************************************************************************)
(* Proofs about ReliableRuntime, for every set of calls, zones, providers, *)
(* correlations and commands, every capacity and every bound.              *)
(*                                                                         *)
(* The argument: the types and WellFormed are inductive together.  On top  *)
(* of them LeaseRecorded says that the native history and the status agree *)
(* and that a worker only ever holds the lease of an attempted command;    *)
(* LiveEndpointIsRegistered that a key has one live endpoint;              *)
(* ActorRecordsItsCommit that the actor's pending outcome is a commit it   *)
(* made.  The caller-visible invariants follow from these.                 *)
(*                                                                         *)
(* That a read-back's final status is for ever needs more: work reaches    *)
(* only endpoints of its own target, and while a worker may still fail a   *)
(* command nobody has nominated it for confirmation (Nominations).         *)
(***************************************************************************)
EXTENDS ReliableRuntime, TLAPS

(* Every key that an adapter registers is an endpoint key.                  *)
LEMMA KeysOfEndpoints == EndpointKeys \subseteq Keys
BY DEF EndpointKeys, Keys

(* The source of an endpoint's projection is one of the providers.          *)
LEMMA ProjectionTyped ==
    ASSUME NEW k \in EndpointKeys, NEW c \in Calls \cup {Nil}
    PROVE  Projection(k, c) \in Submission
BY RuntimeAssumption DEF Projection, Submission, EndpointKeys

(* The state is well typed, and stays so.                                  *)
LEMMA TypeStep ==
    ASSUME TypeOK, WellFormed, [Next]_vars
    PROVE  TypeOK' /\ WellFormed'
<1>0. /\ MaxGen \in Nat /\ SourceOf \in [Zones -> Providers]
      /\ Nil \notin Calls \cup Zones \cup Correlations
    BY RuntimeAssumption
<1> USE <1>0 DEF TypeOK, WellFormed, callVars, ledgerVars, endpointVars, runVars,
        projectionVars
<1>1. ASSUME NEW c \in Calls, Begin(c) PROVE TypeOK' /\ WellFormed'
  <2>1. CallsOK'
    BY <1>1 DEF Begin, CallsOK, CallPhase
  <2>2. LedgerOK' /\ EndpointsOK' /\ ProjectionsOK'
    BY <1>1 DEF Begin, LedgerOK, EndpointsOK, ProjectionsOK
  <2>3. RequestsMade'
    BY <1>1 DEF Begin, RequestsMade, CallsOK, Request
  <2>4. WorkersFormed'
    BY <1>1 DEF Begin, WorkersFormed, EndpointsOK
  <2> QED BY <2>1, <2>2, <2>3, <2>4
<1>2. ASSUME NEW c \in Calls, Lookup(c) PROVE TypeOK' /\ WellFormed'
  <2>1. CallsOK'
    BY <1>2 DEF Lookup, CallsOK, CallPhase, LedgerOK, RequestsMade
  <2>2. LedgerOK' /\ EndpointsOK' /\ ProjectionsOK'
    BY <1>2 DEF Lookup, LedgerOK, EndpointsOK, ProjectionsOK
  <2>3. RequestsMade'
    BY <1>2 DEF Lookup, RequestsMade, CallsOK
  <2>4. WorkersFormed'
    BY <1>2 DEF Lookup, WorkersFormed, EndpointsOK
  <2> QED BY <2>1, <2>2, <2>3, <2>4
<1>3. ASSUME NEW c \in Calls, Insert(c) PROVE TypeOK' /\ WellFormed'
  <2>1. CallsOK'
    BY <1>3 DEF Insert, CallsOK, CallPhase
  <2>2. LedgerOK'
    BY <1>3 DEF Insert, LedgerOK, CommandStatus
  <2>3. EndpointsOK' /\ ProjectionsOK'
    BY <1>3 DEF Insert, EndpointsOK, ProjectionsOK
  <2>4. RequestsMade'
    BY <1>3 DEF Insert, RequestsMade, CallsOK
  <2>5. WorkersFormed'
    BY <1>3 DEF Insert, WorkersFormed, EndpointsOK
  <2> QED BY <2>1, <2>2, <2>3, <2>4, <2>5
<1>4. ASSUME NEW c \in Calls, RouteCall(c) PROVE TypeOK' /\ WellFormed'
  <2>0. Route(req[c].target) \in 0 .. MaxGen
    <3>1. req[c].target \in Zones
        BY <1>4 DEF RouteCall, RequestsMade, Request
    <3> QED BY <3>1 DEF Route, EndpointsOK, Keys
  <2>1. CallsOK'
    BY <1>4, <2>0 DEF RouteCall, CallsOK, CallPhase
  <2>2. LedgerOK'
    BY <1>4 DEF RouteCall, LedgerOK, CommandStatus, NotDispatched, SetStatus
  <2>3. EndpointsOK' /\ ProjectionsOK'
    BY <1>4 DEF RouteCall, EndpointsOK, ProjectionsOK
  <2>4. RequestsMade'
    BY <1>4, <2>0 DEF RouteCall, RequestsMade, CallsOK, Gens
  <2>5. WorkersFormed'
    BY <1>4 DEF RouteCall, WorkersFormed, EndpointsOK
  <2> QED BY <2>1, <2>2, <2>3, <2>4, <2>5
<1>5. ASSUME NEW c \in Calls, Enqueue(c) PROVE TypeOK' /\ WellFormed'
  <2>1. CallsOK'
    BY <1>5 DEF Enqueue, CallsOK, CallPhase
  <2>2. LedgerOK'
    BY <1>5 DEF Enqueue, LedgerOK
  <2>3. EndpointsOK'
    <3>1. routed[c] \in Gens
        BY <1>5 DEF Enqueue, RequestsMade
    <3>2. Append(queue[routed[c]], c) \in Seq(Calls)
        BY <3>1 DEF EndpointsOK
    <3> QED BY <1>5, <3>1, <3>2 DEF Enqueue, EndpointsOK
  <2>4. ProjectionsOK'
    BY <1>5 DEF Enqueue, ProjectionsOK
  <2>5. RequestsMade'
    BY <1>5 DEF Enqueue, RequestsMade, CallsOK
  <2>6. WorkersFormed'
    BY <1>5 DEF Enqueue, WorkersFormed, EndpointsOK
  <2> QED BY <2>1, <2>2, <2>3, <2>4, <2>5, <2>6
<1>6. ASSUME NEW c \in Calls, ReserveFailed(c) PROVE TypeOK' /\ WellFormed'
  <2>1. CallsOK'
    BY <1>6 DEF ReserveFailed, CallsOK, CallPhase
  <2>2. LedgerOK'
    BY <1>6 DEF ReserveFailed, LedgerOK, CommandStatus, NotDispatched, SetStatus
  <2>3. EndpointsOK' /\ ProjectionsOK'
    BY <1>6 DEF ReserveFailed, EndpointsOK, ProjectionsOK
  <2>4. RequestsMade'
    BY <1>6 DEF ReserveFailed, RequestsMade, CallsOK
  <2>5. WorkersFormed'
    BY <1>6 DEF ReserveFailed, WorkersFormed, EndpointsOK
  <2> QED BY <2>1, <2>2, <2>3, <2>4, <2>5
<1>7. ASSUME NEW c \in Calls, CancelSubmit(c) \/ Leave(c) PROVE TypeOK' /\ WellFormed'
  <2>1. CallsOK'
    <3>1. CASE CancelSubmit(c)
        BY <3>1 DEF CancelSubmit, CallsOK, CallPhase
    <3>2. CASE Leave(c)
        BY <3>2 DEF Leave, CallsOK, CallPhase
    <3> QED BY <1>7, <3>1, <3>2
  <2>2. LedgerOK' /\ EndpointsOK' /\ ProjectionsOK'
    BY <1>7 DEF CancelSubmit, Leave, LedgerOK, EndpointsOK, ProjectionsOK
  <2>3. RequestsMade'
    BY <1>7 DEF CancelSubmit, Leave, RequestsMade, CallsOK
  <2>4. WorkersFormed'
    BY <1>7 DEF CancelSubmit, Leave, WorkersFormed, EndpointsOK
  <2> QED BY <2>1, <2>2, <2>3, <2>4
<1>8. ASSUME NEW c \in Calls, DeadlinePasses(c) PROVE TypeOK' /\ WellFormed'
  <2>1. CallsOK'
    BY <1>8 DEF DeadlinePasses, CallsOK
  <2>2. LedgerOK' /\ EndpointsOK' /\ ProjectionsOK'
    BY <1>8 DEF DeadlinePasses, LedgerOK, EndpointsOK, ProjectionsOK
  <2>3. RequestsMade'
    BY <1>8 DEF DeadlinePasses, RequestsMade, CallsOK
  <2>4. WorkersFormed'
    BY <1>8 DEF DeadlinePasses, WorkersFormed, EndpointsOK
  <2> QED BY <2>1, <2>2, <2>3, <2>4
<1>9. ASSUME NEW c \in Calls, DispatchExpires(c) PROVE TypeOK' /\ WellFormed'
  <2>1. LedgerOK'
    BY <1>9 DEF DispatchExpires, LedgerOK, CommandStatus, NotDispatched, SetStatus
  <2>2. CallsOK' /\ EndpointsOK' /\ ProjectionsOK'
    BY <1>9 DEF DispatchExpires, CallsOK, EndpointsOK, ProjectionsOK
  <2>3. RequestsMade'
    BY <1>9 DEF DispatchExpires, RequestsMade, CallsOK
  <2>4. WorkersFormed'
    BY <1>9 DEF DispatchExpires, WorkersFormed, EndpointsOK
  <2> QED BY <2>1, <2>2, <2>3, <2>4
<1>10. ASSUME NEW c \in Calls, ConfirmationTimesOut(c) PROVE TypeOK' /\ WellFormed'
  <2>1. LedgerOK'
    BY <1>10 DEF ConfirmationTimesOut, LedgerOK, CommandStatus, SetStatus
  <2>2. CallsOK' /\ EndpointsOK' /\ ProjectionsOK'
    BY <1>10 DEF ConfirmationTimesOut, CallsOK, EndpointsOK, ProjectionsOK, SetStatus
  <2>3. RequestsMade'
    BY <1>10 DEF ConfirmationTimesOut, RequestsMade, CallsOK, SetStatus
  <2>4. WorkersFormed'
    BY <1>10 DEF ConfirmationTimesOut, WorkersFormed, EndpointsOK, SetStatus
  <2> QED BY <2>1, <2>2, <2>3, <2>4
<1>11. ASSUME NEW g \in Gens, Receive(g) PROVE TypeOK' /\ WellFormed'
  <2>1. EndpointsOK'
    BY <1>11 DEF Receive, EndpointsOK, WorkerPhase
  <2>2. CallsOK' /\ LedgerOK' /\ ProjectionsOK'
    BY <1>11 DEF Receive, CallsOK, LedgerOK, ProjectionsOK
  <2>3. RequestsMade'
    BY <1>11 DEF Receive, RequestsMade, CallsOK
  <2>4. WorkersFormed'
    BY <1>11 DEF Receive, WorkersFormed, EndpointsOK
  <2> QED BY <2>1, <2>2, <2>3, <2>4
<1>12. ASSUME NEW g \in Gens, CheckDeadline(g) PROVE TypeOK' /\ WellFormed'
  <2>1. LedgerOK'
    BY <1>12 DEF CheckDeadline, LedgerOK, CommandStatus, NotDispatched, SetStatus
  <2>2. EndpointsOK'
    BY <1>12 DEF CheckDeadline, EndpointsOK, WorkerPhase, Finish
  <2>3. CallsOK' /\ ProjectionsOK'
    BY <1>12 DEF CheckDeadline, CallsOK, ProjectionsOK
  <2>4. RequestsMade'
    BY <1>12 DEF CheckDeadline, RequestsMade, CallsOK
  <2>5. WorkersFormed'
    BY <1>12 DEF CheckDeadline, WorkersFormed, Finish, EndpointsOK
  <2> QED BY <2>1, <2>2, <2>3, <2>4, <2>5
<1>13. ASSUME NEW g \in Gens, BeginDispatch(g) PROVE TypeOK' /\ WellFormed'
  <2>1. LedgerOK'
    BY <1>13 DEF BeginDispatch, LedgerOK, CommandStatus, WorkersFormed, SetStatus
  <2>2. EndpointsOK'
    BY <1>13 DEF BeginDispatch, EndpointsOK, WorkerPhase, Finish, SetStatus
  <2>3. CallsOK' /\ ProjectionsOK'
    BY <1>13 DEF BeginDispatch, CallsOK, ProjectionsOK, SetStatus
  <2>4. RequestsMade'
    BY <1>13 DEF BeginDispatch, RequestsMade, CallsOK, SetStatus
  <2>5. WorkersFormed'
    BY <1>13 DEF BeginDispatch, WorkersFormed, Finish, EndpointsOK, SetStatus
  <2> QED BY <2>1, <2>2, <2>3, <2>4, <2>5
<1>14. ASSUME NEW g \in Gens, Arm(g) PROVE TypeOK' /\ WellFormed'
  <2>1. EndpointsOK'
    BY <1>14 DEF Arm, EndpointsOK, WorkerPhase, WorkersFormed, Keys, EndpointKeys
  <2>2. CallsOK' /\ LedgerOK' /\ ProjectionsOK'
    BY <1>14 DEF Arm, CallsOK, LedgerOK, ProjectionsOK
  <2>3. RequestsMade'
    BY <1>14 DEF Arm, RequestsMade, CallsOK
  <2>4. WorkersFormed'
    BY <1>14 DEF Arm, WorkersFormed, EndpointsOK
  <2> QED BY <2>1, <2>2, <2>3, <2>4
<1>15. ASSUME NEW g \in Gens, NativeFailed(g) PROVE TypeOK' /\ WellFormed'
  <2>1. LedgerOK'
    BY <1>15 DEF NativeFailed, LedgerOK, CommandStatus, SetStatus
  <2>2. EndpointsOK'
    BY <1>15 DEF NativeFailed, EndpointsOK, WorkerPhase, Finish, Disarm, Keys, SetStatus
  <2>3. CallsOK' /\ ProjectionsOK'
    BY <1>15 DEF NativeFailed, CallsOK, ProjectionsOK, SetStatus
  <2>4. RequestsMade'
    BY <1>15 DEF NativeFailed, RequestsMade, CallsOK, SetStatus
  <2>5. WorkersFormed'
    BY <1>15 DEF NativeFailed, WorkersFormed, Finish, EndpointsOK, OwesResult, SetStatus
  <2> QED BY <2>1, <2>2, <2>3, <2>4, <2>5
<1>16. ASSUME NEW g \in Gens, NativeAccepted(g) PROVE TypeOK' /\ WellFormed'
  <2>1. LedgerOK'
    BY <1>16 DEF NativeAccepted, LedgerOK, CommandStatus, SetStatus
  <2>2. EndpointsOK'
    BY <1>16 DEF NativeAccepted, EndpointsOK, WorkerPhase, SetStatus
  <2>3. CallsOK' /\ ProjectionsOK'
    BY <1>16 DEF NativeAccepted, CallsOK, ProjectionsOK, SetStatus
  <2>4. RequestsMade'
    BY <1>16 DEF NativeAccepted, RequestsMade, CallsOK, SetStatus
  <2>5. WorkersFormed'
    BY <1>16 DEF NativeAccepted, WorkersFormed, EndpointsOK, ByCallback, SetStatus
  <2> QED BY <2>1, <2>2, <2>3, <2>4, <2>5
<1>17. ASSUME NEW g \in Gens, ReadBack(g) PROVE TypeOK' /\ WellFormed'
  <2>1. EndpointsOK'
    BY <1>17 DEF ReadBack, EndpointsOK, WorkerPhase, Finish
  <2>2. ProjectionsOK'
    <3>1. Projection(keyOf[g], hand[g]) \in Submission
        BY <1>17, ProjectionTyped DEF ReadBack, WorkersFormed
    <3>2. /\ ingress' = Append(ingress, Projection(keyOf[g], hand[g])) \/ ingress' = ingress
          /\ UNCHANGED <<actor, commits>>
        BY <1>17 DEF ReadBack
    <3>3. ingress \in Seq(Submission)
        BY DEF ProjectionsOK
    <3>4. ingress' \in Seq(Submission)
        BY <3>1, <3>2, <3>3
    <3> QED BY <3>2, <3>4 DEF ProjectionsOK
  <2>3. CallsOK' /\ LedgerOK'
    BY <1>17 DEF ReadBack, CallsOK, LedgerOK
  <2>4. RequestsMade'
    BY <1>17 DEF ReadBack, RequestsMade, CallsOK
  <2>5. WorkersFormed'
    BY <1>17 DEF ReadBack, WorkersFormed, Finish, EndpointsOK
  <2> QED BY <2>1, <2>2, <2>3, <2>4, <2>5
<1>18. ASSUME NEW g \in Gens, Settle(g) PROVE TypeOK' /\ WellFormed'
  <2>1. EndpointsOK'
    BY <1>18 DEF Settle, EndpointsOK, WorkerPhase, Finish, Disarm, Keys
  <2>2. CallsOK' /\ LedgerOK' /\ ProjectionsOK'
    BY <1>18 DEF Settle, CallsOK, LedgerOK, ProjectionsOK
  <2>3. RequestsMade'
    BY <1>18 DEF Settle, RequestsMade, CallsOK
  <2>4. WorkersFormed'
    BY <1>18 DEF Settle, WorkersFormed, Finish, EndpointsOK
  <2> QED BY <2>1, <2>2, <2>3, <2>4
<1>19. ASSUME NEW g \in Gens, WorkerExit(g) PROVE TypeOK' /\ WellFormed'
  <2>1. EndpointsOK'
    <3>1. keyOf[g] \in Keys
        BY <1>19, KeysOfEndpoints DEF WorkerExit, WorkersFormed
    <3>2. slot' \in [Keys -> 0 .. MaxGen]
        BY <1>19, <3>1 DEF WorkerExit, EndpointsOK
    <3>3. queue' \in [Gens -> Seq(Calls)]
        BY <1>19 DEF WorkerExit, EndpointsOK
    <3>4. worker' \in [Gens -> WorkerPhase]
        BY <1>19 DEF WorkerExit, EndpointsOK, WorkerPhase
    <3> QED BY <1>19, <3>2, <3>3, <3>4 DEF WorkerExit, EndpointsOK
  <2>2. CallsOK' /\ LedgerOK' /\ ProjectionsOK'
    BY <1>19 DEF WorkerExit, CallsOK, LedgerOK, ProjectionsOK
  <2>3. RequestsMade'
    BY <1>19 DEF WorkerExit, RequestsMade, CallsOK
  <2>4. WorkersFormed'
    BY <1>19 DEF WorkerExit, WorkersFormed, EndpointsOK
  <2> QED BY <2>1, <2>2, <2>3, <2>4
<1>20. ASSUME NEW k \in EndpointKeys, StartRun(k) PROVE TypeOK' /\ WellFormed'
  <2>1. EndpointsOK'
    <3>1. k \in Keys /\ nextGen \in Gens /\ nextGen \in 0 .. MaxGen /\ nextGen + 1 \in 1 .. MaxGen + 1
        BY <1>20, KeysOfEndpoints DEF StartRun, EndpointsOK, Gens
    <3>2. slot' \in [Keys -> 0 .. MaxGen]
        BY <1>20, <3>1 DEF StartRun, EndpointsOK
    <3>3. owned' \in [Keys -> 0 .. MaxGen]
        <4>1. owned' = [owned EXCEPT ![k] = nextGen] \/ owned' = [owned EXCEPT ![k] = 0]
            BY <1>20 DEF StartRun
        <4>2. 0 \in 0 .. MaxGen /\ owned \in [Keys -> 0 .. MaxGen]
            BY DEF EndpointsOK
        <4> QED BY <3>1, <4>1, <4>2
    <3>4. keyOf' \in [Gens -> EndpointKeys \cup {Nil}]
        BY <1>20, <3>1 DEF StartRun, EndpointsOK
    <3>5. worker' \in [Gens -> WorkerPhase]
        BY <1>20, <3>1 DEF StartRun, EndpointsOK, WorkerPhase
    <3> QED BY <1>20, <3>1, <3>2, <3>3, <3>4, <3>5 DEF StartRun, EndpointsOK
  <2>2. CallsOK' /\ LedgerOK' /\ ProjectionsOK'
    BY <1>20 DEF StartRun, CallsOK, LedgerOK, ProjectionsOK
  <2>3. RequestsMade'
    BY <1>20 DEF StartRun, RequestsMade, CallsOK
  <2>4. WorkersFormed'
    BY <1>20 DEF StartRun, WorkersFormed, EndpointsOK, EndpointKeys, Keys, Gens
  <2> QED BY <2>1, <2>2, <2>3, <2>4
<1>21. ASSUME NEW k \in EndpointKeys, StopRun(k) PROVE TypeOK' /\ WellFormed'
  <2>1. EndpointsOK'
    <3>1. owned[k] # 0 => owned[k] \in Gens
        BY KeysOfEndpoints DEF EndpointsOK, Gens
    <3> QED BY <1>21, <3>1 DEF StopRun, EndpointsOK
  <2>2. CallsOK' /\ LedgerOK' /\ ProjectionsOK'
    BY <1>21 DEF StopRun, CallsOK, LedgerOK, ProjectionsOK
  <2>3. RequestsMade'
    BY <1>21 DEF StopRun, RequestsMade, CallsOK
  <2>4. WorkersFormed'
    BY <1>21 DEF StopRun, WorkersFormed, EndpointsOK
  <2> QED BY <2>1, <2>2, <2>3, <2>4
<1>22. ASSUME NEW k \in EndpointKeys, Observe(k) PROVE TypeOK' /\ WellFormed'
  <2>1. ProjectionsOK'
    BY <1>22 DEF Observe, ProjectionsOK
  <2>2. CallsOK' /\ LedgerOK' /\ EndpointsOK'
    BY <1>22 DEF Observe, CallsOK, LedgerOK, EndpointsOK
  <2>3. RequestsMade'
    BY <1>22 DEF Observe, RequestsMade, CallsOK
  <2>4. WorkersFormed'
    BY <1>22 DEF Observe, WorkersFormed, EndpointsOK
  <2> QED BY <2>1, <2>2, <2>3, <2>4
<1>23. ASSUME NEW k \in EndpointKeys, MatchingCallback(k) PROVE TypeOK' /\ WellFormed'
  <2>1. EndpointsOK'
    BY <1>23 DEF MatchingCallback, EndpointsOK, Keys
  <2>2. ProjectionsOK'
    <3>1. Projection(k, armed[k]) \in Submission
        BY <1>23, ProjectionTyped, KeysOfEndpoints DEF MatchingCallback, EndpointsOK
    <3> QED BY <1>23, <3>1 DEF MatchingCallback, ProjectionsOK
  <2>3. CallsOK' /\ LedgerOK'
    BY <1>23 DEF MatchingCallback, CallsOK, LedgerOK
  <2>4. RequestsMade'
    BY <1>23 DEF MatchingCallback, RequestsMade, CallsOK
  <2>5. WorkersFormed'
    BY <1>23 DEF MatchingCallback, WorkersFormed, EndpointsOK
  <2> QED BY <2>1, <2>2, <2>3, <2>4, <2>5
<1>24. ASSUME Commit PROVE TypeOK' /\ WellFormed'
  <2>1. ProjectionsOK'
    <3>1. Head(ingress) \in Submission /\ Tail(ingress) \in Seq(Submission)
        BY <1>24 DEF Commit, ProjectionsOK
    <3>2. Head(ingress).by \in Calls \cup {Nil}
        BY <3>1 DEF Submission
    <3>3. commits' \in Seq(Calls \cup {Nil})
        <4>1. Append(commits, Head(ingress).by) \in Seq(Calls \cup {Nil})
            BY <3>2 DEF ProjectionsOK
        <4> QED BY <1>24, <4>1 DEF Commit, ProjectionsOK
    <3>4. actor' \in [sub : Submission, revision : Nat]
        BY <1>24, <3>1 DEF Commit, ProjectionsOK
    <3> QED BY <1>24, <3>1, <3>3, <3>4 DEF Commit, ProjectionsOK
  <2>2. CallsOK' /\ LedgerOK' /\ EndpointsOK'
    BY <1>24 DEF Commit, CallsOK, LedgerOK, EndpointsOK
  <2>3. RequestsMade'
    BY <1>24 DEF Commit, RequestsMade, CallsOK
  <2>4. WorkersFormed'
    BY <1>24 DEF Commit, WorkersFormed, EndpointsOK
  <2> QED BY <2>1, <2>2, <2>3, <2>4
<1>25. ASSUME RecordOutcome PROVE TypeOK' /\ WellFormed'
  <2>1. LedgerOK'
    BY <1>25 DEF RecordOutcome, LedgerOK, CommandStatus, ProjectionsOK, Submission, SetStatus
  <2>2. ProjectionsOK'
    BY <1>25 DEF RecordOutcome, ProjectionsOK, SetStatus
  <2>3. CallsOK' /\ EndpointsOK'
    BY <1>25 DEF RecordOutcome, CallsOK, EndpointsOK, SetStatus
  <2>4. RequestsMade'
    BY <1>25 DEF RecordOutcome, RequestsMade, CallsOK, SetStatus
  <2>5. WorkersFormed'
    BY <1>25 DEF RecordOutcome, WorkersFormed, EndpointsOK, SetStatus
  <2> QED BY <2>1, <2>2, <2>3, <2>4, <2>5
<1>26. CASE UNCHANGED vars
    BY <1>26 DEF vars, CallsOK, LedgerOK, EndpointsOK, ProjectionsOK, RequestsMade,
       WorkersFormed
<1> QED
    BY <1>1, <1>2, <1>3, <1>4, <1>5, <1>6, <1>7, <1>8, <1>9, <1>10, <1>11, <1>12, <1>13,
       <1>14, <1>15, <1>16, <1>17, <1>18, <1>19, <1>20, <1>21, <1>22, <1>23, <1>24,
       <1>25, <1>26
       DEF Next, CallStep, TimerStep, WorkerStep, AdapterStep

(* Steps that leave the status, the lease and every worker as they are.     *)
LEMMA QuietSteps ==
    ASSUME \/ \E c \in Calls : Begin(c) \/ Lookup(c) \/ CancelSubmit(c) \/ Leave(c) \/ DeadlinePasses(c)
           \/ \E k \in EndpointKeys : StopRun(k) \/ Observe(k) \/ MatchingCallback(k)
           \/ Commit \/ UNCHANGED vars
    PROVE  UNCHANGED <<status, seen, rev, expiry, doubt, native, worker, hand>>
BY DEF Begin, Lookup, CancelSubmit, Leave, DeadlinePasses, StopRun, Observe, MatchingCallback, Commit,
       vars, ledgerVars, endpointVars

(* The native history and the statuses agree, and a leased worker holds an  *)
(* attempted command: no step writes a status that hides an attempt.        *)
LEMMA LeaseStep ==
    ASSUME TypeOK, WellFormed, LeaseRecorded, [Next]_vars
    PROVE  LeaseRecorded'
<1> USE DEF TypeOK, CallsOK, LedgerOK, WellFormed, LeaseRecorded, Leased, Attempted
<1>1. ASSUME NEW c \in Calls, Begin(c) \/ Lookup(c) \/ CancelSubmit(c) \/ Leave(c) PROVE LeaseRecorded'
  <2>1. UNCHANGED <<status, native, worker, hand>>
    BY <1>1, QuietSteps
  <2>2. \A d \in Calls : pc'[d] \in {"idle", "lookup", "insert"} =>
            pc[d] \in {"idle", "lookup", "insert"}
    BY <1>1 DEF Begin, Lookup, CancelSubmit, Leave
  <2> QED BY <2>1, <2>2
<1>2. ASSUME NEW c \in Calls, DeadlinePasses(c) PROVE LeaseRecorded'
    BY <1>2, QuietSteps DEF DeadlinePasses
<1>3. ASSUME NEW c \in Calls, Insert(c) PROVE LeaseRecorded'
    BY <1>3 DEF Insert, endpointVars
<1>4. ASSUME NEW c \in Calls, RouteCall(c) PROVE LeaseRecorded'
    BY <1>4 DEF RouteCall, NotDispatched, endpointVars, SetStatus
<1>5. ASSUME NEW c \in Calls, Enqueue(c) PROVE LeaseRecorded'
    BY <1>5 DEF Enqueue
<1>6. ASSUME NEW c \in Calls, ReserveFailed(c) PROVE LeaseRecorded'
    BY <1>6 DEF ReserveFailed, NotDispatched, endpointVars, SetStatus
<1>7. ASSUME NEW c \in Calls, DispatchExpires(c) PROVE LeaseRecorded'
    BY <1>7 DEF DispatchExpires, NotDispatched, endpointVars, callVars, SetStatus
<1>8. ASSUME NEW c \in Calls, ConfirmationTimesOut(c) PROVE LeaseRecorded'
    BY <1>8 DEF ConfirmationTimesOut, endpointVars, callVars, SetStatus
<1>9. ASSUME NEW g \in Gens, Receive(g) PROVE LeaseRecorded'
    BY <1>9 DEF Receive, callVars, ledgerVars, EndpointsOK
<1>10. ASSUME NEW g \in Gens, CheckDeadline(g) PROVE LeaseRecorded'
  <2>1. hand[g] \in Calls
    BY <1>10 DEF CheckDeadline, WorkersFormed
  <2>2. CASE clock[hand[g]] = 0
    BY <1>10, <2>1, <2>2 DEF CheckDeadline, callVars, EndpointsOK
  <2>3. CASE clock[hand[g]] > 0
    <3>1. UNCHANGED <<pc, native>>
      BY <1>10, <2>3 DEF CheckDeadline, callVars
    <3>2. NotDispatched(hand[g]) /\ Finish(g)
      BY <1>10, <2>3 DEF CheckDeadline
    <3>3. \A c \in Calls :
            status'[c] = status[c] \/ (status[c] = "Queued" /\ status'[c] = "NotDispatched")
      BY <2>1, <3>2 DEF NotDispatched, SetStatus
    <3>4. \A h \in Gens : worker'[h] \in Leased => h # g /\ worker[h] \in Leased /\ hand'[h] = hand[h]
      BY <3>2 DEF Finish, EndpointsOK
    <3> QED BY <3>1, <3>3, <3>4
  <2> QED
    <3>1. clock[hand[g]] = 0 \/ clock[hand[g]] > 0
      BY <1>10 DEF CheckDeadline
    <3> QED BY <2>2, <2>3, <3>1
<1>11. ASSUME NEW g \in Gens, BeginDispatch(g) PROVE LeaseRecorded'
  <2>1. hand[g] \in Calls
    BY <1>11 DEF BeginDispatch, WorkersFormed, SetStatus
  <2>2. CASE status[hand[g]] = "Queued"
    BY <1>11, <2>1, <2>2 DEF BeginDispatch, Finish, callVars, EndpointsOK, SetStatus
  <2>3. CASE status[hand[g]] # "Queued"
    <3>1. Finish(g) /\ UNCHANGED <<status, native, pc>>
      BY <1>11, <2>3 DEF BeginDispatch, callVars
    <3>2. \A h \in Gens : worker'[h] \in Leased => worker[h] \in Leased /\ hand'[h] = hand[h]
      BY <3>1 DEF Finish, EndpointsOK
    <3> QED BY <3>1, <3>2
  <2> QED BY <2>2, <2>3
<1>12. ASSUME NEW g \in Gens, Arm(g) PROVE LeaseRecorded'
    BY <1>12 DEF Arm, callVars, ledgerVars, EndpointsOK
<1>13. ASSUME NEW g \in Gens, NativeFailed(g) PROVE LeaseRecorded'
  <2>1. hand[g] \in native
    BY <1>13 DEF NativeFailed, OwesResult, SetStatus
  <2> QED BY <1>13, <2>1 DEF NativeFailed, Finish, callVars, EndpointsOK, SetStatus
<1>14. ASSUME NEW g \in Gens, NativeAccepted(g) PROVE LeaseRecorded'
  <2>1. hand[g] \in native
    BY <1>14 DEF NativeAccepted, SetStatus
  <2> QED BY <1>14, <2>1 DEF NativeAccepted, callVars, EndpointsOK, SetStatus
<1>15. ASSUME NEW g \in Gens, ReadBack(g) PROVE LeaseRecorded'
    BY <1>15 DEF ReadBack, Finish, callVars, ledgerVars, EndpointsOK
<1>16. ASSUME NEW g \in Gens, Settle(g) PROVE LeaseRecorded'
    BY <1>16 DEF Settle, Finish, callVars, ledgerVars, EndpointsOK
<1>17. ASSUME NEW g \in Gens, WorkerExit(g) PROVE LeaseRecorded'
    BY <1>17 DEF WorkerExit, callVars, ledgerVars, EndpointsOK
<1>18. ASSUME NEW k \in EndpointKeys, StartRun(k) PROVE LeaseRecorded'
    BY <1>18 DEF StartRun, callVars, ledgerVars, EndpointsOK
<1>19. ASSUME NEW k \in EndpointKeys, StopRun(k) \/ Observe(k) \/ MatchingCallback(k)
       PROVE  LeaseRecorded'
    BY <1>19, QuietSteps DEF StopRun, Observe, MatchingCallback, callVars
<1>20. CASE Commit \/ UNCHANGED vars
    BY <1>20, QuietSteps DEF Commit, vars, callVars
<1>21. CASE RecordOutcome
  <2>1. CASE Confirms(actor)
    <3> DEFINE d == actor.sub.by
    <3>1. d \in Calls /\ status[d] \in Attempted
      BY <1>21, <2>1 DEF RecordOutcome, Confirms, ProjectionsOK, Submission, SetStatus
    <3>2. /\ status' = [status EXCEPT ![d] = "Confirmed"]
          /\ UNCHANGED <<pc, native, worker, hand>>
      BY <1>21, <2>1 DEF RecordOutcome, callVars, endpointVars, SetStatus
    <3>3. \A c \in Calls : status'[c] = IF c = d THEN "Confirmed" ELSE status[c]
      BY <3>1, <3>2
    <3> HIDE DEF d
    <3> QED BY <3>1, <3>2, <3>3
  <2>2. CASE ~Confirms(actor)
    BY <1>21, <2>2 DEF RecordOutcome, callVars, endpointVars, SetStatus
  <2> QED BY <2>1, <2>2
<1> QED
    BY <1>1, <1>2, <1>3, <1>4, <1>5, <1>6, <1>7, <1>8, <1>9, <1>10, <1>11, <1>12, <1>13,
       <1>14, <1>15, <1>16, <1>17, <1>18, <1>19, <1>20, <1>21
       DEF Next, CallStep, TimerStep, WorkerStep, AdapterStep

(* The actor's pending outcome stays the commit it made, whatever else is   *)
(* committed: only the actor itself, which is serial, sets it.              *)
LEMMA ActorStep ==
    ASSUME TypeOK, ActorRecordsItsCommit, [Next]_vars
    PROVE  ActorRecordsItsCommit'
<1> USE DEF TypeOK, ProjectionsOK, ActorRecordsItsCommit
<1>1. CASE UNCHANGED <<actor, commits>>
    BY <1>1
<1>2. ASSUME NEW k \in EndpointKeys, Observe(k) PROVE ActorRecordsItsCommit'
    BY <1>2 DEF Observe
<1>3. CASE Commit
  <2>1. CASE actor' = [sub |-> Head(ingress), revision |-> 0]
    BY <2>1
  <2>2. CASE /\ commits' = Append(commits, Head(ingress).by)
             /\ actor' = [sub |-> Head(ingress), revision |-> Len(commits) + 1]
    BY <2>2
  <2> QED BY <1>3, <2>1, <2>2 DEF Commit
<1>4. CASE RecordOutcome
    BY <1>4 DEF RecordOutcome, SetStatus
<1>5. ASSUME NEW c \in Calls, CallStep(c) \/ TimerStep(c) PROVE UNCHANGED <<actor, commits>>
    BY <1>5 DEF CallStep, TimerStep, Begin, Lookup, Insert, RouteCall, Enqueue, ReserveFailed,
       CancelSubmit, Leave, DeadlinePasses, DispatchExpires, ConfirmationTimesOut, projectionVars, SetStatus
<1>6. ASSUME NEW g \in Gens, WorkerStep(g) PROVE UNCHANGED <<actor, commits>>
    BY <1>6 DEF WorkerStep, Receive, CheckDeadline, BeginDispatch, Arm, NativeFailed,
       NativeAccepted, ReadBack, Settle, WorkerExit, projectionVars, SetStatus
<1>7. ASSUME NEW k \in EndpointKeys, StartRun(k) \/ StopRun(k) \/ MatchingCallback(k)
      PROVE  UNCHANGED <<actor, commits>>
    BY <1>7 DEF StartRun, StopRun, MatchingCallback, projectionVars
<1>8. CASE UNCHANGED vars
    BY <1>8 DEF vars, projectionVars
<1> QED
    BY <1>1, <1>2, <1>3, <1>4, <1>5, <1>6, <1>7, <1>8 DEF Next, AdapterStep

(* A live endpoint stays the registered one of its key: a registration is   *)
(* refused while one is there, and a drop removes only its own generation.  *)
LEMMA EndpointStep ==
    ASSUME TypeOK, WellFormed, LiveEndpointIsRegistered, [Next]_vars
    PROVE  LiveEndpointIsRegistered'
<1> USE DEF TypeOK, EndpointsOK, LiveEndpointIsRegistered, Alive, WellFormed, WorkersFormed
<1>1. CASE /\ UNCHANGED <<slot, keyOf>>
           /\ \A g \in Gens : worker'[g] \notin {"none", "gone"} => Alive(g)
    BY <1>1
<1>2. ASSUME NEW c \in Calls, CallStep(c) \/ TimerStep(c) PROVE UNCHANGED <<slot, keyOf, worker>>
    BY <1>2 DEF CallStep, TimerStep, Begin, Lookup, Insert, RouteCall, Enqueue, ReserveFailed,
       CancelSubmit, Leave, DeadlinePasses, DispatchExpires, ConfirmationTimesOut, endpointVars, SetStatus
<1>3. ASSUME NEW g \in Gens, Receive(g) \/ Arm(g) \/ NativeAccepted(g)
      PROVE  /\ UNCHANGED <<slot, keyOf>>
             /\ \A h \in Gens : worker'[h] \notin {"none", "gone"} => Alive(h)
    BY <1>3 DEF Receive, Arm, NativeAccepted, ByCallback, SetStatus
<1>4. ASSUME NEW g \in Gens,
             CheckDeadline(g) \/ BeginDispatch(g) \/ NativeFailed(g) \/ ReadBack(g) \/ Settle(g)
      PROVE  /\ UNCHANGED <<slot, keyOf>>
             /\ \A h \in Gens : worker'[h] \notin {"none", "gone"} => Alive(h)
    BY <1>4 DEF CheckDeadline, BeginDispatch, NativeFailed, OwesResult, ReadBack, Settle, Finish, SetStatus
<1>5. ASSUME NEW g \in Gens, WorkerExit(g) PROVE LiveEndpointIsRegistered'
  <2>1. keyOf[g] \in Keys /\ keyOf' = keyOf
    BY <1>5, KeysOfEndpoints DEF WorkerExit
  <2>2. \A h \in Gens : worker'[h] \notin {"none", "gone"} =>
            h # g /\ Alive(h) /\ keyOf[h] \in Keys
    BY <1>5, KeysOfEndpoints DEF WorkerExit
  <2>3. \A h \in Gens : slot[keyOf[h]] = h /\ h # g /\ keyOf[h] \in Keys =>
            slot'[keyOf[h]] = h
    BY <1>5, <2>1 DEF WorkerExit
  <2> QED BY <2>1, <2>2, <2>3
<1>6. ASSUME NEW k \in EndpointKeys, StartRun(k) PROVE LiveEndpointIsRegistered'
  <2>1. k \in Keys /\ nextGen \in Gens
    BY <1>6, KeysOfEndpoints DEF StartRun, Gens
  <2>2. CASE slot[k] = 0
    <3>1. \A h \in Gens : worker'[h] = IF h = nextGen THEN "idle" ELSE worker[h]
      BY <1>6, <2>1, <2>2 DEF StartRun
    <3>2. \A h \in Gens : keyOf'[h] = IF h = nextGen THEN k ELSE keyOf[h]
      BY <1>6, <2>1, <2>2 DEF StartRun
    <3>3. \A j \in Keys : slot'[j] = IF j = k THEN nextGen ELSE slot[j]
      BY <1>6, <2>1, <2>2 DEF StartRun
    <3>4. \A h \in Gens : Alive(h) => keyOf[h] \in Keys /\ keyOf[h] # k
      BY <2>2, KeysOfEndpoints DEF Gens
    <3>5. slot'[keyOf'[nextGen]] = nextGen
      BY <2>1, <3>2, <3>3
    <3>6. ASSUME NEW h \in Gens, h # nextGen, worker'[h] \notin {"none", "gone"}
          PROVE  slot'[keyOf'[h]] = h
      <4>1. Alive(h) /\ keyOf'[h] = keyOf[h]
        BY <3>1, <3>2, <3>6
      <4>2. slot'[keyOf[h]] = slot[keyOf[h]]
        BY <3>3, <3>4, <4>1
      <4> QED BY <4>1, <4>2
    <3> QED BY <3>5, <3>6
  <2>3. CASE slot[k] # 0
    BY <1>6, <2>3 DEF StartRun
  <2> QED BY <2>2, <2>3
<1>7. ASSUME NEW k \in EndpointKeys, StopRun(k) \/ Observe(k) \/ MatchingCallback(k)
      PROVE  UNCHANGED <<slot, keyOf, worker>>
    BY <1>7 DEF StopRun, Observe, MatchingCallback, endpointVars
<1>8. CASE Commit \/ RecordOutcome \/ UNCHANGED vars
    BY <1>1, <1>8 DEF Commit, RecordOutcome, vars, endpointVars, SetStatus
<1> QED
    BY <1>1, <1>2, <1>3, <1>4, <1>5, <1>6, <1>7, <1>8 DEF Next, WorkerStep, AdapterStep

(* A correlation keeps leading to a call that has made its request, and a   *)
(* ticket to a command with the caller's own target and payload.            *)
LEMMA TicketStep ==
    ASSUME TypeOK, WellFormed, TicketsFormed, [Next]_vars
    PROVE  TicketsFormed'
<1> USE DEF TypeOK, CallsOK, LedgerOK, WellFormed, RequestsMade, TicketsFormed,
        CorrelationsHaveRequests, TicketMatchesRequest
<1>0. Nil \notin Request /\ Nil \notin Calls
    BY RuntimeAssumption
<1>1. ASSUME NEW c \in Calls, Begin(c) PROVE TicketsFormed'
  <2>1. /\ req[c] = Nil /\ req'[c] \in Request /\ ticket[c] = Nil
        /\ req[c] \notin Request
    BY <1>0, <1>1 DEF Begin
  <2>2. \A d \in Calls : d # c => req'[d] = req[d] /\ pc'[d] = pc[d]
    BY <1>1 DEF Begin
  <2>3. UNCHANGED <<ticket, correlated>>
    BY <1>1 DEF Begin, ledgerVars
  <2>4. \A d \in Calls : ticket[d] # Nil => ticket[d] \in Calls /\ ticket[d] # c /\ d # c
    BY <2>1
  <2>5. CorrelationsHaveRequests'
    BY <2>1, <2>2, <2>3
  <2>6. TicketMatchesRequest'
    BY <2>2, <2>3, <2>4
  <2>7. \A d \in Calls : pc'[d] \in {"idle", "lookup", "insert"} => ticket'[d] = Nil
    BY <2>1, <2>2, <2>3
  <2> QED BY <2>5, <2>6, <2>7
<1>2. ASSUME NEW c \in Calls, Lookup(c) PROVE TicketsFormed'
  <2>1. req[c].correlation \in Correlations /\ UNCHANGED <<req, correlated>>
    BY <1>2 DEF Lookup, ledgerVars
  <2> DEFINE prior == correlated[req[c].correlation]
  <2>2. CASE UNCHANGED ticket /\ (pc' = [pc EXCEPT ![c] = "insert"] \/ pc' = [pc EXCEPT ![c] = "conflict"])
    <3>1. \A d \in Calls : pc'[d] \in {"idle", "lookup", "insert"} => ticket[d] = Nil
      <4>1. pc[c] = "lookup"
        BY <1>2 DEF Lookup
      <4>2. \A d \in Calls : d # c => pc'[d] = pc[d]
        BY <2>2
      <4> QED BY <4>1, <4>2
    <3>2. UNCHANGED <<req, ticket, correlated>>
      BY <2>1, <2>2
    <3> QED BY <3>1, <3>2
  <2>3. CASE /\ prior # Nil
             /\ req[prior].target = req[c].target /\ req[prior].command = req[c].command
             /\ pc' = [pc EXCEPT ![c] = "returned"]
             /\ ticket' = [ticket EXCEPT ![c] = prior]
    <3>1. prior \in Calls /\ req[prior] # Nil
      BY <2>1, <2>3, <1>0
    <3>2. \A d \in Calls : ticket'[d] = IF d = c THEN prior ELSE ticket[d]
      BY <2>3
    <3>3. \A d \in Calls : pc'[d] = IF d = c THEN "returned" ELSE pc[d]
      BY <2>3
    <3> QED BY <2>1, <2>3, <3>1, <3>2, <3>3
  <2> QED BY <1>2, <2>2, <2>3 DEF Lookup
<1>3. ASSUME NEW c \in Calls, Insert(c) PROVE TicketsFormed'
  <2>1. req[c] \in Request /\ UNCHANGED req
    BY <1>3 DEF Insert
  <2>2. \A d \in Calls : ticket'[d] = IF d = c THEN c ELSE ticket[d]
    BY <1>3 DEF Insert
  <2>3. \A d \in Calls : pc'[d] = IF d = c THEN "route" ELSE pc[d]
    BY <1>3 DEF Insert
  <2>4. CorrelationsHaveRequests'
    BY <1>3, <2>1 DEF Insert
  <2> QED BY <1>0, <2>1, <2>2, <2>3, <2>4
<1>4. ASSUME NEW c \in Calls,
             \/ RouteCall(c) \/ Enqueue(c) \/ ReserveFailed(c) \/ CancelSubmit(c) \/ Leave(c)
             \/ DeadlinePasses(c) \/ DispatchExpires(c) \/ ConfirmationTimesOut(c)
      PROVE  /\ UNCHANGED <<req, ticket, correlated>>
             /\ \A d \in Calls : pc'[d] \in {"idle", "lookup", "insert"} => pc'[d] = pc[d]
    BY <1>4 DEF RouteCall, Enqueue, ReserveFailed, CancelSubmit, Leave, DeadlinePasses,
       DispatchExpires, ConfirmationTimesOut, ledgerVars, callVars, SetStatus
<1>5. ASSUME NEW g \in Gens, WorkerStep(g) PROVE UNCHANGED <<req, ticket, correlated, pc>>
    BY <1>5 DEF WorkerStep, Receive, CheckDeadline, BeginDispatch, Arm, NativeFailed,
       NativeAccepted, ReadBack, Settle, WorkerExit, callVars, ledgerVars, SetStatus
<1>6. ASSUME NEW k \in EndpointKeys, AdapterStep(k) PROVE UNCHANGED <<req, ticket, correlated, pc>>
    BY <1>6 DEF AdapterStep, StartRun, StopRun, Observe, MatchingCallback, callVars, ledgerVars
<1>7. CASE Commit \/ RecordOutcome \/ UNCHANGED vars
  <2>1. UNCHANGED <<req, ticket, correlated, pc>>
    BY <1>7 DEF Commit, RecordOutcome, vars, callVars, ledgerVars, SetStatus
  <2> QED BY <2>1
<1>8. CASE /\ UNCHANGED <<req, ticket, correlated>>
           /\ \A d \in Calls : pc'[d] \in {"idle", "lookup", "insert"} => pc'[d] = pc[d]
    BY <1>8
<1> QED
    BY <1>1, <1>2, <1>3, <1>4, <1>5, <1>6, <1>7, <1>8 DEF Next, CallStep, TimerStep

(* No step strands a command: whoever takes the submit call or a timer away *)
(* moves the status out of the state that needed it.                        *)
LEMMA WayOutStep ==
    ASSUME TypeOK, WellFormed, LeaseRecorded, AlwaysAWayOut, [Next]_vars
    PROVE  AlwaysAWayOut'
<1> USE DEF TypeOK, CallsOK, LedgerOK, AlwaysAWayOut
<1>1. ASSUME NEW c \in Calls, Begin(c) \/ Lookup(c) PROVE AlwaysAWayOut'
  <2>1. /\ UNCHANGED <<status, expiry, doubt>>
        /\ pc[c] \in {"idle", "lookup", "insert"}
        /\ \A d \in Calls : d # c => pc'[d] = pc[d]
    BY <1>1 DEF Begin, Lookup, ledgerVars
  <2>2. status[c] = "Absent"
    BY <2>1 DEF LeaseRecorded
  <2> QED BY <2>1, <2>2
<1>2. ASSUME NEW c \in Calls, Insert(c) PROVE AlwaysAWayOut'
    BY <1>2 DEF Insert
<1>3. ASSUME NEW c \in Calls, RouteCall(c) PROVE AlwaysAWayOut'
    BY <1>3 DEF RouteCall, NotDispatched, SetStatus
<1>4. ASSUME NEW c \in Calls, Enqueue(c) PROVE AlwaysAWayOut'
    BY <1>4 DEF Enqueue
<1>5. ASSUME NEW c \in Calls, ReserveFailed(c) PROVE AlwaysAWayOut'
    BY <1>5 DEF ReserveFailed, NotDispatched, SetStatus
<1>6. ASSUME NEW c \in Calls, CancelSubmit(c) \/ Leave(c) \/ DeadlinePasses(c) PROVE AlwaysAWayOut'
    BY <1>6 DEF CancelSubmit, Leave, DeadlinePasses, ledgerVars
<1>7. ASSUME NEW c \in Calls, DispatchExpires(c) PROVE AlwaysAWayOut'
    BY <1>7 DEF DispatchExpires, NotDispatched, callVars, SetStatus
<1>8. ASSUME NEW c \in Calls, ConfirmationTimesOut(c) PROVE AlwaysAWayOut'
    BY <1>8 DEF ConfirmationTimesOut, callVars, SetStatus
<1>9. ASSUME NEW g \in Gens, CheckDeadline(g) PROVE AlwaysAWayOut'
    BY <1>9 DEF CheckDeadline, NotDispatched, callVars, SetStatus
<1>10. ASSUME NEW g \in Gens, BeginDispatch(g) PROVE AlwaysAWayOut'
    BY <1>10 DEF BeginDispatch, callVars, SetStatus
<1>11. ASSUME NEW g \in Gens, NativeFailed(g) \/ NativeAccepted(g) PROVE AlwaysAWayOut'
    BY <1>11 DEF NativeFailed, NativeAccepted, callVars, SetStatus
<1>12. CASE RecordOutcome
    BY <1>12 DEF RecordOutcome, callVars, SetStatus
<1>13. CASE UNCHANGED <<pc, status, expiry, doubt>>
    BY <1>13
<1>14. ASSUME NEW g \in Gens, Receive(g) \/ Arm(g) \/ ReadBack(g) \/ Settle(g) \/ WorkerExit(g)
       PROVE  UNCHANGED <<pc, status, expiry, doubt>>
    BY <1>14 DEF Receive, Arm, ReadBack, Settle, WorkerExit, callVars, ledgerVars
<1>15. ASSUME NEW k \in EndpointKeys, AdapterStep(k) PROVE UNCHANGED <<pc, status, expiry, doubt>>
    BY <1>15 DEF AdapterStep, StartRun, StopRun, Observe, MatchingCallback, callVars, ledgerVars
<1>16. CASE Commit \/ UNCHANGED vars
    BY <1>13, <1>16 DEF Commit, vars, callVars, ledgerVars
<1> QED
    BY <1>1, <1>2, <1>3, <1>4, <1>5, <1>6, <1>7, <1>8, <1>9, <1>10, <1>11, <1>12, <1>13,
       <1>14, <1>15, <1>16 DEF Next, CallStep, TimerStep, WorkerStep

(* A status write reaches every submitter that watches: one that does is a  *)
(* receiver of the channel.                                                 *)
LEMMA SetStatusSyncs ==
    ASSUME TypeOK, LeaseRecorded, SeenInSync, NEW c \in Calls, NEW s \in CommandStatus,
           SetStatus(c, s), status[c] # "Absent",
           \A d \in Calls : Synced(d)' => Synced(d)
    PROVE  SeenInSync'
<1>1. SUFFICES ASSUME NEW d \in Calls, Synced(d) PROVE seen'[d] = status'[d]
    BY DEF SeenInSync
<1>2. CASE d = c
  <2>1. Watched(c)
    BY <1>1, <1>2 DEF Synced, LeaseRecorded, Watched
  <2> QED BY <1>2, <2>1 DEF SetStatus, TypeOK, LedgerOK
<1>3. CASE d # c
    BY <1>1, <1>3 DEF SeenInSync, SetStatus, TypeOK, LedgerOK
<1> QED BY <1>2, <1>3

(* No transition is lost to a submitter that still holds its ticket.        *)
LEMMA SeenStep ==
    ASSUME TypeOK, WellFormed, LeaseRecorded, SeenInSync, [Next]_vars
    PROVE  SeenInSync'
<1> USE DEF TypeOK, CallsOK, LedgerOK
<1> DEFINE Narrows == \A d \in Calls : Synced(d)' => Synced(d)
<1>1. CASE UNCHANGED <<status, seen>> /\ Narrows
    BY <1>1 DEF SeenInSync
<1>2. ASSUME NEW c \in Calls, NotDispatched(c), Narrows PROVE SeenInSync'
    BY <1>1, <1>2, SetStatusSyncs DEF NotDispatched, CommandStatus
<1>3. ASSUME UNCHANGED <<pc, ticket>> PROVE Narrows
    BY <1>3 DEF Synced
<1>4. ASSUME NEW c \in Calls, Begin(c) \/ Lookup(c) PROVE SeenInSync'
  <2>1. /\ UNCHANGED <<status, seen>> /\ seen[c] = status[c]
        /\ \A d \in Calls : d # c => pc'[d] = pc[d] /\ ticket'[d] = ticket[d]
    BY <1>4 DEF Begin, Lookup, ledgerVars, SeenInSync, Synced
  <2> QED BY <2>1 DEF SeenInSync, Synced
<1>5. ASSUME NEW c \in Calls, Insert(c) PROVE SeenInSync'
  <2>1. /\ status' = [status EXCEPT ![c] = "Queued"] /\ seen' = [seen EXCEPT ![c] = "Queued"]
        /\ \A d \in Calls : d # c => pc'[d] = pc[d] /\ ticket'[d] = ticket[d]
    BY <1>5 DEF Insert
  <2> QED BY <2>1 DEF SeenInSync, Synced
<1>6. ASSUME NEW c \in Calls, Enqueue(c) \/ CancelSubmit(c) \/ Leave(c) \/ DeadlinePasses(c)
      PROVE  SeenInSync'
  <2>1. UNCHANGED <<status, seen, ticket>>
    BY <1>6 DEF Enqueue, CancelSubmit, Leave, DeadlinePasses, ledgerVars
  <2>2. Narrows
    BY <1>6, <2>1 DEF Enqueue, CancelSubmit, Leave, DeadlinePasses, Synced
  <2> QED BY <1>1, <2>1, <2>2
<1>7. ASSUME NEW c \in Calls, RouteCall(c) PROVE SeenInSync'
  <2>1. Narrows
    BY <1>7 DEF RouteCall, Synced
  <2> QED BY <1>1, <1>2, <1>7, <2>1 DEF RouteCall
<1>8. ASSUME NEW c \in Calls, ReserveFailed(c) PROVE SeenInSync'
  <2>1. Narrows
    BY <1>8 DEF ReserveFailed, Synced
  <2> QED BY <1>2, <1>8, <2>1 DEF ReserveFailed
<1>9. ASSUME NEW c \in Calls, DispatchExpires(c) PROVE SeenInSync'
    BY <1>2, <1>3, <1>9 DEF DispatchExpires, callVars
<1>10. ASSUME NEW c \in Calls, ConfirmationTimesOut(c) PROVE SeenInSync'
  <2>1. Narrows
    BY <1>3, <1>10 DEF ConfirmationTimesOut, callVars
  <2> QED BY <1>1, <1>10, <2>1, SetStatusSyncs DEF ConfirmationTimesOut, CommandStatus
<1>11. ASSUME NEW g \in Gens, WorkerStep(g) PROVE SeenInSync'
  <2>1. Narrows
    BY <1>3, <1>11 DEF WorkerStep, Receive, CheckDeadline, BeginDispatch, Arm, NativeFailed,
       NativeAccepted, ReadBack, Settle, WorkerExit, callVars
  <2>2. CASE CheckDeadline(g)
    <3>1. hand[g] \in Calls
      BY <2>2 DEF CheckDeadline, WellFormed, WorkersFormed
    <3> QED BY <1>1, <1>2, <2>1, <2>2, <3>1 DEF CheckDeadline
  <2>3. CASE BeginDispatch(g)
    <3>1. hand[g] \in Calls
      BY <2>3 DEF BeginDispatch, WellFormed, WorkersFormed
    <3> QED BY <1>1, <2>1, <2>3, <3>1, SetStatusSyncs DEF BeginDispatch, CommandStatus
  <2>4. CASE NativeFailed(g) \/ NativeAccepted(g)
    <3>1. hand[g] \in Calls /\ status[hand[g]] # "Absent"
      BY <2>4 DEF NativeFailed, NativeAccepted, OwesResult, LeaseRecorded, Leased, Attempted
    <3>2. \/ SetStatus(hand[g], "Failed") \/ SetStatus(hand[g], "AwaitingProjection")
          \/ UNCHANGED <<status, seen>>
      BY <2>4 DEF NativeFailed, NativeAccepted
    <3> QED BY <1>1, <2>1, <3>1, <3>2, SetStatusSyncs DEF CommandStatus
  <2>5. CASE Receive(g) \/ Arm(g) \/ ReadBack(g) \/ Settle(g) \/ WorkerExit(g)
    BY <1>1, <2>1, <2>5 DEF Receive, Arm, ReadBack, Settle, WorkerExit, ledgerVars
  <2> QED BY <1>11, <2>2, <2>3, <2>4, <2>5 DEF WorkerStep
<1>12. ASSUME NEW k \in EndpointKeys, AdapterStep(k) PROVE SeenInSync'
  <2>1. UNCHANGED <<status, seen, pc, ticket>>
    BY <1>12 DEF AdapterStep, StartRun, StopRun, Observe, MatchingCallback, callVars, ledgerVars
  <2> QED BY <1>1, <1>3, <2>1
<1>13. CASE RecordOutcome
  <2>1. Narrows
    BY <1>3, <1>13 DEF RecordOutcome, callVars
  <2>2. CASE Confirms(actor)
    <3>1. actor.sub.by \in Calls /\ status[actor.sub.by] # "Absent"
      BY <1>13, <2>2 DEF RecordOutcome, Confirms, ProjectionsOK, Submission
    <3> QED BY <1>13, <2>1, <2>2, <3>1, SetStatusSyncs DEF RecordOutcome, CommandStatus
  <2>3. CASE ~Confirms(actor)
    BY <1>1, <1>13, <2>1, <2>3 DEF RecordOutcome
  <2> QED BY <2>2, <2>3
<1>14. CASE Commit \/ UNCHANGED vars
  <2>1. UNCHANGED <<status, seen, pc, ticket>>
    BY <1>14 DEF Commit, vars, callVars, ledgerVars
  <2> QED BY <1>1, <1>3, <2>1
<1> QED
    BY <1>4, <1>5, <1>6, <1>7, <1>8, <1>9, <1>10, <1>11, <1>12, <1>13, <1>14
       DEF Next, CallStep, TimerStep

(* A confirmation keeps naming its own commit: only RecordOutcome writes    *)
(* one, from the commit the actor made, and commits are never rewritten.    *)
LEMMA ConfirmedStep ==
    ASSUME TypeOK, WellFormed, LeaseRecorded, ActorRecordsItsCommit,
           ConfirmedByItsOwnCommit, [Next]_vars
    PROVE  ConfirmedByItsOwnCommit'
<1> USE DEF TypeOK, LedgerOK, ProjectionsOK
<1> DEFINE Named(c) == rev[c] \in 1 .. Len(commits) /\ commits[rev[c]] = c
<1>1. LeaseRecorded'
    BY LeaseStep
<1>2. native' \subseteq Calls
    BY TypeStep DEF LedgerOK
<1>3. SUFFICES ASSUME NEW c \in Calls, status'[c] = "Confirmed" PROVE Named(c)'
    BY <1>1 DEF ConfirmedByItsOwnCommit, LeaseRecorded, Attempted
<1>4. CASE status[c] = "Confirmed" /\ rev'[c] = rev[c]
           /\ (commits' = commits \/ \E x \in Calls \cup {Nil} : commits' = Append(commits, x))
    BY <1>4 DEF ConfirmedByItsOwnCommit
<1>5. ASSUME NEW d \in Calls, CallStep(d) \/ TimerStep(d) PROVE Named(c)'
  <2>1. commits' = commits /\ rev' = rev
    BY <1>5 DEF CallStep, TimerStep, Begin, Lookup, Insert, RouteCall, Enqueue, ReserveFailed,
       CancelSubmit, Leave, DeadlinePasses, DispatchExpires, ConfirmationTimesOut, projectionVars,
       ledgerVars, SetStatus
  <2>2. status[c] = "Confirmed"
    BY <1>3, <1>5 DEF CallStep, TimerStep, Begin, Lookup, Insert, RouteCall, Enqueue,
       ReserveFailed, CancelSubmit, Leave, DeadlinePasses, DispatchExpires, ConfirmationTimesOut,
       NotDispatched, ledgerVars, SetStatus
  <2> QED BY <1>4, <2>1, <2>2
<1>6. ASSUME NEW g \in Gens, WorkerStep(g) PROVE Named(c)'
  <2>1. commits' = commits
    BY <1>6 DEF WorkerStep, Receive, CheckDeadline, BeginDispatch, Arm, NativeFailed,
       NativeAccepted, ReadBack, Settle, WorkerExit, projectionVars, SetStatus
  <2>2. CASE NativeFailed(g)
    BY <1>3, <1>4, <2>1, <2>2 DEF NativeFailed, SetStatus
  <2>3. CASE CheckDeadline(g) \/ BeginDispatch(g) \/ NativeAccepted(g)
    BY <1>3, <1>4, <2>1, <2>3 DEF CheckDeadline, NotDispatched, BeginDispatch, NativeAccepted, SetStatus
  <2>4. CASE Receive(g) \/ Arm(g) \/ ReadBack(g) \/ Settle(g) \/ WorkerExit(g)
    BY <1>3, <1>4, <2>1, <2>4 DEF Receive, Arm, ReadBack, Settle, WorkerExit, ledgerVars
  <2> QED BY <1>6, <2>2, <2>3, <2>4 DEF WorkerStep
<1>7. ASSUME NEW k \in EndpointKeys, AdapterStep(k) PROVE Named(c)'
  <2>1. status' = status /\ rev' = rev
    BY <1>7 DEF AdapterStep, StartRun, StopRun, Observe, MatchingCallback, ledgerVars
  <2>2. commits' = commits \/ commits' = Append(commits, Nil)
    BY <1>7 DEF AdapterStep, StartRun, StopRun, Observe, MatchingCallback, projectionVars
  <2> QED BY <1>3, <1>4, <2>1, <2>2
<1>8. CASE Commit
  <2>1. Head(ingress).by \in Calls \cup {Nil}
    <3>1. Head(ingress) \in Submission
      BY <1>8 DEF Commit
    <3> QED BY <3>1 DEF Submission
  <2>2. commits' = commits \/ commits' = Append(commits, Head(ingress).by)
    BY <1>8 DEF Commit
  <2> QED BY <1>3, <1>4, <1>8, <2>1, <2>2 DEF Commit, ledgerVars
<1>9. CASE RecordOutcome
  <2>1. CASE status[c] = "Confirmed"
    <3>1. Confirms(actor) => actor.sub.by # c
      BY <2>1 DEF Confirms
    <3>2. rev'[c] = rev[c] /\ commits' = commits
      BY <1>9, <3>1 DEF RecordOutcome, SetStatus
    <3> QED BY <1>4, <2>1, <3>2
  <2>2. CASE status[c] # "Confirmed"
    <3>1. Confirms(actor) /\ actor.sub.by = c
      BY <1>3, <1>9, <2>2 DEF RecordOutcome, SetStatus
    <3>2. rev'[c] = actor.revision /\ commits' = commits
      BY <1>9, <3>1 DEF RecordOutcome, SetStatus
    <3>3. actor # Nil /\ actor.revision # 0
      BY <1>9, <3>1 DEF RecordOutcome, Confirms, SetStatus
    <3> QED BY <3>1, <3>2, <3>3 DEF ActorRecordsItsCommit
  <2> QED BY <2>1, <2>2
<1>10. CASE UNCHANGED vars
    BY <1>3, <1>4, <1>10 DEF vars, ledgerVars, projectionVars
<1> QED
    BY <1>5, <1>6, <1>7, <1>8, <1>9, <1>10 DEF Next

(* All of the strengthening holds at the start.                             *)
LEMMA InitInductive ==
    ASSUME Init
    PROVE  Inductive
<1>1. TypeOK
    BY RuntimeAssumption DEF Init, TypeOK, CallsOK, LedgerOK, EndpointsOK, ProjectionsOK,
       CallPhase, CommandStatus, WorkerPhase
<1>2. WellFormed
    BY DEF Init, WellFormed, RequestsMade, WorkersFormed
<1>3. LeaseRecorded /\ ActorRecordsItsCommit /\ LiveEndpointIsRegistered
    BY DEF Init, LeaseRecorded, ActorRecordsItsCommit, LiveEndpointIsRegistered, Alive, Leased,
       Attempted
<1>4. TicketsFormed
    BY DEF Init, TicketsFormed, CorrelationsHaveRequests, TicketMatchesRequest
<1>5. SeenInSync /\ AlwaysAWayOut /\ ConfirmedByItsOwnCommit
    BY DEF Init, SeenInSync, AlwaysAWayOut, ConfirmedByItsOwnCommit
<1> QED BY <1>1, <1>2, <1>3, <1>4, <1>5 DEF Inductive, Promises

(* The inductive invariant holds in every state that the runtime reaches.   *)
LEMMA AlwaysInductive == Spec => []Inductive
<1>1. Init => Inductive
    BY InitInductive
<1>2. Inductive /\ [Next]_vars => Inductive'
    BY TypeStep, LeaseStep, ActorStep, EndpointStep, TicketStep, WayOutStep,
       SeenStep, ConfirmedStep
       DEF Inductive, Promises
<1> QED BY <1>1, <1>2, PTL DEF Spec

(* Every variable keeps its type, for every value of the constants.         *)
THEOREM TypeCorrect == Spec => []TypeOK
<1>1. Inductive => TypeOK
    BY DEF Inductive
<1> QED BY <1>1, AlwaysInductive, PTL

(* A caller that reads NotDispatched may retry under a new command: no      *)
(* worker has attempted the old one or holds its lease, whichever of the    *)
(* expiry task, the deadline gate or a dropped endpoint refused it.         *)
THEOREM RefusalIsUntouched == Spec => []NotDispatchedMeansUntouched
<1>1. Inductive => NotDispatchedMeansUntouched
    BY DEF Inductive, LeaseRecorded, NotDispatchedMeansUntouched, Attempted, TypeOK, LedgerOK
<1> QED BY <1>1, AlwaysInductive, PTL

(* A Confirmed status carries the revision of a commit that names the very  *)
(* command, and the command was attempted.                                  *)
THEOREM ConfirmationIsOwn == Spec => []ConfirmedByItsOwnCommit
<1>1. Inductive => ConfirmedByItsOwnCommit
    BY DEF Inductive, Promises
<1> QED BY <1>1, AlwaysInductive, PTL

(* Two workers never do native I/O for one key, through any number of       *)
(* starts and stops of the adapter: the slot of the key names one of them.  *)
THEOREM SingleWriter == Spec => []OneWriterPerKey
<1>1. Inductive => OneWriterPerKey
    BY DEF Inductive, LiveEndpointIsRegistered, OneWriterPerKey, Alive, Leased
<1> QED BY <1>1, AlwaysInductive, PTL

(* A Queued command has its submit call or its expiry task, and a started   *)
(* one its confirmation task, except after a dropped submit future.         *)
THEOREM NoDeadEnd == Spec => []AlwaysAWayOut
<1>1. Inductive => AlwaysAWayOut
    BY DEF Inductive, Promises
<1> QED BY <1>1, AlwaysInductive, PTL

(* A caller that submitted a command and holds its ticket sees every        *)
(* transition of the status: the lost wake-up needs a second subscriber.    *)
THEOREM SubmitterInSync == Spec => []SubmitterSeesStatus
<1>1. Inductive => SubmitterSeesStatus
    BY DEF Inductive, Promises, SeenInSync, Synced, SubmitterSeesStatus
<1> QED BY <1>1, AlwaysInductive, PTL

(* A correlation never leads a caller to somebody else's operation.         *)
THEOREM TicketsMatch == Spec => []TicketMatchesRequest
<1>1. Inductive => TicketMatchesRequest
    BY DEF Inductive, Promises, TicketsFormed
<1> QED BY <1>1, AlwaysInductive, PTL

(* A step that writes one status moves one entry of the ledger.             *)
LEMMA OneEntryMoves ==
    ASSUME TypeOK, NEW c \in Calls, NEW s \in CommandStatus, status' = [status EXCEPT ![c] = s]
    PROVE  [d \in Calls |-> LifeOf(status'[d])]
               = [[d \in Calls |-> LifeOf(status[d])] EXCEPT ![c] = LifeOf(s)]
BY DEF TypeOK, LedgerOK

LEMMA LedgerQuiet ==
    ASSUME UNCHANGED <<status, native>>
    PROVE  UNCHANGED Ledger!vars
BY DEF Ledger!vars

(* Refusing a command that is still Queued, or leaving it alone.            *)
LEMMA RefusalRefines ==
    ASSUME TypeOK, NEW c \in Calls, NotDispatched(c), native' = native
    PROVE  [Ledger!Next]_(Ledger!vars)
<1>1. CASE status[c] = "Queued"
  <2>1. status' = [status EXCEPT ![c] = "NotDispatched"]
    BY <1>1 DEF NotDispatched, SetStatus
  <2>2. [d \in Calls |-> LifeOf(status'[d])]
            = [[d \in Calls |-> LifeOf(status[d])] EXCEPT ![c] = LifeOf("NotDispatched")]
    BY <2>1, OneEntryMoves DEF CommandStatus
  <2>3. Ledger!Refuse(c)
    BY <1>1, <2>2 DEF Ledger!Refuse, Ledger!Move, LifeOf
  <2> QED BY <2>3 DEF Ledger!Next
<1>2. CASE status[c] # "Queued"
    BY <1>2, LedgerQuiet DEF NotDispatched, SetStatus
<1> QED BY <1>1, <1>2

(* Every step of the runtime is a step of the ledger, or leaves it alone.   *)
LEMMA StepRefines ==
    ASSUME Inductive, [Next]_vars
    PROVE  [Ledger!Next]_(Ledger!vars)
<1> USE DEF Inductive
<1>1. CASE UNCHANGED <<status, native>>
    BY <1>1, LedgerQuiet
<1>2. ASSUME NEW c \in Calls,
             Begin(c) \/ Lookup(c) \/ Enqueue(c) \/ CancelSubmit(c) \/ Leave(c) \/ DeadlinePasses(c)
      PROVE  UNCHANGED <<status, native>>
    BY <1>2 DEF Begin, Lookup, Enqueue, CancelSubmit, Leave, DeadlinePasses, ledgerVars
<1>3. ASSUME NEW c \in Calls, Insert(c) PROVE [Ledger!Next]_(Ledger!vars)
  <2>1. status[c] = "Absent" /\ native' = native
    BY <1>3 DEF Insert, LeaseRecorded
  <2>2. [d \in Calls |-> LifeOf(status'[d])]
            = [[d \in Calls |-> LifeOf(status[d])] EXCEPT ![c] = LifeOf("Queued")]
    BY <1>3, OneEntryMoves DEF Insert, CommandStatus
  <2>3. Ledger!Admit(c)
    BY <2>1, <2>2 DEF Ledger!Admit, Ledger!Move, LifeOf
  <2> QED BY <2>3 DEF Ledger!Next
<1>4. ASSUME NEW c \in Calls, RouteCall(c) \/ ReserveFailed(c) \/ DispatchExpires(c)
      PROVE  [Ledger!Next]_(Ledger!vars)
  <2>1. native' = native /\ (status' = status \/ NotDispatched(c))
    BY <1>4 DEF RouteCall, ReserveFailed, DispatchExpires
  <2> QED BY <1>1, <2>1, RefusalRefines
<1>5. ASSUME NEW c \in Calls, ConfirmationTimesOut(c) PROVE [Ledger!Next]_(Ledger!vars)
  <2>1. CASE status[c] \in {"Dispatched", "AwaitingProjection"}
    <3>1. status' = [status EXCEPT ![c] = "Indeterminate"] /\ native' = native
      BY <1>5, <2>1 DEF ConfirmationTimesOut, SetStatus
    <3>2. [d \in Calls |-> LifeOf(status'[d])]
              = [[d \in Calls |-> LifeOf(status[d])] EXCEPT ![c] = LifeOf("Indeterminate")]
      BY <3>1, OneEntryMoves DEF CommandStatus
    <3>3. Ledger!Doubt(c)
      BY <2>1, <3>1, <3>2 DEF Ledger!Doubt, Ledger!Move, LifeOf
    <3> QED BY <3>3 DEF Ledger!Next
  <2>2. CASE status[c] \notin {"Dispatched", "AwaitingProjection"}
    BY <1>1, <1>5, <2>2 DEF ConfirmationTimesOut, SetStatus
  <2> QED BY <2>1, <2>2
<1>6. ASSUME NEW g \in Gens, CheckDeadline(g) PROVE [Ledger!Next]_(Ledger!vars)
  <2>1. hand[g] \in Calls
    BY <1>6 DEF CheckDeadline, WellFormed, WorkersFormed
  <2>2. native' = native /\ (status' = status \/ NotDispatched(hand[g]))
    BY <1>6 DEF CheckDeadline
  <2> QED BY <1>1, <2>1, <2>2, RefusalRefines
<1>7. ASSUME NEW g \in Gens, BeginDispatch(g) PROVE [Ledger!Next]_(Ledger!vars)
  <2> DEFINE c == hand[g]
  <2>1. CASE status[c] = "Queued"
    <3>1. c \in Calls /\ c \notin native
      BY <1>7, <2>1 DEF BeginDispatch, WellFormed, WorkersFormed, LeaseRecorded, Attempted, SetStatus
    <3>2. status' = [status EXCEPT ![c] = "Dispatched"] /\ native' = native \cup {c}
      BY <1>7, <2>1 DEF BeginDispatch, SetStatus
    <3>3. [d \in Calls |-> LifeOf(status'[d])]
              = [[d \in Calls |-> LifeOf(status[d])] EXCEPT ![c] = LifeOf("Dispatched")]
      BY <3>1, <3>2, OneEntryMoves DEF CommandStatus
    <3> HIDE DEF c
    <3>4. Ledger!Start(c)
      BY <2>1, <3>1, <3>2, <3>3 DEF Ledger!Start, Ledger!Move, LifeOf
    <3> QED BY <3>1, <3>4 DEF Ledger!Next
  <2>2. CASE status[c] # "Queued"
    BY <1>1, <1>7, <2>2 DEF BeginDispatch, SetStatus
  <2> QED BY <2>1, <2>2
<1>8. ASSUME NEW g \in Gens, NativeFailed(g) PROVE [Ledger!Next]_(Ledger!vars)
  <2> DEFINE c == hand[g]
  <2>1. c \in Calls /\ status[c] \in Attempted
    BY <1>8 DEF NativeFailed, OwesResult, LeaseRecorded, Leased, TypeOK, LedgerOK, SetStatus
  <2>2. status' = [status EXCEPT ![c] = "Failed"] /\ native' = native
    BY <1>8 DEF NativeFailed, SetStatus
  <2>3. [d \in Calls |-> LifeOf(status'[d])]
            = [[d \in Calls |-> LifeOf(status[d])] EXCEPT ![c] = LifeOf("Failed")]
    BY <2>1, <2>2, OneEntryMoves DEF CommandStatus
  <2> HIDE DEF c
  <2>4. CASE status[c] = "Failed"
    <3>1. status' = status
      BY <2>2, <2>4 DEF TypeOK, LedgerOK
    <3> QED BY <1>1, <2>2, <3>1
  <2>5. CASE status[c] # "Failed"
    <3>1. Ledger!Fail(c)
      BY <2>1, <2>2, <2>3, <2>5 DEF Ledger!Fail, Ledger!Move, LifeOf, Attempted
    <3> QED BY <2>1, <3>1 DEF Ledger!Next
  <2> QED BY <2>4, <2>5
<1>9. ASSUME NEW g \in Gens, NativeAccepted(g) PROVE UNCHANGED Ledger!vars
  <2>1. CASE status[hand[g]] = "Dispatched"
    <3>1. native' = native /\ status' = [status EXCEPT ![hand[g]] = "AwaitingProjection"]
      BY <1>9, <2>1 DEF NativeAccepted, SetStatus
    <3>2. \A d \in Calls : LifeOf(status'[d]) = LifeOf(status[d])
      BY <2>1, <3>1 DEF LifeOf, TypeOK, LedgerOK
    <3> QED BY <3>1, <3>2 DEF Ledger!vars
  <2>2. CASE status[hand[g]] # "Dispatched"
    BY <1>9, <2>2, LedgerQuiet DEF NativeAccepted, SetStatus
  <2> QED BY <2>1, <2>2
<1>10. ASSUME NEW g \in Gens, Receive(g) \/ Arm(g) \/ ReadBack(g) \/ Settle(g) \/ WorkerExit(g)
       PROVE  UNCHANGED <<status, native>>
    BY <1>10 DEF Receive, Arm, ReadBack, Settle, WorkerExit, ledgerVars
<1>11. ASSUME NEW k \in EndpointKeys, AdapterStep(k) PROVE UNCHANGED <<status, native>>
    BY <1>11 DEF AdapterStep, StartRun, StopRun, Observe, MatchingCallback, ledgerVars
<1>12. CASE RecordOutcome
  <2> DEFINE c == actor.sub.by
  <2>1. CASE Confirms(actor)
    <3>1. c \in Calls /\ status[c] \in {"AwaitingProjection", "Dispatched", "Indeterminate"}
      BY <1>12, <2>1 DEF RecordOutcome, Confirms, TypeOK, ProjectionsOK, Submission, SetStatus
    <3>2. status' = [status EXCEPT ![c] = "Confirmed"] /\ native' = native
      BY <1>12, <2>1 DEF RecordOutcome, SetStatus
    <3>3. [d \in Calls |-> LifeOf(status'[d])]
              = [[d \in Calls |-> LifeOf(status[d])] EXCEPT ![c] = LifeOf("Confirmed")]
      BY <3>1, <3>2, OneEntryMoves DEF CommandStatus
    <3> HIDE DEF c
    <3>4. Ledger!Confirm(c)
      BY <3>1, <3>2, <3>3 DEF Ledger!Confirm, Ledger!Move, LifeOf
    <3> QED BY <3>1, <3>4 DEF Ledger!Next
  <2>2. CASE ~Confirms(actor)
    BY <1>1, <1>12, <2>2 DEF RecordOutcome, SetStatus
  <2> QED BY <2>1, <2>2
<1>13. CASE Commit \/ UNCHANGED vars
    BY <1>1, <1>13 DEF Commit, vars, ledgerVars
<1> QED
    BY <1>1, <1>2, <1>3, <1>4, <1>5, <1>6, <1>7, <1>8, <1>9, <1>10, <1>11, <1>12, <1>13
       DEF Next, CallStep, TimerStep, WorkerStep

(* The runtime implements the ledger that CommandLedger promises a caller:  *)
(* no refusal after an attempt, one attempt per command, no confirmation    *)
(* without one.                                                             *)
THEOREM RuntimeImplementsLedger == Spec => ImplementsLedger
<1>1. Init => Ledger!Init
    BY DEF Init, Ledger!Init, LifeOf
<1>2. Inductive /\ [Next]_vars => [Ledger!Next]_(Ledger!vars)
    BY StepRefines
<1> QED BY <1>1, <1>2, AlwaysInductive, PTL DEF Spec, ImplementsLedger, Ledger!Spec
-----------------------------------------------------------------------------
(* Who nominates a command, and when.  The invariants below are inductive   *)
(* relative to Inductive.                                                   *)

(* The endpoint g is one that the command c is routed to.                   *)
RoutedTo(g, c) ==
    /\ g < nextGen /\ req[c] \in Request
    /\ keyOf[g] \in {req[c].target, SourceOf[req[c].target]}

(* Work only ever reaches an endpoint of its own target.                    *)
WorkIsRouted ==
    /\ \A k \in Keys : slot[k] # 0 => slot[k] < nextGen /\ keyOf[slot[k]] = k
    /\ \A c \in Calls : pc[c] = "reserve" => RoutedTo(routed[c], c)
    /\ \A g \in Gens : \A i \in 1 .. Len(queue[g]) : RoutedTo(g, queue[g][i])
    /\ \A g \in Gens : hand[g] # Nil => RoutedTo(g, hand[g])

(* A command is nominated after its lease, and one worker has its lease.    *)
LeasesNominate ==
    /\ \A k \in Keys : armed[k] # Nil => armed[k] \in native
    /\ \A c \in Calls : InFlight(c) => c \in native
    /\ \A g, h \in Gens :
          worker[g] \in Leased /\ worker[h] \in Leased /\ hand[g] = hand[h] => g = h

(* While its worker may still fail a command that no callback confirms,     *)
(* nobody has nominated the command, and nothing has ended it.              *)
FailureComesFirst ==
    \A g \in Gens : OwesResult(g) /\ ~ByCallback(g) =>
        /\ status[hand[g]] \notin Final /\ ~InFlight(hand[g])
        /\ \A k \in Keys : armed[k] # hand[g]

Nominations == WorkIsRouted /\ LeasesNominate /\ FailureComesFirst

(* An endpoint keeps the key it was registered under.                       *)
LEMMA KeysStay ==
    ASSUME TypeOK, WellFormed, [Next]_vars, NEW g \in Gens, g < nextGen
    PROVE  keyOf'[g] = keyOf[g] /\ g < nextGen'
<1>1. CASE UNCHANGED <<nextGen, keyOf>>
    BY <1>1
<1>2. ASSUME NEW k \in EndpointKeys, StartRun(k) PROVE keyOf'[g] = keyOf[g] /\ g < nextGen'
  <2>1. /\ nextGen' = nextGen + 1 /\ nextGen \in Nat
        /\ keyOf' = keyOf \/ keyOf' = [keyOf EXCEPT ![nextGen] = k]
    BY <1>2, RuntimeAssumption DEF StartRun, TypeOK, EndpointsOK
  <2>2. g \in Nat
    BY RuntimeAssumption DEF Gens
  <2> QED BY <2>1, <2>2 DEF TypeOK, EndpointsOK
<1>3. ASSUME NEW d \in Calls, CallStep(d) \/ TimerStep(d) PROVE UNCHANGED <<nextGen, keyOf>>
    BY <1>3 DEF CallStep, TimerStep, Begin, Lookup, Insert, RouteCall, Enqueue, ReserveFailed,
       CancelSubmit, Leave, DeadlinePasses, DispatchExpires, ConfirmationTimesOut, endpointVars
<1>4. ASSUME NEW h \in Gens, WorkerStep(h) PROVE UNCHANGED <<nextGen, keyOf>>
    BY <1>4 DEF WorkerStep, Receive, CheckDeadline, BeginDispatch, Arm, NativeFailed,
       NativeAccepted, ReadBack, Settle, WorkerExit
<1>5. ASSUME NEW k \in EndpointKeys, AdapterStep(k), ~StartRun(k) PROVE UNCHANGED <<nextGen, keyOf>>
    BY <1>5 DEF AdapterStep, StopRun, Observe, MatchingCallback, endpointVars
<1>6. CASE Commit \/ RecordOutcome \/ UNCHANGED vars
    BY <1>1, <1>6 DEF Commit, RecordOutcome, vars, endpointVars
<1> QED BY <1>1, <1>2, <1>3, <1>4, <1>5, <1>6 DEF Next

(* A request, once made, stays as it is.                                    *)
LEMMA RequestsStay ==
    ASSUME TypeOK, WellFormed, [Next]_vars, NEW c \in Calls, req[c] \in Request
    PROVE  req'[c] = req[c]
<1>1. ASSUME NEW d \in Calls, Begin(d) PROVE req'[c] = req[c]
  <2>1. d # c
    BY <1>1, RuntimeAssumption DEF Begin, WellFormed, RequestsMade
  <2> QED BY <1>1, <2>1 DEF Begin, TypeOK, CallsOK
<1>2. ASSUME NEW d \in Calls, CallStep(d) \/ TimerStep(d), ~Begin(d) PROVE req' = req
    BY <1>2 DEF CallStep, TimerStep, Lookup, Insert, RouteCall, Enqueue, ReserveFailed,
       CancelSubmit, Leave, DeadlinePasses, DispatchExpires, ConfirmationTimesOut, callVars
<1>3. ASSUME NEW h \in Gens, WorkerStep(h) PROVE req' = req
    BY <1>3 DEF WorkerStep, Receive, CheckDeadline, BeginDispatch, Arm, NativeFailed,
       NativeAccepted, ReadBack, Settle, WorkerExit, callVars
<1>4. ASSUME NEW k \in EndpointKeys, AdapterStep(k) PROVE req' = req
    BY <1>4 DEF AdapterStep, StartRun, StopRun, Observe, MatchingCallback, callVars
<1>5. CASE Commit \/ RecordOutcome \/ UNCHANGED vars
    BY <1>5 DEF Commit, RecordOutcome, vars, callVars
<1> QED BY <1>1, <1>2, <1>3, <1>4, <1>5 DEF Next

LEMMA RoutedStays ==
    ASSUME TypeOK, WellFormed, NEW g \in Gens, NEW c \in Calls, RoutedTo(g, c), [Next]_vars
    PROVE  RoutedTo(g, c)'
BY KeysStay, RequestsStay DEF RoutedTo

(* How work moves: into the reservation of a routed call, from there into   *)
(* the queue, and from its head to the worker.                              *)
LEMMA ReservationsMove ==
    ASSUME TypeOK, WellFormed, [Next]_vars, NEW c \in Calls, pc'[c] = "reserve"
    PROVE  \/ pc[c] = "reserve" /\ routed'[c] = routed[c]
           \/ req[c] \in Request /\ routed'[c] = Route(req[c].target) /\ routed'[c] # 0
<1> USE DEF TypeOK, CallsOK, WellFormed, RequestsMade
<1>1. CASE UNCHANGED <<pc, routed>>
    BY <1>1
<1>2. ASSUME NEW d \in Calls, RouteCall(d)
      PROVE  \/ pc[c] = "reserve" /\ routed'[c] = routed[c]
             \/ req[c] \in Request /\ routed'[c] = Route(req[c].target) /\ routed'[c] # 0
  <2>1. CASE d = c
    BY <1>2, <2>1 DEF RouteCall
  <2>2. CASE d # c
    BY <1>2, <2>2 DEF RouteCall
  <2> QED BY <2>1, <2>2
<1>3. ASSUME NEW d \in Calls, CallStep(d), ~RouteCall(d)
      PROVE  pc[c] = "reserve" /\ routed'[c] = routed[c]
    BY <1>3 DEF CallStep, Begin, Lookup, Insert, Enqueue, ReserveFailed, CancelSubmit, Leave
<1>4. ASSUME NEW d \in Calls, TimerStep(d) PROVE UNCHANGED <<pc, routed>>
    BY <1>4 DEF TimerStep, DeadlinePasses, DispatchExpires, ConfirmationTimesOut, callVars
<1>5. ASSUME NEW h \in Gens, WorkerStep(h) PROVE UNCHANGED <<pc, routed>>
    BY <1>5 DEF WorkerStep, Receive, CheckDeadline, BeginDispatch, Arm, NativeFailed,
       NativeAccepted, ReadBack, Settle, WorkerExit, callVars
<1>6. ASSUME NEW k \in EndpointKeys, AdapterStep(k) PROVE UNCHANGED <<pc, routed>>
    BY <1>6 DEF AdapterStep, StartRun, StopRun, Observe, MatchingCallback, callVars
<1>7. CASE Commit \/ RecordOutcome \/ UNCHANGED vars
    BY <1>1, <1>7 DEF Commit, RecordOutcome, vars, callVars
<1> QED BY <1>1, <1>2, <1>3, <1>4, <1>5, <1>6, <1>7 DEF Next

LEMMA QueuesMove ==
    ASSUME TypeOK, WellFormed, [Next]_vars, NEW g \in Gens, NEW i \in 1 .. Len(queue'[g])
    PROVE  \/ \E j \in 1 .. Len(queue[g]) : queue'[g][i] = queue[g][j]
           \/ \E c \in Calls : pc[c] = "reserve" /\ routed[c] = g /\ queue'[g][i] = c
<1> USE DEF TypeOK, EndpointsOK
<1>0. queue[g] \in Seq(Calls)
    OBVIOUS
<1>1. CASE queue'[g] = queue[g]
    BY <1>1
<1>2. ASSUME NEW c \in Calls, Enqueue(c)
      PROVE  \/ \E j \in 1 .. Len(queue[g]) : queue'[g][i] = queue[g][j]
             \/ \E d \in Calls : pc[d] = "reserve" /\ routed[d] = g /\ queue'[g][i] = d
  <2>1. CASE routed[c] = g
    <3>1. queue'[g] = Append(queue[g], c) /\ pc[c] = "reserve"
      BY <1>2, <2>1 DEF Enqueue
    <3>2. CASE i = Len(queue[g]) + 1
      BY <1>0, <2>1, <3>1, <3>2
    <3>3. CASE i # Len(queue[g]) + 1
      <4>1. i \in 1 .. Len(queue[g]) /\ queue'[g][i] = queue[g][i]
        BY <1>0, <3>1, <3>3
      <4> QED BY <4>1
    <3> QED BY <3>2, <3>3
  <2>2. CASE routed[c] # g
    BY <1>1, <1>2, <2>2 DEF Enqueue
  <2> QED BY <2>1, <2>2
<1>3. ASSUME NEW h \in Gens, Receive(h)
      PROVE  \E j \in 1 .. Len(queue[g]) : queue'[g][i] = queue[g][j]
  <2>1. CASE h = g
    <3>1. queue'[g] = Tail(queue[g]) /\ queue[g] # <<>>
      BY <1>3, <2>1 DEF Receive
    <3>2. i + 1 \in 1 .. Len(queue[g]) /\ queue'[g][i] = queue[g][i + 1]
      BY <1>0, <3>1
    <3> QED BY <3>2
  <2>2. CASE h # g
    BY <1>1, <1>3, <2>2 DEF Receive
  <2> QED BY <2>1, <2>2
<1>4. ASSUME NEW h \in Gens, WorkerExit(h)
      PROVE  queue'[g] = queue[g]
  <2>1. queue' = [queue EXCEPT ![h] = <<>>]
    BY <1>4 DEF WorkerExit
  <2> QED BY <2>1
<1>5. ASSUME NEW h \in Gens, WorkerStep(h), ~Receive(h), ~WorkerExit(h) PROVE queue' = queue
    BY <1>5 DEF WorkerStep, CheckDeadline, BeginDispatch, Arm, NativeFailed,
       NativeAccepted, ReadBack, Settle
<1>6. ASSUME NEW d \in Calls, CallStep(d) \/ TimerStep(d), ~Enqueue(d) PROVE queue' = queue
    BY <1>6 DEF CallStep, TimerStep, Begin, Lookup, Insert, RouteCall, ReserveFailed,
       CancelSubmit, Leave, DeadlinePasses, DispatchExpires, ConfirmationTimesOut, endpointVars
<1>7. ASSUME NEW k \in EndpointKeys, AdapterStep(k) PROVE queue' = queue
    BY <1>7 DEF AdapterStep, StartRun, StopRun, Observe, MatchingCallback, endpointVars
<1>8. CASE Commit \/ RecordOutcome \/ UNCHANGED vars
    BY <1>1, <1>8 DEF Commit, RecordOutcome, vars, endpointVars
<1> QED BY <1>1, <1>2, <1>3, <1>4, <1>5, <1>6, <1>7, <1>8 DEF Next

LEMMA HandsMove ==
    ASSUME TypeOK, WellFormed, [Next]_vars, NEW g \in Gens
    PROVE  \/ hand'[g] \in {hand[g], Nil}
           \/ Len(queue[g]) > 0 /\ hand'[g] = queue[g][1]
<1> USE DEF TypeOK, EndpointsOK
<1>1. CASE hand'[g] = hand[g]
    BY <1>1
<1>2. ASSUME NEW h \in Gens, Receive(h)
      PROVE  hand'[g] = hand[g] \/ (Len(queue[g]) > 0 /\ hand'[g] = queue[g][1])
    BY <1>2 DEF Receive
<1>3. ASSUME NEW h \in Gens, WorkerStep(h), ~Receive(h) PROVE hand'[g] \in {hand[g], Nil}
    BY <1>3 DEF WorkerStep, CheckDeadline, BeginDispatch, Arm, NativeFailed, Finish,
       NativeAccepted, ReadBack, Settle, WorkerExit
<1>4. ASSUME NEW d \in Calls, CallStep(d) \/ TimerStep(d) PROVE hand' = hand
    BY <1>4 DEF CallStep, TimerStep, Begin, Lookup, Insert, RouteCall, Enqueue, ReserveFailed,
       CancelSubmit, Leave, DeadlinePasses, DispatchExpires, ConfirmationTimesOut, endpointVars
<1>5. ASSUME NEW k \in EndpointKeys, AdapterStep(k) PROVE hand' = hand
    BY <1>5 DEF AdapterStep, StartRun, StopRun, Observe, MatchingCallback, endpointVars
<1>6. CASE Commit \/ RecordOutcome \/ UNCHANGED vars
    BY <1>1, <1>6 DEF Commit, RecordOutcome, vars, endpointVars
<1> QED BY <1>1, <1>2, <1>3, <1>4, <1>5, <1>6 DEF Next

LEMMA SlotsMove ==
    ASSUME TypeOK, WellFormed, [Next]_vars, NEW k \in Keys
    PROVE  \/ slot'[k] \in {0, slot[k]} /\ nextGen' >= nextGen
              /\ (\A g \in Gens : g < nextGen => keyOf'[g] = keyOf[g])
           \/ slot'[k] \in Gens /\ slot'[k] < nextGen' /\ keyOf'[slot'[k]] = k
<1> USE DEF TypeOK, EndpointsOK
<1>0. nextGen \in Nat /\ MaxGen \in Nat
    BY RuntimeAssumption
<1>1. CASE slot'[k] \in {0, slot[k]} /\ UNCHANGED <<nextGen, keyOf>>
    BY <1>0, <1>1
<1>2. ASSUME NEW j \in EndpointKeys, StartRun(j)
      PROVE  \/ slot'[k] \in {0, slot[k]} /\ nextGen' >= nextGen
                /\ (\A g \in Gens : g < nextGen => keyOf'[g] = keyOf[g])
             \/ slot'[k] \in Gens /\ slot'[k] < nextGen' /\ keyOf'[slot'[k]] = k
  <2>1. nextGen' = nextGen + 1 /\ nextGen \in Gens
    BY <1>0, <1>2 DEF StartRun, Gens
  <2>2. CASE slot[j] = 0
    <3>1. slot' = [slot EXCEPT ![j] = nextGen] /\ keyOf' = [keyOf EXCEPT ![nextGen] = j]
      BY <1>2, <2>2 DEF StartRun
    <3>2. CASE j = k
      BY <1>0, <2>1, <3>1, <3>2
    <3>3. CASE j # k
      <4>1. slot'[k] = slot[k]
        BY <3>1, <3>3
      <4>2. \A g \in Gens : g < nextGen => keyOf'[g] = keyOf[g]
        BY <1>0, <3>1
      <4> QED BY <1>0, <2>1, <4>1, <4>2
    <3> QED BY <3>2, <3>3
  <2>3. CASE slot[j] # 0
    <3>1. UNCHANGED <<slot, keyOf>>
      BY <1>2, <2>3 DEF StartRun
    <3> QED BY <1>0, <2>1, <3>1
  <2> QED BY <2>2, <2>3
<1>3. ASSUME NEW h \in Gens, WorkerExit(h) PROVE slot'[k] \in {0, slot[k]} /\ UNCHANGED <<nextGen, keyOf>>
    BY <1>3 DEF WorkerExit
<1>4. ASSUME NEW h \in Gens, WorkerStep(h), ~WorkerExit(h) PROVE UNCHANGED <<slot, nextGen, keyOf>>
    BY <1>4 DEF WorkerStep, Receive, CheckDeadline, BeginDispatch, Arm, NativeFailed,
       NativeAccepted, ReadBack, Settle
<1>5. ASSUME NEW d \in Calls, CallStep(d) \/ TimerStep(d) PROVE UNCHANGED <<slot, nextGen, keyOf>>
    BY <1>5 DEF CallStep, TimerStep, Begin, Lookup, Insert, RouteCall, Enqueue, ReserveFailed,
       CancelSubmit, Leave, DeadlinePasses, DispatchExpires, ConfirmationTimesOut, endpointVars
<1>6. ASSUME NEW j \in EndpointKeys, AdapterStep(j), ~StartRun(j)
      PROVE UNCHANGED <<slot, nextGen, keyOf>>
    BY <1>6 DEF AdapterStep, StopRun, Observe, MatchingCallback, endpointVars
<1>7. CASE Commit \/ RecordOutcome \/ UNCHANGED vars
    BY <1>1, <1>7 DEF Commit, RecordOutcome, vars, endpointVars
<1> QED BY <1>1, <1>2, <1>3, <1>4, <1>5, <1>6, <1>7 DEF Next

(* Work stays with endpoints of its own target.                             *)
LEMMA RoutedStep ==
    ASSUME TypeOK, WellFormed, WorkIsRouted, [Next]_vars
    PROVE  WorkIsRouted'
<1>0. /\ RequestsMade' /\ EndpointsOK /\ EndpointsOK'
    BY TypeStep DEF TypeOK, WellFormed
<1>1. ASSUME NEW k \in Keys, slot'[k] # 0 PROVE slot'[k] < nextGen' /\ keyOf'[slot'[k]] = k
  <2>1. CASE /\ slot'[k] \in {0, slot[k]} /\ nextGen' >= nextGen
             /\ \A g \in Gens : g < nextGen => keyOf'[g] = keyOf[g]
    <3>1. slot'[k] = slot[k] /\ slot[k] < nextGen /\ keyOf[slot[k]] = k
      BY <1>1, <2>1 DEF WorkIsRouted
    <3>2. slot[k] \in Gens /\ nextGen \in Nat /\ nextGen' \in Nat
      BY <1>0, <1>1, <3>1, RuntimeAssumption DEF EndpointsOK, Gens
    <3> QED BY <2>1, <3>1, <3>2 DEF Gens
  <2> QED BY <2>1, SlotsMove
<1>2. ASSUME NEW c \in Calls, NEW g \in Gens, pc'[c] = "reserve", routed'[c] = g
      PROVE  RoutedTo(g, c)'
  <2>1. CASE pc[c] = "reserve" /\ routed'[c] = routed[c]
    <3>1. RoutedTo(g, c)
      BY <1>2, <2>1 DEF WorkIsRouted
    <3> QED BY <3>1, RoutedStays
  <2>2. CASE req[c] \in Request /\ routed'[c] = Route(req[c].target)
    <3>1. g = Route(req[c].target) /\ g # 0
      BY <1>2, <2>2 DEF Gens
    <3>2. PICK k \in {req[c].target, SourceOf[req[c].target]} : slot[k] = g
      BY <3>1 DEF Route
    <3>3. k \in Keys
      BY <2>2, RuntimeAssumption DEF Keys, Request
    <3>4. RoutedTo(g, c)
      BY <2>2, <3>1, <3>2, <3>3 DEF WorkIsRouted, RoutedTo
    <3> QED BY <3>4, RoutedStays
  <2> QED BY <1>2, <2>1, <2>2, ReservationsMove
<1>3. ASSUME NEW g \in Gens, NEW i \in 1 .. Len(queue'[g]) PROVE RoutedTo(g, queue[g][i])'
  <2>1. PICK c \in Calls : queue'[g][i] = c /\ RoutedTo(g, c)
    <3>1. CASE \E j \in 1 .. Len(queue[g]) : queue'[g][i] = queue[g][j]
      <4>1. PICK j \in 1 .. Len(queue[g]) : queue'[g][i] = queue[g][j]
        BY <3>1
      <4>2. queue[g] \in Seq(Calls)
        BY <1>0 DEF EndpointsOK
      <4>3. queue[g][j] \in Calls
        BY <4>2
      <4>4. RoutedTo(g, queue[g][j])
        BY DEF WorkIsRouted
      <4> QED BY <4>1, <4>3, <4>4
    <3>2. CASE \E c \in Calls : pc[c] = "reserve" /\ routed[c] = g /\ queue'[g][i] = c
      BY <3>2 DEF WorkIsRouted
    <3> QED BY <3>1, <3>2, QueuesMove
  <2>2. RoutedTo(g, c)'
    BY <2>1, RoutedStays
  <2> QED BY <2>1, <2>2 DEF RoutedTo
<1>4. ASSUME NEW g \in Gens, hand'[g] # Nil PROVE RoutedTo(g, hand[g])'
  <2>1. PICK c \in Calls : hand'[g] = c /\ RoutedTo(g, c)
    <3>1. CASE hand'[g] = hand[g]
      BY <1>0, <1>4, <3>1 DEF WorkIsRouted, EndpointsOK
    <3>2. CASE Len(queue[g]) > 0 /\ hand'[g] = queue[g][1]
      <4>1. queue[g] \in Seq(Calls)
        BY <1>0 DEF EndpointsOK
      <4>2. 1 \in 1 .. Len(queue[g]) /\ queue[g][1] \in Calls
        BY <3>2, <4>1
      <4>3. RoutedTo(g, queue[g][1])
        BY <4>2 DEF WorkIsRouted
      <4> QED BY <3>2, <4>2, <4>3
    <3> QED BY <1>4, <3>1, <3>2, HandsMove
  <2>2. RoutedTo(g, c)'
    BY <2>1, RoutedStays
  <2> QED BY <2>1, <2>2 DEF RoutedTo
<1>5. \A c \in Calls : pc'[c] = "reserve" => RoutedTo(routed[c], c)'
  <2> SUFFICES ASSUME NEW c \in Calls, pc'[c] = "reserve" PROVE RoutedTo(routed[c], c)'
      OBVIOUS
  <2>1. routed'[c] \in Gens
    BY <1>0 DEF RequestsMade
  <2>2. PICK g \in Gens : g = routed'[c]
    BY <2>1
  <2>3. RoutedTo(g, c)'
    BY <1>2, <2>2
  <2> QED BY <2>2, <2>3 DEF RoutedTo
<1> QED BY <1>1, <1>3, <1>4, <1>5 DEF WorkIsRouted, RoutedTo

(* A worker that holds a lease held it before, or takes it now from a       *)
(* command that is still Queued.                                            *)
LEMMA LeasesMove ==
    ASSUME TypeOK, WellFormed, [Next]_vars, NEW g \in Gens, worker'[g] \in Leased
    PROVE  \/ /\ worker[g] \in Leased /\ hand'[g] = hand[g]
              /\ OwesResult(g)' => OwesResult(g)
           \/ /\ worker[g] = "checked" /\ status[hand[g]] = "Queued"
              /\ hand' = hand /\ status'[hand[g]] = "Dispatched"
              /\ \A h \in Gens : h # g => worker'[h] = worker[h]
<1> USE DEF TypeOK, EndpointsOK, OwesResult, Leased
<1>1. CASE UNCHANGED <<worker, hand>>
    BY <1>1
<1>2. ASSUME NEW h \in Gens,
             Receive(h) \/ CheckDeadline(h) \/ Arm(h) \/ NativeFailed(h) \/ NativeAccepted(h)
             \/ ReadBack(h) \/ Settle(h) \/ WorkerExit(h)
      PROVE  worker[g] \in Leased /\ hand'[g] = hand[g] /\ (OwesResult(g)' => OwesResult(g))
    BY <1>2 DEF Receive, CheckDeadline, Arm, NativeFailed, NativeAccepted, ReadBack, Settle,
       WorkerExit, Finish
<1>3. ASSUME NEW h \in Gens, BeginDispatch(h)
      PROVE  \/ worker[g] \in Leased /\ hand'[g] = hand[g] /\ (OwesResult(g)' => OwesResult(g))
             \/ /\ worker[g] = "checked" /\ status[hand[g]] = "Queued"
                /\ hand' = hand /\ status'[hand[g]] = "Dispatched"
                /\ \A i \in Gens : i # g => worker'[i] = worker[i]
  <2>1. hand[h] \in Calls
    BY <1>3 DEF BeginDispatch, WellFormed, WorkersFormed
  <2>2. CASE status[hand[h]] = "Queued"
    <3>1. /\ worker' = [worker EXCEPT ![h] = "dispatched"] /\ hand' = hand
          /\ status' = [status EXCEPT ![hand[h]] = "Dispatched"] /\ worker[h] = "checked"
      BY <1>3, <2>2 DEF BeginDispatch, SetStatus
    <3>2. status'[hand[h]] = "Dispatched"
      BY <2>1, <3>1 DEF LedgerOK
    <3> QED BY <2>2, <3>1, <3>2
  <2>3. CASE status[hand[h]] # "Queued"
    <3>1. Finish(h)
      BY <1>3, <2>3 DEF BeginDispatch
    <3> QED BY <3>1 DEF Finish
  <2> QED BY <2>2, <2>3
<1>4. ASSUME NEW d \in Calls, CallStep(d) \/ TimerStep(d) PROVE UNCHANGED <<worker, hand>>
    BY <1>4 DEF CallStep, TimerStep, Begin, Lookup, Insert, RouteCall, Enqueue, ReserveFailed,
       CancelSubmit, Leave, DeadlinePasses, DispatchExpires, ConfirmationTimesOut, endpointVars
<1>5. ASSUME NEW k \in EndpointKeys, StartRun(k)
      PROVE  worker[g] \in Leased /\ hand'[g] = hand[g] /\ (OwesResult(g)' => OwesResult(g))
    BY <1>5 DEF StartRun
<1>6. ASSUME NEW k \in EndpointKeys, AdapterStep(k), ~StartRun(k) PROVE UNCHANGED <<worker, hand>>
    BY <1>6 DEF AdapterStep, StopRun, Observe, MatchingCallback, endpointVars
<1>7. CASE Commit \/ RecordOutcome \/ UNCHANGED vars
    BY <1>1, <1>7 DEF Commit, RecordOutcome, vars, endpointVars
<1> QED BY <1>1, <1>2, <1>3, <1>4, <1>5, <1>6, <1>7 DEF Next, WorkerStep

(* An expectation is armed by the leased worker of a callback provider.     *)
LEMMA ArmsMove ==
    ASSUME TypeOK, WellFormed, [Next]_vars, NEW k \in Keys, armed'[k] # Nil
    PROVE  \/ armed'[k] = armed[k]
           \/ \E g \in Gens :
                 worker[g] = "dispatched" /\ ByCallback(g) /\ armed'[k] = hand[g]
<1> USE DEF TypeOK, EndpointsOK
<1>1. CASE armed' = armed
    BY <1>1
<1>2. ASSUME NEW h \in Gens, Arm(h)
      PROVE  \/ armed'[k] = armed[k]
             \/ worker[h] = "dispatched" /\ ByCallback(h) /\ armed'[k] = hand[h]
    BY <1>2 DEF Arm
<1>3. ASSUME NEW h \in Gens, Disarm(h) PROVE armed'[k] = armed[k]
    BY <1>3 DEF Disarm
<1>4. ASSUME NEW h \in Gens, WorkerStep(h), ~Arm(h) PROVE armed' = armed \/ Disarm(h)
    BY <1>4 DEF WorkerStep, Receive, CheckDeadline, BeginDispatch, NativeFailed,
       NativeAccepted, ReadBack, Settle, WorkerExit
<1>5. ASSUME NEW d \in Calls, CallStep(d) \/ TimerStep(d) PROVE armed' = armed
    BY <1>5 DEF CallStep, TimerStep, Begin, Lookup, Insert, RouteCall, Enqueue, ReserveFailed,
       CancelSubmit, Leave, DeadlinePasses, DispatchExpires, ConfirmationTimesOut, endpointVars
<1>6. ASSUME NEW j \in EndpointKeys, MatchingCallback(j) PROVE armed'[k] = armed[k]
    BY <1>6 DEF MatchingCallback
<1>7. ASSUME NEW j \in EndpointKeys, AdapterStep(j), ~MatchingCallback(j) PROVE armed' = armed
    BY <1>7 DEF AdapterStep, StartRun, StopRun, Observe, endpointVars
<1>8. CASE Commit \/ RecordOutcome \/ UNCHANGED vars
    BY <1>1, <1>8 DEF Commit, RecordOutcome, vars, endpointVars
<1> QED BY <1>1, <1>2, <1>3, <1>4, <1>5, <1>6, <1>7, <1>8 DEF Next

(* A projection that is on its way was, or a callback has met its           *)
(* expectation, or its worker has just read the provider back.              *)
LEMMA FlightsMove ==
    ASSUME TypeOK, WellFormed, [Next]_vars, NEW c \in Calls, InFlight(c)'
    PROVE  \/ InFlight(c)
           \/ \E k \in Keys : armed[k] = c
           \/ \E g \in Gens : worker[g] = "reading" /\ hand[g] = c
<1> USE DEF TypeOK, ProjectionsOK
<1>1. ASSUME UNCHANGED <<ingress, actor>> PROVE InFlight(c)
    BY <1>1 DEF InFlight
<1>2. ASSUME NEW s, ingress' = Append(ingress, s), actor' = actor PROVE InFlight(c) \/ s.by = c
  <2>1. ASSUME NEW i \in 1 .. Len(ingress'), ingress'[i].by = c
        PROVE  InFlight(c) \/ s.by = c
    <3>1. CASE i = Len(ingress) + 1
      BY <1>2, <2>1, <3>1
    <3>2. CASE i # Len(ingress) + 1
      <4>1. i \in 1 .. Len(ingress) /\ ingress'[i] = ingress[i]
        BY <1>2, <2>1, <3>2
      <4> QED BY <2>1, <4>1 DEF InFlight
    <3> QED BY <3>1, <3>2
  <2> QED BY <1>2, <2>1 DEF InFlight
<1>3. ASSUME NEW h \in Gens, ReadBack(h)
      PROVE  InFlight(c) \/ (worker[h] = "reading" /\ hand[h] = c)
  <2>1. CASE ingress' = Append(ingress, Projection(keyOf[h], hand[h]))
    BY <1>2, <1>3, <2>1 DEF ReadBack, Projection
  <2>2. CASE ingress' = ingress
    BY <1>1, <1>3, <2>2 DEF ReadBack
  <2> QED BY <1>3, <2>1, <2>2 DEF ReadBack
<1>4. ASSUME NEW h \in Gens, WorkerStep(h), ~ReadBack(h) PROVE UNCHANGED <<ingress, actor>>
    BY <1>4 DEF WorkerStep, Receive, CheckDeadline, BeginDispatch, Arm, NativeFailed,
       NativeAccepted, Settle, WorkerExit, projectionVars
<1>5. ASSUME NEW k \in EndpointKeys, MatchingCallback(k)
      PROVE  InFlight(c) \/ (k \in Keys /\ armed[k] = c)
    BY <1>2, <1>5, KeysOfEndpoints DEF MatchingCallback, Projection
<1>6. ASSUME NEW k \in EndpointKeys, AdapterStep(k), ~MatchingCallback(k)
      PROVE  UNCHANGED <<ingress, actor>>
    BY <1>6 DEF AdapterStep, StartRun, StopRun, Observe, projectionVars
<1>7. ASSUME NEW d \in Calls, CallStep(d) \/ TimerStep(d) PROVE UNCHANGED <<ingress, actor>>
    BY <1>7 DEF CallStep, TimerStep, Begin, Lookup, Insert, RouteCall, Enqueue, ReserveFailed,
       CancelSubmit, Leave, DeadlinePasses, DispatchExpires, ConfirmationTimesOut, projectionVars
<1>8. CASE Commit
  <2>1. /\ ingress # <<>> /\ ingress' = Tail(ingress)
        /\ actor'.sub = Head(ingress)
    BY <1>8 DEF Commit
  <2>2. CASE actor'.sub.by = c
    <3>1. 1 \in 1 .. Len(ingress) /\ ingress[1].by = c
      BY <2>1, <2>2
    <3> QED BY <3>1 DEF InFlight
  <2>3. ASSUME NEW i \in 1 .. Len(ingress'), ingress'[i].by = c PROVE InFlight(c)
    <3>1. i + 1 \in 1 .. Len(ingress) /\ ingress[i + 1].by = c
      BY <2>1, <2>3
    <3> QED BY <3>1 DEF InFlight
  <2> QED BY <2>1, <2>2, <2>3 DEF InFlight
<1>9. CASE RecordOutcome
    BY <1>9 DEF RecordOutcome, InFlight
<1>10. CASE UNCHANGED vars
    BY <1>1, <1>10 DEF vars, projectionVars
<1> QED
    BY <1>1, <1>3, <1>4, <1>5, <1>6, <1>7, <1>8, <1>9, <1>10 DEF Next

(* A command in the native history stays there.                             *)
LEMMA NativeGrows ==
    ASSUME TypeOK, WellFormed, [Next]_vars
    PROVE  native \subseteq native'
<1>1. ASSUME NEW g \in Gens, WorkerStep(g) PROVE native \subseteq native'
    BY <1>1 DEF WorkerStep, Receive, CheckDeadline, BeginDispatch, Arm, NativeFailed,
       NativeAccepted, ReadBack, Settle, WorkerExit, ledgerVars
<1>2. ASSUME NEW c \in Calls, CallStep(c) \/ TimerStep(c) PROVE native' = native
    BY <1>2 DEF CallStep, TimerStep, Begin, Lookup, Insert, RouteCall, Enqueue, ReserveFailed,
       CancelSubmit, Leave, DeadlinePasses, DispatchExpires, ConfirmationTimesOut, ledgerVars
<1>3. ASSUME NEW k \in EndpointKeys, AdapterStep(k) PROVE native' = native
    BY <1>3 DEF AdapterStep, StartRun, StopRun, Observe, MatchingCallback, ledgerVars
<1>4. CASE Commit \/ RecordOutcome \/ UNCHANGED vars
    BY <1>4 DEF Commit, RecordOutcome, vars, ledgerVars
<1> QED BY <1>1, <1>2, <1>3, <1>4 DEF Next

(* A final status is reached from Queued, by the outcome of a projection    *)
(* that names the command, or by the failure its worker reports.            *)
LEMMA FinalMoves ==
    ASSUME TypeOK, WellFormed, LeaseRecorded, [Next]_vars, NEW c \in Calls,
           status'[c] # status[c] \/ rev'[c] # rev[c]
    PROVE  \/ status[c] \in {"Absent", "Queued"}
           \/ status[c] \notin Final /\ (status'[c] \in Final => InFlight(c))
           \/ \E g \in Gens : OwesResult(g) /\ hand[g] = c /\ worker'[g] = "idle"
<1> USE DEF TypeOK, LedgerOK
<1>1. ASSUME NEW d \in Calls, NotDispatched(d), rev' = rev PROVE status[c] = "Queued"
    BY <1>1 DEF NotDispatched, SetStatus
<1>2. ASSUME NEW d \in Calls, CallStep(d) \/ TimerStep(d)
      PROVE  \/ status[c] \in {"Absent", "Queued"}
             \/ status[c] \notin Final /\ status'[c] \notin Final
  <2>1. CASE Insert(d)
    <3>1. status[d] = "Absent"
      BY <2>1 DEF Insert, LeaseRecorded
    <3> QED BY <2>1, <3>1 DEF Insert
  <2>2. CASE RouteCall(d) \/ ReserveFailed(d) \/ DispatchExpires(d)
    BY <1>1, <2>2 DEF RouteCall, ReserveFailed, DispatchExpires
  <2>3. CASE ConfirmationTimesOut(d)
    BY <2>3 DEF ConfirmationTimesOut, SetStatus, Final
  <2> QED
    BY <1>2, <2>1, <2>2, <2>3 DEF CallStep, TimerStep, Begin, Lookup, Enqueue, CancelSubmit,
       Leave, DeadlinePasses, ledgerVars
<1>3. ASSUME NEW g \in Gens, WorkerStep(g)
      PROVE  \/ status[c] = "Queued"
             \/ status[c] \notin Final /\ status'[c] \notin Final
             \/ OwesResult(g) /\ hand[g] = c /\ worker'[g] = "idle"
  <2>1. CASE CheckDeadline(g)
    <3>1. hand[g] \in Calls
      BY <2>1 DEF CheckDeadline, WellFormed, WorkersFormed
    <3> QED BY <1>1, <2>1, <3>1 DEF CheckDeadline
  <2>2. CASE BeginDispatch(g)
    BY <2>2 DEF BeginDispatch, SetStatus
  <2>3. CASE NativeAccepted(g)
    BY <2>3 DEF NativeAccepted, SetStatus, Final
  <2>4. CASE NativeFailed(g)
    <3>1. hand[g] = c
      BY <2>4 DEF NativeFailed, SetStatus
    <3> QED BY <2>4, <3>1 DEF NativeFailed, Finish, EndpointsOK
  <2> QED
    BY <1>3, <2>1, <2>2, <2>3, <2>4 DEF WorkerStep, Receive, Arm, ReadBack, Settle, WorkerExit,
       ledgerVars
<1>4. CASE RecordOutcome
  <2>1. Confirms(actor) /\ actor.sub.by = c /\ actor # Nil
    BY <1>4 DEF RecordOutcome, SetStatus
  <2> QED BY <2>1 DEF Confirms, Final, InFlight
<1>5. ASSUME NEW k \in EndpointKeys, AdapterStep(k) PROVE FALSE
    BY <1>5 DEF AdapterStep, StartRun, StopRun, Observe, MatchingCallback, ledgerVars
<1>6. CASE Commit \/ UNCHANGED vars
    BY <1>6 DEF Commit, vars, ledgerVars
<1> QED BY <1>2, <1>3, <1>4, <1>5, <1>6 DEF Next

(* Whoever is nominated has been leased, and by one worker.                 *)
LEMMA NominateStep ==
    ASSUME TypeOK, WellFormed, LeaseRecorded, LeasesNominate, [Next]_vars
    PROVE  LeasesNominate'
<1>1. ASSUME NEW k \in Keys, armed'[k] # Nil PROVE armed'[k] \in native'
  <2>1. armed'[k] \in native
    BY <1>1, ArmsMove DEF LeasesNominate, LeaseRecorded, Leased
  <2> QED BY <2>1, NativeGrows
<1>2. ASSUME NEW c \in Calls, InFlight(c)' PROVE c \in native'
  <2>1. c \in native
    BY <1>2, FlightsMove, RuntimeAssumption DEF LeasesNominate, LeaseRecorded, Leased
  <2> QED BY <2>1, NativeGrows
<1>3. ASSUME NEW g \in Gens, NEW h \in Gens,
             worker'[g] \in Leased, worker'[h] \in Leased, hand'[g] = hand'[h], g # h
      PROVE  FALSE
  <2>1. ASSUME NEW i \in Gens, NEW j \in Gens, i # j, hand'[i] = hand'[j],
               worker[i] = "checked", status[hand[i]] = "Queued", hand' = hand,
               \A m \in Gens : m # i => worker'[m] = worker[m], worker'[j] \in Leased
        PROVE  FALSE
    <3>1. hand[j] \in native /\ hand[i] = hand[j]
      BY <2>1 DEF LeaseRecorded
    <3> QED BY <2>1, <3>1 DEF LeaseRecorded, Attempted, TypeOK, LedgerOK
  <2>2. worker[g] \in Leased /\ hand'[g] = hand[g]
    BY <1>3, <2>1, LeasesMove
  <2>3. worker[h] \in Leased /\ hand'[h] = hand[h]
    BY <1>3, <2>1, LeasesMove
  <2> QED BY <1>3, <2>2, <2>3 DEF LeasesNominate
<1> QED BY <1>1, <1>2, <1>3 DEF LeasesNominate

(* A worker that may still fail its command is the only one who could       *)
(* nominate it, and it has not.                                             *)
LEMMA FailureStep ==
    ASSUME TypeOK, WellFormed, LeaseRecorded, LeasesNominate, FailureComesFirst, [Next]_vars
    PROVE  FailureComesFirst'
<1> SUFFICES ASSUME NEW g \in Gens, OwesResult(g)', ~ByCallback(g)'
             PROVE  /\ status'[hand'[g]] \notin Final /\ ~InFlight(hand[g])'
                    /\ \A k \in Keys : armed'[k] # hand'[g]
    BY DEF FailureComesFirst
<1>1. worker'[g] \in Leased
    BY DEF OwesResult, Leased
<1>2. ~ByCallback(g)
  <2>1. worker[g] # "none"
    BY <1>1, LeasesMove DEF Leased
  <2>2. g < nextGen
    BY <2>1, RuntimeAssumption DEF WellFormed, WorkersFormed, TypeOK, EndpointsOK, Gens
  <2>3. keyOf'[g] = keyOf[g]
    BY <2>2, KeysStay
  <2> QED BY <2>3 DEF ByCallback
<1>3. CASE worker[g] \in Leased /\ hand'[g] = hand[g] /\ OwesResult(g)
  <2>1. PICK c \in Calls : c = hand[g] /\ c \in native
    BY <1>3 DEF LeaseRecorded, TypeOK, LedgerOK
  <2>2. status[c] \notin Final /\ ~InFlight(c) /\ \A k \in Keys : armed[k] # c
    BY <1>2, <1>3, <2>1 DEF FailureComesFirst
  <2>3. \A h \in Gens : worker[h] \in Leased /\ hand[h] = c => h = g
    BY <1>3, <2>1 DEF LeasesNominate
  <2>4. ~InFlight(c)'
    BY <1>3, <2>2, <2>3, FlightsMove DEF Leased, OwesResult
  <2>5. \A k \in Keys : armed'[k] # c
    <3> SUFFICES ASSUME NEW k \in Keys, armed'[k] = c PROVE FALSE
      OBVIOUS
    <3>1. c # Nil
      BY RuntimeAssumption
    <3>2. PICK h \in Gens : worker[h] = "dispatched" /\ ByCallback(h) /\ c = hand[h]
      BY <2>2, <3>1, ArmsMove
    <3> QED BY <1>2, <2>3, <3>2 DEF Leased
  <2>6. status'[c] \notin Final
    <3>1. status[c] \notin {"Absent", "Queued"}
      BY <2>1 DEF LeaseRecorded, Attempted
    <3>2. \A h \in Gens : OwesResult(h) /\ hand[h] = c => worker'[h] # "idle"
      BY <1>1, <2>3 DEF Leased, OwesResult
    <3>3. CASE status'[c] = status[c]
      BY <2>2, <3>3
    <3>4. CASE status'[c] # status[c]
      BY <2>2, <3>1, <3>2, <3>4, FinalMoves
    <3> QED BY <3>3, <3>4
  <2> QED BY <1>3, <2>1, <2>4, <2>5, <2>6 DEF InFlight
<1>4. CASE /\ worker[g] = "checked" /\ status[hand[g]] = "Queued"
           /\ hand' = hand /\ status'[hand[g]] = "Dispatched"
  <2>1. PICK c \in Calls : c = hand[g]
    BY <1>4 DEF WellFormed, WorkersFormed
  <2>2. c \notin native
    BY <1>4, <2>1 DEF LeaseRecorded, Attempted
  <2>3. \A h \in Gens : worker[h] \in Leased => hand[h] # c
    BY <2>2 DEF LeaseRecorded
  <2>4. ~InFlight(c)'
    BY <2>2, <2>3, FlightsMove, RuntimeAssumption DEF Leased, LeasesNominate
  <2>5. \A k \in Keys : armed'[k] # c
    BY <2>2, <2>3, ArmsMove, RuntimeAssumption DEF Leased, LeasesNominate
  <2> QED BY <1>4, <2>1, <2>4, <2>5 DEF InFlight, Final
<1> QED BY <1>1, <1>3, <1>4, LeasesMove

(* The nominations hold in every state that the runtime reaches.            *)
LEMMA AlwaysNominations == Spec => [](Inductive /\ Nominations)
<1>1. Init => Nominations
  <2> SUFFICES ASSUME Init PROVE Nominations
      OBVIOUS
  <2>1. WorkIsRouted
    BY DEF Init, WorkIsRouted
  <2>2. LeasesNominate
    BY DEF Init, LeasesNominate, InFlight, Leased
  <2>3. FailureComesFirst
    BY DEF Init, FailureComesFirst, OwesResult
  <2> QED BY <2>1, <2>2, <2>3 DEF Nominations
<1>2. Inductive /\ Nominations /\ [Next]_vars => Nominations'
    BY RoutedStep, NominateStep, FailureStep DEF Inductive, Nominations
<1> QED BY <1>1, <1>2, AlwaysInductive, PTL DEF Spec

(* A final status of a command whose provider is read back is for ever: its *)
(* worker nominates it only after it has given up the right to fail it, and *)
(* nobody else can nominate it while that right lasts.                      *)
THEOREM ReadBackFinality == Spec => ReadBackFinalityHolds
<1>1. Inductive /\ Nominations /\ [Next]_vars =>
          [\A c \in Calls :
              /\ status[c] \in Final
              /\ SourceOf[req[c].target] \notin CallbackProviders
              => status'[c] = status[c] /\ rev'[c] = rev[c]]_vars
  <2> SUFFICES ASSUME Inductive, Nominations, [Next]_vars, NEW c \in Calls,
                      status[c] \in Final, SourceOf[req[c].target] \notin CallbackProviders,
                      status'[c] # status[c] \/ rev'[c] # rev[c]
               PROVE  FALSE
      OBVIOUS
  <2>1. PICK g \in Gens : OwesResult(g) /\ hand[g] = c
      BY FinalMoves DEF Inductive, Final
  <2>2. RoutedTo(g, c)
      BY <2>1, RuntimeAssumption DEF Nominations, WorkIsRouted
  <2>3. ~ByCallback(g)
      BY <2>2, RuntimeAssumption DEF RoutedTo, ByCallback, Request
  <2> QED BY <2>1, <2>3 DEF Nominations, FailureComesFirst
<1> QED BY <1>1, AlwaysNominations, PTL DEF Spec, ReadBackFinalityHolds
=============================================================================
