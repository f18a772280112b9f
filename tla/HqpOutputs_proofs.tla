--------------------------- MODULE HqpOutputs_proofs ---------------------------
(***************************************************************************)
(* Proofs about HqpOutputs, for every set of routes and every number of    *)
(* operations.                                                             *)
(*                                                                         *)
(* The argument: a selection whose task is at work is either the pending   *)
(* one or it has been cancelled, and what cancels it begins a new          *)
(* generation.  So a task that has passed a fence of its own generation,   *)
(* and finds the relay still in it, is neither superseded nor cancelled    *)
(* (LateFits), and the relay shows its own route and session               *)
(* (GenerationsFit).                                                       *)
(*                                                                         *)
(* The many steps of the tasks are of a few shapes, which are defined      *)
(* first: each step is shown to be of its shape, and each shape to keep    *)
(* the invariant.                                                          *)
(***************************************************************************)
EXTENDS HqpOutputs, TLAPS

(* Where an operation of the endpoint stands, and where the task of a      *)
(* selection does: before its commit, after it, and past the fence of its  *)
(* own generation.                                                         *)
AtEndpoint == {"direct", "clearing", "halting", "haltWriting", "update", "remove", "unbinding",
               "binding", "persisting"}
Late == {"playWriting", "starting", "verifying", "failing", "failWriting", "closing"}
BeforeCommit == {"direct", "spawned", "observing", "paused", "pairing", "bare", "seen", "reading",
                 "deciding", "stopping", "stopWriting", "committing"}
AfterCommit == {"paired", "resuming", "hearing", "silencing", "connecting", "connected"} \cup Late
Selecting == BeforeCommit \cup AfterCommit

Operation == [kind : Kinds, route : Routes \cup {NoRoute}, at : Points, outcome : Outcomes,
              cancelled : BOOLEAN, playing : BOOLEAN, pre : Nat, gen : Nat, seen : Nat,
              stopped : BOOLEAN]

(* The ledger grows in order, the endpoint is busy with the operation that *)
(* is at it, and an operation has committed just when its point says so.   *)
PointsFit ==
    \A i \in Ops :
        /\ i > admitted => op[i] = NoOp
        /\ op[i].at \in AtEndpoint <=> busy = i
        /\ op[i].at \in BeforeCommit => op[i].gen = 0 /\ op[i].seen = 0
        /\ op[i].at \in AfterCommit => op[i].gen # 0

(* A task at work is the pending selection or cancelled, an outcome that   *)
(* came early is a cancellation, and what is pending is newer than every   *)
(* Stop.                                                                   *)
PendingFits ==
    /\ pending <= admitted
    /\ \A i \in Ops :
          /\ op[i].at \in Selecting => pending = i \/ op[i].cancelled
          /\ op[i].at \in Selecting /\ op[i].outcome # "none" => op[i].cancelled
          /\ op[i].kind = "stop" => pending = 0 \/ pending > i

(* While the relay is in the generation of a selection's commit, it has    *)
(* its route selected and shows no session but its own.                    *)
GenerationsFit ==
    \A i \in Ops :
        /\ op[i].gen <= generation
        /\ op[i].gen # 0 /\ op[i].gen = generation =>
              selected = op[i].route /\ (shown = Nothing \/ shown.since = generation)

(* Past the fence of its own generation, and still in it, a task is not    *)
(* superseded.                                                             *)
LateFits ==
    \A i \in Ops : op[i].at \in Late /\ op[i].gen = generation =>
                      op[i].outcome = "none" /\ ~op[i].cancelled

(* A Stop waits for the write of a Play that was before it.                *)
PlaysFit ==
    \A s, i \in Ops : op[s].kind = "stop" /\ op[s].stopped /\ op[i].at = "playWriting" => i > s

IInv ==
    /\ TypeOK /\ PointsFit /\ PendingFits /\ GenerationsFit /\ LateFits /\ PlaysFit
    /\ StopReachesEverySelect /\ EvidenceIsFresh /\ GateClosedByItsOwner /\ StopMeansStopped
-------------------------------------------------------------------------------
(* The shapes of steps *)

Alone(i) == op' \in [Ops -> Operation] /\ \A j \in Ops : j # i => op'[j] = op[j]
SameCommand(i) == op'[i].kind = op[i].kind /\ op'[i].route = op[i].route
SameEvidence(i) == op'[i].gen = op[i].gen /\ op'[i].seen = op[i].seen

(* The operation goes on at another point.                                 *)
Moves(i) ==
    /\ Alone(i) /\ SameCommand(i)
    /\ op'[i].stopped = op[i].stopped
    /\ op'[i].outcome = op[i].outcome /\ op'[i].cancelled = op[i].cancelled
    /\ pending' = pending

(* The operation ends.                                                     *)
Finishes(i, outcome) ==
    /\ Alone(i) /\ SameCommand(i)
    /\ op'[i].stopped = op[i].stopped
    /\ op'[i].at = "done"
    /\ op'[i].outcome = IF op[i].outcome = "none" THEN outcome ELSE op[i].outcome
    /\ outcome # "none"
    /\ pending' = IF pending = i THEN 0 ELSE pending

(* A commit, a Heard and the like do not lead back behind the commit, and  *)
(* lead past the fence from behind it only.                                *)
Forward(i) ==
    /\ op'[i].at \in Selecting
    /\ op[i].at \in BeforeCommit <=> op'[i].at \in BeforeCommit
    /\ op'[i].at \in Late => op[i].at \in Late
    /\ op'[i].at # "direct"

Outside(i) == op[i].at \in Selecting \ (Writing \cup {"direct"})
Quietly == RelayKept /\ UNCHANGED <<lease, native>>

Walks(i) ==
    /\ Outside(i) /\ Moves(i) /\ SameEvidence(i) /\ Forward(i) /\ op'[i].at \notin Writing
    /\ Kept /\ Quietly

GivesUp(i) ==
    /\ Outside(i) /\ Kept /\ Quietly
    /\ \E outcome \in Outcomes : Finishes(i, outcome) /\ SameEvidence(i)

Commits(i) ==
    /\ op[i].at \in BeforeCommit \ Writing
    /\ CommitSelection(op[i].route)
    /\ op'[i].gen = generation' /\ op'[i].seen = op[i].seen
    /\ \/ Moves(i) /\ op'[i].at \in AfterCommit \ Late /\ op[i].at # "direct"
       \/ Finishes(i, "complete")
    /\ busy' = IF op[i].at = "direct" THEN 0 ELSE busy
    /\ UNCHANGED <<admitted, paired, faults, lease, native>>

Hears(i) ==
    /\ Outside(i) /\ op[i].at \in AfterCommit
    /\ generation = op[i].gen /\ shown # Nothing
    /\ op'[i].gen = op[i].gen /\ op'[i].seen = shown.since
    /\ \/ Moves(i) /\ Forward(i) /\ op'[i].at \notin Writing
       \/ Finishes(i, "complete")
    /\ Kept /\ Quietly

Hooks(i) ==
    /\ Outside(i) /\ Moves(i) /\ SameEvidence(i)
    /\ lease = 0 /\ lease' = i /\ ~op[i].cancelled
    /\ op'[i].at \in {"stopWriting", "playWriting", "failWriting"}
    /\ op[i].at \in BeforeCommit <=> op'[i].at \in BeforeCommit
    /\ Kept /\ RelayKept /\ UNCHANGED native

Writes(i) ==
    /\ op[i].at \in {"stopWriting", "playWriting", "failWriting"}
    /\ \/ Moves(i) /\ SameEvidence(i) /\ Forward(i) /\ op'[i].at \notin Writing
       \/ \E outcome \in Outcomes : Finishes(i, outcome) /\ SameEvidence(i)
    /\ lease' = 0
    /\ native' \in {native, <<i, "stop">>} \/ (op[i].at = "playWriting" /\ native' = <<i, "play">>)
    /\ Kept /\ RelayKept

Closes(i) ==
    /\ op[i].at = "closing"
    /\ DisableRouting(op[i].gen) \/ RelayKept
    /\ Finishes(i, "failed") /\ SameEvidence(i)
    /\ Kept /\ UNCHANGED <<lease, native>>

(* The endpoint's operations.  None of them commits or opens the gate to a *)
(* selection that is not there.                                            *)
RelayMoves == RelayKept \/ ClearSelection \/ Deselect \/ Close \/ OpenGate

EndpointMoves(i) ==
    /\ op[i].at \in AtEndpoint \ {"direct", "haltWriting"}
    /\ Moves(i) /\ SameEvidence(i)
    /\ op'[i].at \in AtEndpoint \ {"direct"}
    /\ \/ op'[i].at = "haltWriting" /\ lease = 0 /\ lease' = i
       \/ op'[i].at # "haltWriting" /\ lease' = lease
    /\ RelayMoves
    /\ UNCHANGED <<admitted, busy, paired, native, faults>>

EndpointEnds(i) ==
    /\ op[i].at \in AtEndpoint \ {"haltWriting"}
    /\ \E outcome \in Outcomes : Finishes(i, outcome) /\ SameEvidence(i)
    /\ busy' = 0
    /\ RelayMoves
    /\ UNCHANGED <<admitted, lease, paired, native, faults>>

Halts(i) ==
    /\ op[i].at = "haltWriting"
    /\ Alone(i) /\ SameCommand(i) /\ SameEvidence(i)
    /\ op'[i].at = "done" /\ op'[i].outcome # "none"
    /\ pending' = pending \/ pending' = IF pending = i THEN 0 ELSE pending
    /\ busy' = 0 /\ lease' = 0 /\ native' \in {native, <<i, "stop">>}
    /\ op'[i].stopped => op[i].stopped \/ native' = <<i, "stop">>
    /\ RelayKept
    /\ UNCHANGED <<admitted, paired, faults>>

(* A command is admitted, and may supersede the pending selection.         *)
Admitted ==
    LET n == admitted'
    IN  /\ n = admitted + 1 /\ n \in Ops /\ busy = 0
        /\ op' \in [Ops -> Operation]
        /\ op'[n].outcome = "none" /\ ~op'[n].cancelled /\ ~op'[n].stopped
        /\ op'[n].gen = 0 /\ op'[n].seen = 0
        /\ op'[n].at \in (AtEndpoint \ {"haltWriting"}) \cup {"spawned"}
        /\ busy' = IF op'[n].at \in AtEndpoint THEN n ELSE 0
        /\ op'[n].at \in Selecting <=> op'[n].kind = "select"
        /\ UNCHANGED <<lease, paired, native, faults>>

OthersKept(n) ==
    \A j \in Ops : j # n =>
        /\ op'[j].kind = op[j].kind /\ op'[j].route = op[j].route /\ op'[j].at = op[j].at
        /\ op'[j].stopped = op[j].stopped /\ op'[j].gen = op[j].gen /\ op'[j].seen = op[j].seen
        /\ j # pending => op'[j] = op[j]
        /\ j = pending =>
              /\ op'[j].cancelled
              /\ op'[j].outcome = IF op[j].outcome = "none" THEN "cancelled" ELSE op[j].outcome

Supersedes ==
    /\ Admitted /\ OthersKept(admitted')
    /\ pending' = IF op'[admitted'].kind = "select" THEN admitted' ELSE 0
    /\ BumpGeneration

Joins ==
    /\ Admitted /\ op'[admitted'].kind \in {"update", "remove"}
    /\ \A j \in Ops : j # admitted' => op'[j] = op[j]
    /\ pending' = pending
    /\ RelayKept
-------------------------------------------------------------------------------
(* Each step is of its shape *)

LEMMA OpTyped == TypeOK => op \in [Ops -> Operation]
BY DEF TypeOK, Operation

LEMMA NoneOfThem == 0 \notin Ops /\ Ops \subseteq Nat
BY OutputsAssumption DEF Ops

LEMMA Named ==
    /\ {"done", "paired", "connecting", "connected", "verifying"} \subseteq Points
    /\ {"complete", "failed", "partial", "cancelled"} \subseteq Outcomes
BY DEF Points, Outcomes

LEMMA Replaced ==
    ASSUME TypeOK, NEW i \in Ops, NEW o \in Operation, op' = [op EXCEPT ![i] = o]
    PROVE  Alone(i) /\ op'[i] = o
BY OpTyped DEF Alone

(* What a change of some fields leaves of the others.                      *)
LEMMA EndedFields ==
    ASSUME NEW o \in Operation, NEW outcome \in Outcomes
    PROVE  /\ Ended(o, outcome) \in Operation
           /\ Ended(o, outcome).kind = o.kind /\ Ended(o, outcome).route = o.route
           /\ Ended(o, outcome).stopped = o.stopped
           /\ Ended(o, outcome).gen = o.gen /\ Ended(o, outcome).seen = o.seen
           /\ Ended(o, outcome).at = "done"
           /\ Ended(o, outcome).outcome = IF o.outcome = "none" THEN outcome ELSE o.outcome
BY Named DEF Ended, Operation

LEMMA GenFields ==
    ASSUME NEW o \in Operation, NEW n \in Nat
    PROVE  LET x == [o EXCEPT !.gen = n]
           IN  /\ x \in Operation /\ x.gen = n /\ x.seen = o.seen
               /\ x.kind = o.kind /\ x.route = o.route /\ x.at = o.at
               /\ x.outcome = o.outcome /\ x.cancelled = o.cancelled /\ x.stopped = o.stopped
BY DEF Operation

LEMMA SeenFields ==
    ASSUME NEW o \in Operation, NEW n \in Nat
    PROVE  LET x == [o EXCEPT !.seen = n]
           IN  /\ x \in Operation /\ x.gen = o.gen /\ x.seen = n
               /\ x.kind = o.kind /\ x.route = o.route /\ x.at = o.at
               /\ x.outcome = o.outcome /\ x.cancelled = o.cancelled /\ x.stopped = o.stopped
BY DEF Operation

LEMMA PointFields ==
    ASSUME NEW o \in Operation, NEW p \in Points, NEW x, x = [o EXCEPT !.at = p]
    PROVE  /\ x \in Operation /\ x.at = p
           /\ x.kind = o.kind /\ x.route = o.route /\ x.stopped = o.stopped
           /\ x.outcome = o.outcome /\ x.cancelled = o.cancelled
           /\ x.gen = o.gen /\ x.seen = o.seen
BY DEF Operation

LEMMA GoMoves ==
    ASSUME TypeOK, NEW i \in Ops, NEW p \in Points, Go(i, p), pending' = pending
    PROVE  Moves(i) /\ SameEvidence(i) /\ op'[i].at = p
<1>1. op[i] \in Operation
    BY OpTyped
<1> DEFINE x == [op[i] EXCEPT !.at = p]
<1>2. op' = [op EXCEPT ![i] = x]
    BY DEF Go
<1>3. /\ x \in Operation /\ x.at = p
      /\ x.kind = op[i].kind /\ x.route = op[i].route /\ x.stopped = op[i].stopped
      /\ x.outcome = op[i].outcome /\ x.cancelled = op[i].cancelled
      /\ x.gen = op[i].gen /\ x.seen = op[i].seen
    BY <1>1, PointFields
<1> HIDE DEF x
<1>4. Alone(i) /\ op'[i] = x
    BY <1>2, <1>3, Replaced
<1> QED BY <1>3, <1>4 DEF Moves, SameEvidence, SameCommand

LEMMA EndFinishes ==
    ASSUME TypeOK, NEW i \in Ops, NEW outcome \in Outcomes \ {"none"}, End(i, outcome)
    PROVE  Finishes(i, outcome) /\ SameEvidence(i)
<1>1. op[i] \in Operation
    BY OpTyped
<1>2. Alone(i) /\ op'[i] = Ended(op[i], outcome)
    BY <1>1, EndedFields, Replaced DEF End
<1> QED BY <1>1, <1>2, EndedFields DEF End, Finishes, SameEvidence, SameCommand

LEMMA CommitShape ==
    ASSUME TypeOK, NEW i \in Ops, NEW at \in {"done", "paired", "connecting"}, Commit(i, at),
           op[i].at \in BeforeCommit \ Writing, at # "done" => op[i].at # "direct",
           UNCHANGED <<admitted, paired, faults, lease, native>>,
           busy' = IF op[i].at = "direct" THEN 0 ELSE busy
    PROVE  Commits(i) \/ (RelayKept /\ Finishes(i, "failed") /\ SameEvidence(i))
<1>1. op[i] \in Operation
    BY OpTyped
<1>2. CASE End(i, "failed") /\ RelayKept
    BY <1>2, EndFinishes, Named
<1>3. CASE /\ CommitSelection(op[i].route) /\ at = "done"
           /\ op' = [op EXCEPT ![i] = [Ended(@, "complete") EXCEPT !.gen = generation']]
           /\ pending' = IF pending = i THEN 0 ELSE pending
  <2>1. generation' \in Nat
      BY <1>3 DEF CommitSelection, Teardown, TypeOK
  <2> DEFINE e == Ended(op[i], "complete")
             x == [e EXCEPT !.gen = generation']
  <2>2. /\ e \in Operation /\ e.kind = op[i].kind /\ e.route = op[i].route
        /\ e.stopped = op[i].stopped /\ e.seen = op[i].seen /\ e.at = "done"
        /\ e.outcome = IF op[i].outcome = "none" THEN "complete" ELSE op[i].outcome
      BY <1>1, EndedFields, Named
  <2>3. op' = [op EXCEPT ![i] = x]
      BY <1>3
  <2> HIDE DEF e
  <2>4. /\ x \in Operation /\ x.gen = generation' /\ x.seen = e.seen
        /\ x.kind = e.kind /\ x.route = e.route /\ x.at = e.at
        /\ x.outcome = e.outcome /\ x.stopped = e.stopped
    <3>1. e \in Operation
        BY <2>2
    <3> QED BY <2>1, <3>1, GenFields
  <2> HIDE DEF x
  <2>5. Alone(i) /\ op'[i] = x
      BY <2>3, <2>4, Replaced
  <2>6. Finishes(i, "complete") /\ op'[i].gen = generation' /\ op'[i].seen = op[i].seen
      BY <1>3, <2>2, <2>4, <2>5 DEF Finishes, SameCommand
  <2> QED BY <1>3, <2>6 DEF Commits
<1>4. CASE /\ CommitSelection(op[i].route) /\ at # "done"
           /\ op' = [op EXCEPT ![i].at = at, ![i].gen = generation']
           /\ pending' = pending
  <2>1. generation' \in Nat
      BY <1>4 DEF CommitSelection, Teardown, TypeOK
  <2> DEFINE e == [op[i] EXCEPT !.at = at]
             x == [e EXCEPT !.gen = generation']
  <2>2. /\ e \in Operation /\ e.kind = op[i].kind /\ e.route = op[i].route
        /\ e.stopped = op[i].stopped /\ e.seen = op[i].seen /\ e.at = at
        /\ e.outcome = op[i].outcome /\ e.cancelled = op[i].cancelled
      BY <1>1, PointFields, Named
  <2>3. op' = [op EXCEPT ![i] = x]
      BY <1>1, <1>4, OpTyped DEF Operation
  <2> HIDE DEF e
  <2>4. /\ x \in Operation /\ x.gen = generation' /\ x.seen = e.seen
        /\ x.kind = e.kind /\ x.route = e.route /\ x.at = e.at
        /\ x.outcome = e.outcome /\ x.cancelled = e.cancelled /\ x.stopped = e.stopped
    <3>1. e \in Operation
        BY <2>2
    <3> QED BY <2>1, <3>1, GenFields
  <2> HIDE DEF x
  <2>5. Alone(i) /\ op'[i] = x
      BY <2>3, <2>4, Replaced
  <2>6. /\ Moves(i) /\ op'[i].gen = generation' /\ op'[i].seen = op[i].seen
        /\ op'[i].at = at
      BY <1>4, <2>2, <2>4, <2>5 DEF Moves, SameCommand
  <2> QED BY <1>4, <2>6 DEF Commits, AfterCommit, Late
<1> QED BY <1>2, <1>3, <1>4 DEF Commit

LEMMA HeardShape ==
    ASSUME TypeOK, NEW i \in Ops, NEW next \in {"done", "connected", "verifying"}, Heard(i, next),
           op[i].at \in {"hearing", "connecting", "starting"},
           next = "verifying" => op[i].at = "starting",
           generation = op[i].gen, shown # Nothing, Kept, Quietly
    PROVE  Hears(i)
<1>1. op[i] \in Operation /\ shown.since \in Nat
    BY OpTyped DEF TypeOK
<1> DEFINE b == IF next = "done" THEN Ended(op[i], "complete") ELSE op[i]
           e == [b EXCEPT !.at = next]
           x == [e EXCEPT !.seen = shown.since]
<1>2. /\ b \in Operation /\ b.kind = op[i].kind /\ b.route = op[i].route
      /\ b.stopped = op[i].stopped /\ b.gen = op[i].gen
      /\ next = "done" =>
            b.outcome = IF op[i].outcome = "none" THEN "complete" ELSE op[i].outcome
      /\ next # "done" => b.outcome = op[i].outcome /\ b.cancelled = op[i].cancelled
  <2>1. CASE next = "done"
      BY <1>1, <2>1, EndedFields, Named
  <2>2. CASE next # "done"
      BY <1>1, <2>2
  <2> QED BY <2>1, <2>2
<1> HIDE DEF b
<1>3. /\ e \in Operation /\ e.kind = b.kind /\ e.route = b.route /\ e.stopped = b.stopped
      /\ e.gen = b.gen /\ e.at = next /\ e.outcome = b.outcome /\ e.cancelled = b.cancelled
    BY <1>2, PointFields, Named
<1>4. x = [b EXCEPT !.at = next, !.seen = shown.since]
    BY <1>2 DEF Operation
<1>5. op' = [op EXCEPT ![i] = x]
    BY <1>4 DEF Heard, b
<1> HIDE DEF e
<1>6. /\ x \in Operation /\ x.gen = e.gen /\ x.seen = shown.since
      /\ x.kind = e.kind /\ x.route = e.route /\ x.at = e.at
      /\ x.outcome = e.outcome /\ x.cancelled = e.cancelled /\ x.stopped = e.stopped
  <2>1. e \in Operation /\ shown.since \in Nat
      BY <1>1, <1>3
  <2> QED BY <2>1, SeenFields
<1> HIDE DEF x
<1>7. Alone(i) /\ op'[i] = x
    BY <1>5, <1>6, Replaced
<1>8. op'[i].gen = op[i].gen /\ op'[i].seen = shown.since /\ op'[i].at = next
    BY <1>2, <1>3, <1>6, <1>7
<1>9. CASE next = "done"
  <2>1. Finishes(i, "complete")
      BY <1>2, <1>3, <1>6, <1>7, <1>9 DEF Finishes, SameCommand, Heard
  <2> QED BY <1>8, <2>1 DEF Hears, Outside, Selecting, AfterCommit, Writing, Late
<1>10. CASE next # "done"
  <2>1. Moves(i)
      BY <1>2, <1>3, <1>6, <1>7, <1>10 DEF Moves, SameCommand, Heard
  <2>2. Forward(i) /\ next \notin Writing
      BY <1>8, <1>10 DEF Forward, Selecting, AfterCommit, BeforeCommit, Writing, Late
  <2> QED BY <1>8, <2>1, <2>2 DEF Hears, Outside, Selecting, AfterCommit, Writing, Late
<1> QED BY <1>9, <1>10

(* Two points remember something of the moment.                            *)
LEMMA MemoMoves ==
    ASSUME TypeOK, NEW i \in Ops, pending' = pending, NEW p \in Points,
           \/ \E b \in BOOLEAN : op' = [op EXCEPT ![i].at = p, ![i].playing = b]
           \/ op' = [op EXCEPT ![i].at = p, ![i].pre = generation]
    PROVE  Moves(i) /\ SameEvidence(i) /\ op'[i].at = p
<1>1. op[i] \in Operation /\ generation \in Nat
    BY OpTyped DEF TypeOK
<1>2. ASSUME NEW b \in BOOLEAN, op' = [op EXCEPT ![i].at = p, ![i].playing = b]
      PROVE  Moves(i) /\ SameEvidence(i) /\ op'[i].at = p
  <2> DEFINE x == [op[i] EXCEPT !.at = p, !.playing = b]
  <2>1. op' = [op EXCEPT ![i] = x]
      BY <1>1, <1>2, OpTyped DEF Operation
  <2>2. /\ x \in Operation /\ x.at = p
        /\ x.kind = op[i].kind /\ x.route = op[i].route /\ x.stopped = op[i].stopped
        /\ x.outcome = op[i].outcome /\ x.cancelled = op[i].cancelled
        /\ x.gen = op[i].gen /\ x.seen = op[i].seen
      BY <1>1, <1>2 DEF Operation
  <2> HIDE DEF x
  <2>3. Alone(i) /\ op'[i] = x
      BY <2>1, <2>2, Replaced
  <2> QED BY <2>2, <2>3 DEF Moves, SameEvidence, SameCommand
<1>3. ASSUME op' = [op EXCEPT ![i].at = p, ![i].pre = generation]
      PROVE  Moves(i) /\ SameEvidence(i) /\ op'[i].at = p
  <2> DEFINE x == [op[i] EXCEPT !.at = p, !.pre = generation]
  <2>1. op' = [op EXCEPT ![i] = x]
      BY <1>1, <1>3, OpTyped DEF Operation
  <2>2. /\ x \in Operation /\ x.at = p
        /\ x.kind = op[i].kind /\ x.route = op[i].route /\ x.stopped = op[i].stopped
        /\ x.outcome = op[i].outcome /\ x.cancelled = op[i].cancelled
        /\ x.gen = op[i].gen /\ x.seen = op[i].seen
      BY <1>1 DEF Operation
  <2> HIDE DEF x
  <2>3. Alone(i) /\ op'[i] = x
      BY <2>1, <2>2, Replaced
  <2> QED BY <2>2, <2>3 DEF Moves, SameEvidence, SameCommand
<1> QED BY <1>2, <1>3

(* The two commonest steps: on to the next point, and the end.             *)
LEMMA GoWalks ==
    ASSUME TypeOK, NEW i \in Ops, Kept, Quietly, pending' = pending, Outside(i),
           NEW p \in Selecting \ (Writing \cup {"direct"}),
           Go(i, p), op[i].at \in BeforeCommit <=> p \in BeforeCommit,
           p \in Late => op[i].at \in Late
    PROVE  Walks(i)
<1>1. p \in Points
    BY DEF Points, Selecting, BeforeCommit, AfterCommit, Late
<1> QED BY <1>1, GoMoves DEF Walks, Forward

LEMMA EndGivesUp ==
    ASSUME TypeOK, NEW i \in Ops, Kept, Quietly, Outside(i),
           \E outcome \in Outcomes \ {"none"} : End(i, outcome)
    PROVE  GivesUp(i)
BY EndFinishes DEF GivesUp

LEMMA AbortGivesUp ==
    ASSUME TypeOK, NEW i \in Ops, Kept, Quietly, Outside(i), Abort(i)
    PROVE  GivesUp(i)
BY EndGivesUp, Named DEF Abort

TaskShape(i) == Walks(i) \/ GivesUp(i) \/ Commits(i) \/ Hears(i) \/ Hooks(i) \/ Writes(i) \/ Closes(i)

LEMMA AwaitShape ==
    ASSUME TypeOK, NEW i \in Ops, NEW reached, NEW next \in {"done", "connected", "verifying"},
           NEW given \in {"silencing", "failed", "failing"}, Await(i, reached, next, given),
           op[i].at \in {"hearing", "connecting", "starting"},
           next = "verifying" => op[i].at = "starting",
           given = "failing" => op[i].at = "starting", Kept, Quietly
    PROVE  Walks(i) \/ GivesUp(i) \/ Hears(i)
<1>0. Outside(i)
    BY DEF Outside, Selecting, AfterCommit, Late, Writing
<1>1. CASE Abort(i)
    BY <1>0, <1>1, AbortGivesUp
<1>2. CASE generation = op[i].gen /\ shown # Nothing /\ Heard(i, next)
    BY <1>2, HeardShape
<1>3. CASE Unheard(i, given)
  <2>1. CASE given = "failed"
      BY <1>0, <1>3, <2>1, EndGivesUp, Named DEF Unheard
  <2>2. CASE given # "failed"
    <3>1. Go(i, given) /\ pending' = pending
        BY <1>3, <2>2 DEF Unheard
    <3>2. /\ given \in Selecting \ (Writing \cup {"direct"})
          /\ op[i].at \in BeforeCommit <=> given \in BeforeCommit
          /\ given \in Late => op[i].at \in Late
        BY <2>2 DEF Selecting, AfterCommit, BeforeCommit, Late, Writing
    <3> QED BY <1>0, <3>1, <3>2, GoWalks
  <2> QED BY <2>1, <2>2
<1> QED BY <1>1, <1>2, <1>3 DEF Await

LEMMA HookShape ==
    ASSUME TypeOK, NEW i \in Ops, NEW g, NEW w \in {"stopWriting", "playWriting", "failWriting"},
           Hook(i, g, w), Outside(i), op[i].at \in BeforeCommit <=> w \in BeforeCommit,
           Kept, RelayKept, native' = native
    PROVE  Hooks(i)
<1>1. w \in Points
    BY DEF Points
<1> QED BY <1>1, GoMoves DEF Hook, Hooks, Fenced

LEMMA WrittenShape ==
    ASSUME TypeOK, NEW i \in Ops, NEW what \in {"stop", "play"},
           NEW done \in {"deciding", "starting"}, NEW unsure \in {"failed", "failing"},
           Written(i, what, done, unsure),
           \/ op[i].at = "stopWriting" /\ what = "stop" /\ done = "deciding" /\ unsure = "failed"
           \/ op[i].at = "playWriting" /\ what = "play" /\ done = "starting" /\ unsure = "failing"
    PROVE  Writes(i)
<1>1. ASSUME NEW p \in {done, unsure}, p # "failed", Go(i, p), pending' = pending
      PROVE  Moves(i) /\ SameEvidence(i) /\ Forward(i) /\ op'[i].at \notin Writing
  <2>1. p \in Points
      BY <1>1 DEF Points
  <2>2. Moves(i) /\ SameEvidence(i) /\ op'[i].at = p
      BY <1>1, <2>1, GoMoves
  <2> QED BY <1>1, <2>2 DEF Forward, Selecting, AfterCommit, BeforeCommit, Late, Writing
<1>2. ASSUME End(i, "failed") \/ Abort(i)
      PROVE  \E outcome \in Outcomes : Finishes(i, outcome) /\ SameEvidence(i)
    BY <1>2, EndFinishes, Named DEF Abort
<1> QED BY <1>1, <1>2 DEF Written, Writes

LEMMA TaskIsShaped ==
    ASSUME TypeOK, NEW i \in Ops, Task(i)
    PROVE  TaskShape(i)
<1> USE DEF TaskShape
<1>1. CASE Pause(i)
  <2>1. Outside(i) /\ op[i].at = "spawned" /\ Kept /\ Quietly
      BY <1>1 DEF Pause, Outside, Quietly, Selecting, AfterCommit, BeforeCommit, Late, Writing
  <2>2. CASE Go(i, "observing") /\ pending' = pending
    <3>1. "observing" \in Selecting \ (Writing \cup {"direct"}) /\ "observing" \in BeforeCommit
          /\ "observing" \notin Late /\ op[i].at \in BeforeCommit
        BY <2>1 DEF Selecting, AfterCommit, BeforeCommit, Late, Writing
    <3> QED BY <2>1, <2>2, <3>1, GoWalks
  <2>3. CASE /\ \E p \in BOOLEAN : op' = [op EXCEPT ![i].at = "paused", ![i].playing = p]
             /\ pending' = pending
    <3>1. Moves(i) /\ SameEvidence(i) /\ op'[i].at = "paused"
        BY <2>3, MemoMoves DEF Points
    <3> QED BY <2>1, <3>1 DEF Walks, Forward, Selecting, AfterCommit, BeforeCommit, Late, Writing
  <2> QED BY <1>1, <2>1, <2>2, <2>3, EndGivesUp, AbortGivesUp, Named DEF Pause
<1>2. CASE Paused(i)
  <2>1. Outside(i) /\ op[i].at = "paused" /\ Kept /\ Quietly
      BY <1>2 DEF Paused, Outside, Quietly, Selecting, AfterCommit, BeforeCommit, Late, Writing
  <2>2. ASSUME NEW p \in {"pairing"}, Go(i, p), pending' = pending
        PROVE  Walks(i)
    <3>1. /\ p \in Selecting \ (Writing \cup {"direct"})
          /\ op[i].at \in BeforeCommit <=> p \in BeforeCommit
          /\ p \in Late => op[i].at \in Late
        BY <2>1, <2>2 DEF Selecting, AfterCommit, BeforeCommit, Late, Writing
    <3> QED BY <2>1, <2>2, <3>1, GoWalks
  <2> QED BY <1>2, <2>1, <2>2, EndGivesUp, AbortGivesUp, Named DEF Paused
<1>3. CASE PairCommit(i)
  <2>1. Outside(i) /\ op[i].at = "pairing" /\ Kept /\ UNCHANGED <<lease, native>>
      BY <1>3 DEF PairCommit, Outside, Selecting, AfterCommit, BeforeCommit, Late, Writing
  <2>2. CASE Abort(i) /\ RelayKept
      BY <2>1, <2>2, AbortGivesUp DEF Quietly
  <2>3. ASSUME NEW at \in {"paired", "done"}, Commit(i, at)
        PROVE  TaskShape(i)
    <3>1. Commits(i) \/ (RelayKept /\ Finishes(i, "failed") /\ SameEvidence(i))
        BY <2>1, <2>3, CommitShape DEF Kept, BeforeCommit, Writing
    <3> QED BY <2>1, <3>1, Named DEF GivesUp, Quietly
  <2> QED BY <1>3, <2>2, <2>3 DEF PairCommit
<1>4. CASE Resume(i)
  <2>1. Outside(i) /\ op[i].at = "paired" /\ Kept /\ Quietly
      BY <1>4 DEF Resume, Outside, Quietly, Selecting, AfterCommit, BeforeCommit, Late, Writing
  <2>2. ASSUME NEW p \in {"resuming"}, Go(i, p), pending' = pending
        PROVE  Walks(i)
    <3>1. /\ p \in Selecting \ (Writing \cup {"direct"})
          /\ op[i].at \in BeforeCommit <=> p \in BeforeCommit
          /\ p \in Late => op[i].at \in Late
        BY <2>1, <2>2 DEF Selecting, AfterCommit, BeforeCommit, Late, Writing
    <3> QED BY <2>1, <2>2, <3>1, GoWalks
  <2> QED BY <1>4, <2>1, <2>2, EndGivesUp, AbortGivesUp, Named DEF Resume
<1>5. CASE Resumed(i)
  <2>1. Outside(i) /\ op[i].at = "resuming" /\ Kept /\ Quietly
      BY <1>5 DEF Resumed, Outside, Quietly, Selecting, AfterCommit, BeforeCommit, Late, Writing
  <2>2. ASSUME NEW p \in {"hearing"}, Go(i, p), pending' = pending
        PROVE  Walks(i)
    <3>1. /\ p \in Selecting \ (Writing \cup {"direct"})
          /\ op[i].at \in BeforeCommit <=> p \in BeforeCommit
          /\ p \in Late => op[i].at \in Late
        BY <2>1, <2>2 DEF Selecting, AfterCommit, BeforeCommit, Late, Writing
    <3> QED BY <2>1, <2>2, <3>1, GoWalks
  <2> QED BY <1>5, <2>1, <2>2, EndGivesUp, AbortGivesUp, Named DEF Resumed
<1>6. CASE Waits(i)
  <2>1. Kept /\ Quietly
      BY <1>6 DEF Waits, Quietly
  <2>2. CASE op[i].at = "hearing" /\ Await(i, Milestones, "done", "silencing")
      BY <2>1, <2>2, AwaitShape
  <2>3. CASE op[i].at = "connecting" /\ Await(i, {"initialized"}, "connected", "failed")
      BY <2>1, <2>3, AwaitShape
  <2>4. CASE op[i].at = "starting" /\ Await(i, {"playing"}, "verifying", "failing")
      BY <2>1, <2>4, AwaitShape
  <2> QED BY <1>6, <2>2, <2>3, <2>4 DEF Waits
<1>7. CASE Silence(i)
  <2>1. Outside(i) /\ op[i].at = "silencing" /\ Kept /\ Quietly
      BY <1>7 DEF Silence, Outside, Quietly, Selecting, AfterCommit, BeforeCommit, Late, Writing
  <2> QED BY <1>7, <2>1, EndGivesUp, AbortGivesUp, Named DEF Silence
<1>8. CASE Observe(i)
  <2>1. Outside(i) /\ op[i].at = "observing" /\ Kept /\ Quietly /\ pending' = pending
      BY <1>8 DEF Observe, Outside, Quietly, Selecting, AfterCommit, BeforeCommit, Late, Writing
  <2>2. PICK p \in {"bare", "seen"} : Go(i, p)
      BY <1>8 DEF Observe
  <2>3. /\ p \in Selecting \ (Writing \cup {"direct"})
        /\ op[i].at \in BeforeCommit <=> p \in BeforeCommit
        /\ p \in Late => op[i].at \in Late
      BY <2>1 DEF Selecting, AfterCommit, BeforeCommit, Late, Writing
  <2> QED BY <2>1, <2>2, <2>3, GoWalks
<1>9. CASE Bare(i)
  <2>1. Outside(i) /\ op[i].at = "bare" /\ Kept /\ UNCHANGED <<lease, native>>
      BY <1>9 DEF Bare, Outside, Selecting, AfterCommit, BeforeCommit, Late, Writing
  <2>2. PICK at \in {"done"} : Commit(i, at)
      BY <1>9 DEF Bare
  <2>3. Commits(i) \/ (RelayKept /\ Finishes(i, "failed") /\ SameEvidence(i))
      BY <2>1, <2>2, CommitShape DEF Kept, BeforeCommit, Writing
  <2> QED BY <2>1, <2>3, Named DEF GivesUp, Quietly
<1>10. CASE Claim(i)
  <2>1. Outside(i) /\ op[i].at = "seen" /\ Kept /\ Quietly
      BY <1>10 DEF Claim, Outside, Quietly, Selecting, AfterCommit, BeforeCommit, Late, Writing
  <2>2. Moves(i) /\ SameEvidence(i) /\ op'[i].at = "reading"
      BY <1>10, MemoMoves DEF Claim, Points
  <2> QED BY <2>1, <2>2 DEF Walks, Forward, Selecting, AfterCommit, BeforeCommit, Late, Writing
<1>11. CASE Read(i)
  <2>1. Outside(i) /\ op[i].at = "reading" /\ Kept /\ Quietly
      BY <1>11 DEF Read, Outside, Quietly, Selecting, AfterCommit, BeforeCommit, Late, Writing
  <2>2. CASE Go(i, "deciding") /\ pending' = pending
    <3>1. "deciding" \in Selecting \ (Writing \cup {"direct"}) /\ "deciding" \in BeforeCommit
          /\ "deciding" \notin Late /\ op[i].at \in BeforeCommit
        BY <2>1 DEF Selecting, AfterCommit, BeforeCommit, Late, Writing
    <3> QED BY <2>1, <2>2, <3>1, GoWalks
  <2>3. CASE \E p \in BOOLEAN :
                op' = [op EXCEPT ![i].at = "stopping", ![i].playing = p] /\ UNCHANGED pending
    <3>0. "stopping" \in Points
        BY DEF Points
    <3>1. Moves(i) /\ SameEvidence(i) /\ op'[i].at = "stopping"
        BY <2>3, <3>0, MemoMoves
    <3> QED BY <2>1, <3>1 DEF Walks, Forward, Selecting, AfterCommit, BeforeCommit, Late, Writing
  <2>4. CASE End(i, "failed")
    <3>1. \E outcome \in Outcomes \ {"none"} : End(i, outcome)
        BY <2>4, Named
    <3> QED BY <2>1, <3>1, EndGivesUp
  <2>5. CASE Abort(i)
    <3> QED BY <2>1, <2>5, AbortGivesUp
  <2> QED BY <1>11, <2>2, <2>3, <2>4, <2>5 DEF Read
<1>12. CASE StopSource(i)
  <2>1. Outside(i) /\ op[i].at = "stopping" /\ Kept /\ RelayKept /\ native' = native
      BY <1>12 DEF StopSource, Outside, Selecting, AfterCommit, BeforeCommit, Late, Writing
  <2>2. CASE Hook(i, op[i].pre, "stopWriting")
    <3>1. op[i].at \in BeforeCommit <=> "stopWriting" \in BeforeCommit
        BY <2>1 DEF Selecting, AfterCommit, BeforeCommit, Late, Writing
    <3> QED BY <2>1, <2>2, <3>1, HookShape
  <2>3. CASE Abort(i) /\ lease' = lease
      BY <2>1, <2>3, AbortGivesUp DEF Quietly
  <2> QED BY <1>12, <2>2, <2>3 DEF StopSource
<1>13. CASE StopWritten(i)
    BY <1>13, WrittenShape DEF StopWritten
<1>14. CASE Decide(i)
  <2>1. Outside(i) /\ op[i].at = "deciding" /\ Kept /\ Quietly
      BY <1>14 DEF Decide, Outside, Quietly, Selecting, AfterCommit, BeforeCommit, Late, Writing
  <2>2. ASSUME NEW p \in {"committing"}, Go(i, p), pending' = pending
        PROVE  Walks(i)
    <3>1. /\ p \in Selecting \ (Writing \cup {"direct"})
          /\ op[i].at \in BeforeCommit <=> p \in BeforeCommit
          /\ p \in Late => op[i].at \in Late
        BY <2>1, <2>2 DEF Selecting, AfterCommit, BeforeCommit, Late, Writing
    <3> QED BY <2>1, <2>2, <3>1, GoWalks
  <2> QED BY <1>14, <2>1, <2>2, EndGivesUp, AbortGivesUp, Named DEF Decide
<1>15. CASE CommitRoute(i)
  <2>1. Outside(i) /\ op[i].at = "committing" /\ Kept /\ UNCHANGED <<lease, native>>
      BY <1>15 DEF CommitRoute, Outside, Selecting, AfterCommit, BeforeCommit, Late, Writing
  <2>2. PICK at \in {"connecting", "done"} : Commit(i, at)
      BY <1>15 DEF CommitRoute
  <2>3. Commits(i) \/ (RelayKept /\ Finishes(i, "failed") /\ SameEvidence(i))
      BY <2>1, <2>2, CommitShape DEF Kept, BeforeCommit, Writing
  <2> QED BY <2>1, <2>3, Named DEF GivesUp, Quietly
<1>16. CASE Play(i)
  <2>1. Outside(i) /\ op[i].at = "connected" /\ Kept /\ RelayKept /\ native' = native
      BY <1>16 DEF Play, Outside, Selecting, AfterCommit, BeforeCommit, Late, Writing
  <2>2. CASE Hook(i, op[i].gen, "playWriting")
    <3>1. op[i].at \in BeforeCommit <=> "playWriting" \in BeforeCommit
        BY <2>1 DEF Selecting, AfterCommit, BeforeCommit, Late, Writing
    <3> QED BY <2>1, <2>2, <3>1, HookShape
  <2>3. CASE Abort(i) /\ lease' = lease
      BY <2>1, <2>3, AbortGivesUp DEF Quietly
  <2> QED BY <1>16, <2>2, <2>3 DEF Play
<1>17. CASE PlayWritten(i)
    BY <1>17, WrittenShape DEF PlayWritten
<1>18. CASE Verify(i)
  <2>1. Outside(i) /\ op[i].at = "verifying" /\ Kept /\ Quietly
      BY <1>18 DEF Verify, Outside, Quietly, Selecting, AfterCommit, BeforeCommit, Late, Writing
  <2>2. ASSUME NEW p \in {"failing"}, Go(i, p), pending' = pending
        PROVE  Walks(i)
    <3>1. /\ p \in Selecting \ (Writing \cup {"direct"})
          /\ op[i].at \in BeforeCommit <=> p \in BeforeCommit
          /\ p \in Late => op[i].at \in Late
        BY <2>1, <2>2 DEF Selecting, AfterCommit, BeforeCommit, Late, Writing
    <3> QED BY <2>1, <2>2, <3>1, GoWalks
  <2> QED BY <1>18, <2>1, <2>2, EndGivesUp, AbortGivesUp, Named DEF Verify
<1>19. CASE Fail(i)
  <2>1. Outside(i) /\ op[i].at = "failing" /\ Kept /\ RelayKept /\ native' = native
      BY <1>19 DEF Fail, Outside, Selecting, AfterCommit, BeforeCommit, Late, Writing
  <2>2. CASE Hook(i, op[i].gen, "failWriting")
    <3>1. op[i].at \in BeforeCommit <=> "failWriting" \in BeforeCommit
        BY <2>1 DEF Selecting, AfterCommit, BeforeCommit, Late, Writing
    <3> QED BY <2>1, <2>2, <3>1, HookShape
  <2>3. CASE Go(i, "closing") /\ UNCHANGED <<pending, lease>>
    <3>1. "closing" \in Selecting \ (Writing \cup {"direct"}) /\ "closing" \notin BeforeCommit
          /\ op[i].at \notin BeforeCommit /\ op[i].at \in Late
        BY <2>1 DEF Selecting, AfterCommit, BeforeCommit, Late, Writing
    <3> QED BY <2>1, <2>3, <3>1, GoWalks DEF Quietly
  <2> QED BY <1>19, <2>2, <2>3 DEF Fail
<1>20. CASE FailWritten(i)
  <2>1. Moves(i) /\ SameEvidence(i) /\ op'[i].at = "closing"
      BY <1>20, GoMoves DEF FailWritten, Points
  <2> QED BY <1>20, <2>1 DEF FailWritten, Writes, Forward, Selecting, AfterCommit, BeforeCommit, Late, Writing
<1>21. CASE CloseGate(i)
    BY <1>21, EndFinishes, Named DEF CloseGate, Closes
<1> QED BY <1>1, <1>2, <1>3, <1>4, <1>5, <1>6, <1>7, <1>8, <1>9, <1>10, <1>11, <1>12, <1>13, <1>14,
         <1>15, <1>16, <1>17, <1>18, <1>19,
         <1>20, <1>21 DEF Task

ExecuteShape(i) == Commits(i) \/ EndpointMoves(i) \/ EndpointEnds(i) \/ Halts(i)

LEMMA ExecuteIsShaped ==
    ASSUME TypeOK, NEW i \in Ops, Execute(i)
    PROVE  ExecuteShape(i)
<1> USE DEF ExecuteShape
<1>a. ASSUME NEW from \in AtEndpoint \ {"direct", "haltWriting"}, op[i].at = from,
             NEW p \in AtEndpoint \ {"direct"}, Go(i, p), pending' = pending,
             \/ p = "haltWriting" /\ lease = 0 /\ lease' = i
             \/ p # "haltWriting" /\ lease' = lease,
             RelayMoves, UNCHANGED <<admitted, busy, paired, native, faults>>
      PROVE  EndpointMoves(i)
  <2>1. p \in Points
      BY <1>a DEF AtEndpoint, Points
  <2> QED BY <1>a, <2>1, GoMoves DEF EndpointMoves
<1>b. ASSUME op[i].at \in AtEndpoint \ {"haltWriting"}, NEW outcome \in {"complete", "failed", "partial"},
             End(i, outcome), busy' = 0, RelayMoves, UNCHANGED <<admitted, lease, paired, native, faults>>
      PROVE  EndpointEnds(i)
    BY <1>b, EndFinishes, Named DEF EndpointEnds
<1>1. CASE Direct(i)
  <2>1. op[i].at = "direct" /\ op[i].at \in BeforeCommit \ Writing
      BY <1>1 DEF Direct, BeforeCommit, Writing
  <2>2. Commits(i) \/ (RelayKept /\ Finishes(i, "failed") /\ SameEvidence(i))
      BY <1>1, <2>1, CommitShape DEF Direct
  <2> QED BY <1>1, <2>1, <2>2, Named DEF Direct, EndpointEnds, AtEndpoint, RelayMoves
<1>2. CASE Clear(i)
    BY <1>2, <1>a, <1>b DEF Clear, AtEndpoint, RelayMoves
<1>3. CASE Halt(i)
    BY <1>3, <1>a, <1>b DEF Halt, AtEndpoint, RelayMoves
<1>4. CASE HaltWritten(i)
  <2>1. op[i] \in Operation
      BY OpTyped
  <2>2. CASE End(i, "partial")
      BY <1>4, <2>2, EndFinishes, Named DEF HaltWritten, Halts, Finishes
  <2>3. CASE /\ op' = [op EXCEPT ![i] = [Ended(@, "complete") EXCEPT !.stopped = TRUE]]
             /\ native' = <<i, "stop">> /\ pending' = pending
    <3> DEFINE e == Ended(op[i], "complete")
               x == [e EXCEPT !.stopped = TRUE]
    <3>0. "complete" \in Outcomes
        BY Named
    <3>1. /\ e \in Operation /\ e.kind = op[i].kind /\ e.route = op[i].route
          /\ e.gen = op[i].gen /\ e.seen = op[i].seen /\ e.at = "done" /\ e.outcome # "none"
        BY <2>1, <3>0, EndedFields
    <3>2. op' = [op EXCEPT ![i] = x]
        BY <2>3
    <3> HIDE DEF e
    <3>3. /\ x \in Operation /\ x.kind = e.kind /\ x.route = e.route
          /\ x.gen = e.gen /\ x.seen = e.seen /\ x.at = e.at /\ x.outcome = e.outcome
        BY <3>1 DEF Operation
    <3> HIDE DEF x
    <3>4. Alone(i) /\ op'[i] = x
        BY <3>2, <3>3, Replaced
    <3> QED BY <1>4, <2>3, <3>1, <3>3, <3>4 DEF HaltWritten, Halts, SameCommand, SameEvidence
  <2> QED BY <1>4, <2>2, <2>3 DEF HaltWritten
<1>5. CASE Edited(i)
    BY <1>5, <1>b DEF Edited, AtEndpoint, RelayMoves
<1>6. CASE Unbind(i)
    BY <1>6, <1>a DEF Unbind, AtEndpoint, RelayMoves
<1>7. CASE Bind(i)
    BY <1>7, <1>a, <1>b DEF Bind, AtEndpoint, RelayMoves
<1>8. CASE Configured(i)
    BY <1>8, <1>b DEF Configured, AtEndpoint, RelayMoves
<1> QED BY <1>1, <1>2, <1>3, <1>4, <1>5, <1>6, <1>7, <1>8 DEF Execute

LEMMA SupersededFields ==
    ASSUME TypeOK
    PROVE  /\ Superseded \in [Ops -> Operation]
           /\ \A j \in Ops :
                 /\ Superseded[j].kind = op[j].kind /\ Superseded[j].route = op[j].route
                 /\ Superseded[j].at = op[j].at /\ Superseded[j].stopped = op[j].stopped
                 /\ Superseded[j].gen = op[j].gen /\ Superseded[j].seen = op[j].seen
                 /\ j # pending => Superseded[j] = op[j]
                 /\ j = pending =>
                       /\ Superseded[j].cancelled
                       /\ Superseded[j].outcome = IF op[j].outcome = "none" THEN "cancelled"
                                                  ELSE op[j].outcome
<1>1. op \in [Ops -> Operation] /\ pending \in Ops \cup {0}
    BY OpTyped DEF TypeOK
<1>2. CASE pending = 0
    BY <1>1, <1>2, NoneOfThem DEF Superseded
<1>3. CASE pending # 0
  <2> DEFINE o == op[pending]
             x == [o EXCEPT !.cancelled = TRUE, !.outcome = IF @ = "none" THEN "cancelled" ELSE @]
  <2>1. pending \in Ops /\ o \in Operation
      BY <1>1, <1>3
  <2>2. Superseded = [op EXCEPT ![pending] = x]
      BY <1>1, <1>3 DEF Superseded, Operation
  <2>3. /\ x \in Operation /\ x.kind = o.kind /\ x.route = o.route /\ x.at = o.at
        /\ x.stopped = o.stopped /\ x.gen = o.gen /\ x.seen = o.seen /\ x.cancelled
        /\ x.outcome = IF o.outcome = "none" THEN "cancelled" ELSE o.outcome
      BY <2>1, Named DEF Operation
  <2> HIDE DEF x
  <2> QED BY <1>1, <2>1, <2>2, <2>3
<1> QED BY <1>2, <1>3

LEMMA AdmitShape ==
    ASSUME TypeOK, NEW kind \in Kinds, NEW r \in Routes \cup {NoRoute},
           NEW at \in (AtEndpoint \ {"haltWriting"}) \cup {"spawned"},
           NEW ledger \in [Ops -> Operation], Admit(kind, r, at, ledger),
           busy' = IF at \in AtEndpoint THEN admitted' ELSE 0,
           at \in Selecting <=> kind = "select",
           UNCHANGED <<lease, paired, native, faults>>
    PROVE  /\ Admitted /\ op'[admitted'].kind = kind
           /\ \A j \in Ops : j # admitted' => op'[j] = ledger[j]
<1> DEFINE n == admitted'
           x == [NoOp EXCEPT !.kind = kind, !.route = r, !.at = at]
<1>1. n = admitted + 1 /\ n \in Ops /\ busy = 0
    BY OutputsAssumption DEF Admit, TypeOK, Ops
<1>2. at \in Points
    BY DEF AtEndpoint, Points
<1>3. /\ x \in Operation /\ x.kind = kind /\ x.at = at /\ x.outcome = "none"
      /\ ~x.cancelled /\ ~x.stopped /\ x.gen = 0 /\ x.seen = 0
    BY <1>2 DEF NoOp, Operation, Outcomes
<1>4. op' = [ledger EXCEPT ![n] = x]
    BY DEF Admit
<1> HIDE DEF x
<1>5. op' \in [Ops -> Operation] /\ op'[n] = x /\ \A j \in Ops : j # n => op'[j] = ledger[j]
    BY <1>1, <1>3, <1>4
<1> QED BY <1>1, <1>3, <1>5 DEF Admitted

LEMMA CommandIsShaped ==
    ASSUME TypeOK,
           \/ StopOutput \/ Configure
           \/ \E r \in Routes : Select(r) \/ Edit(r, "update") \/ Edit(r, "remove")
    PROVE  Supersedes \/ Joins
<1>1. op \in [Ops -> Operation] /\ Superseded \in [Ops -> Operation]
    BY OpTyped, SupersededFields
<1>2. ASSUME NEW kind \in Kinds, NEW r \in Routes \cup {NoRoute},
             NEW at \in (AtEndpoint \ {"haltWriting"}) \cup {"spawned"},
             Admit(kind, r, at, Superseded),
             busy' = IF at \in AtEndpoint THEN admitted' ELSE 0,
             at \in Selecting <=> kind = "select",
             UNCHANGED <<lease, paired, native, faults>>,
             pending' = IF kind = "select" THEN admitted' ELSE 0, BumpGeneration
      PROVE  Supersedes
  <2>1. /\ Admitted /\ op'[admitted'].kind = kind
        /\ \A j \in Ops : j # admitted' => op'[j] = Superseded[j]
      BY <1>1, <1>2, AdmitShape
  <2> QED BY <1>2, <2>1, SupersededFields DEF Supersedes, OthersKept
<1>3. ASSUME NEW r \in Routes, Select(r)
      PROVE  Supersedes
  <2> DEFINE at == IF shown = Nothing /\ ~paired THEN "direct" ELSE "spawned"
  <2>1. /\ at \in (AtEndpoint \ {"haltWriting"}) \cup {"spawned"} /\ at \in Selecting
        /\ at \in AtEndpoint <=> shown = Nothing /\ ~paired
      BY DEF AtEndpoint, Selecting, BeforeCommit
  <2>2. Admit("select", r, at, Superseded) /\ busy' = (IF at \in AtEndpoint THEN admitted' ELSE 0)
      BY <1>3, <2>1 DEF Select
  <2> HIDE DEF at
  <2> QED BY <1>2, <1>3, <2>1, <2>2 DEF Select, Kinds
<1>4. CASE StopOutput
  <2>1. "clearing" \in AtEndpoint /\ "clearing" \notin Selecting
      BY DEF AtEndpoint, Selecting, BeforeCommit, AfterCommit, Late
  <2> QED BY <1>2, <1>4, <2>1 DEF StopOutput, Kinds
<1>5. CASE Configure
  <2>1. "unbinding" \in AtEndpoint /\ "unbinding" \notin Selecting
      BY DEF AtEndpoint, Selecting, BeforeCommit, AfterCommit, Late
  <2> QED BY <1>2, <1>5, <2>1 DEF Configure, Kinds
<1>6. ASSUME NEW r \in Routes, NEW kind \in {"update", "remove"}, Edit(r, kind)
      PROVE  Supersedes \/ Joins
  <2>1. kind \in AtEndpoint \ {"haltWriting"} /\ kind \notin Selecting /\ kind \in Kinds
      BY <1>6 DEF AtEndpoint, Selecting, BeforeCommit, AfterCommit, Late, Kinds
  <2>2. CASE r = selected
      BY <1>2, <1>6, <2>1, <2>2 DEF Edit
  <2>3. CASE r # selected
    <3>1. /\ Admitted /\ op'[admitted'].kind = kind
          /\ \A j \in Ops : j # admitted' => op'[j] = op[j]
        BY <1>1, <1>6, <2>1, <2>3, AdmitShape DEF Edit
    <3> QED BY <1>6, <2>3, <3>1 DEF Edit, Joins
  <2> QED BY <2>2, <2>3
<1> QED BY <1>3, <1>4, <1>5, <1>6
-------------------------------------------------------------------------------
(* Each shape keeps the invariant *)

LEMMA PointSets ==
    /\ \A p : /\ ~(p \in BeforeCommit /\ p \in AfterCommit)
              /\ p \in Late => p \in AfterCommit
              /\ p \in Selecting <=> p \in BeforeCommit \/ p \in AfterCommit
              /\ p \in AtEndpoint /\ p \in Selecting => p = "direct"
              /\ p \in Writing <=> p \in {"haltWriting", "stopWriting", "playWriting", "failWriting"}
    /\ \A p \in {"done", "none"} : p \notin Selecting /\ p \notin AtEndpoint /\ p \notin Writing
    /\ "direct" \in BeforeCommit /\ "direct" \in AtEndpoint
    /\ "spawned" \in BeforeCommit /\ "stopWriting" \in BeforeCommit
    /\ {"playWriting", "failWriting", "closing"} \subseteq Late
    /\ "haltWriting" \in AtEndpoint
BY DEF BeforeCommit, AfterCommit, Late, Selecting, AtEndpoint, Writing

(* What TypeOK says of the relay's view and of the counters.               *)
Counted ==
    /\ selected \in Routes \cup {NoRoute} /\ generation \in Nat /\ gate \in BOOLEAN
    /\ shown \in [since : Nat, route : Routes \cup {NoRoute}, reached : SUBSET Milestones]
    /\ admitted \in 0 .. MaxOps
    /\ pending \in Ops \cup {0} /\ busy \in Ops \cup {0} /\ lease \in Ops \cup {0}
    /\ paired \in BOOLEAN
    /\ native \in (Ops \cup {0}) \X {"none", "stop", "play"}
    /\ faults \in 0 .. MaxFaults

RelayTyped ==
    /\ selected \in Routes \cup {NoRoute} /\ generation \in Nat /\ gate \in BOOLEAN
    /\ shown \in [since : Nat, route : Routes \cup {NoRoute}, reached : SUBSET Milestones]

LEMMA RelayKeepsType ==
    ASSUME RelayTyped, NEW r \in Routes \cup {NoRoute}, NEW g,
           RelayMoves \/ CommitSelection(r) \/ DisableRouting(g) \/ BumpGeneration
    PROVE  RelayTyped'
<1>1. Nothing \in [since : Nat, route : Routes \cup {NoRoute}, reached : SUBSET Milestones]
    BY DEF Nothing
<1>2. gate' \in BOOLEAN
    BY DEF RelayTyped, RelayMoves, RelayKept, contractVars, CommitSelection, DisableRouting,
           BumpGeneration, ClearSelection, Deselect, Close, OpenGate
<1>3. selected' \in Routes \cup {NoRoute}
    BY DEF RelayTyped, RelayMoves, RelayKept, contractVars, CommitSelection, DisableRouting,
           BumpGeneration, ClearSelection, Deselect, Close, OpenGate
<1>4. generation' \in {generation, generation + 1} /\ shown' \in {shown, Nothing}
    BY DEF RelayMoves, RelayKept, contractVars, CommitSelection, DisableRouting,
           BumpGeneration, ClearSelection, Deselect, Close, OpenGate, Teardown
<1> QED BY <1>1, <1>2, <1>3, <1>4 DEF RelayTyped

LEMMA TypeParts ==
    ASSUME PointsFit
    PROVE  TypeOK <=> /\ Counted /\ op \in [Ops -> Operation]
                      /\ \A i \in Ops : op[i].at \in Writing <=> lease = i
<1>1. busy \in Ops \cup {0} => (busy # 0 => op[busy].at # "done")
    BY PointSets DEF PointsFit
<1> QED BY <1>1 DEF TypeOK, Counted, Operation


LEMMA TypeAgain ==
    ASSUME PointsFit', Counted', op' \in [Ops -> Operation],
           \A i \in Ops : op'[i].at \in Writing <=> lease' = i
    PROVE  TypeOK'
<1>1. busy' # 0 => op'[busy'].at # "done"
    BY PointSets DEF PointsFit, Counted
<1> QED BY <1>1 DEF TypeOK, Counted, Operation

LEMMA WalksKeeps ==
    ASSUME IInv, NEW i \in Ops, Walks(i)
    PROVE  IInv'
<1> USE NoneOfThem, PointSets
<1>1. Counted /\ op \in [Ops -> Operation]
    BY TypeParts DEF IInv
<1>a. /\ \A j \in Ops : j # i => op'[j] = op[j]
      /\ \A j \in Ops : op[j].gen \in Nat /\ op[j].seen \in Nat
      /\ \A j \in Ops : op'[j].gen \in Nat /\ op'[j].seen \in Nat
      /\ op[i].at \notin {"done", "none"}
      /\ generation \in Nat /\ admitted \in Nat /\ pending \in Nat
    BY <1>1, PointSets DEF Counted, Operation, Walks, Outside, Moves, SameCommand, SameEvidence,
    Alone, Forward, Kept, Quietly, RelayKept, contractVars, Selecting, AfterCommit, BeforeCommit,
    Late, AtEndpoint
<1>2. PointsFit'
    BY <1>1, <1>a DEF IInv, PointsFit, NoOp, Walks, Outside, Moves, SameCommand, SameEvidence,
    Alone, Forward, Kept, Quietly, RelayKept, contractVars
<1>3. PendingFits'
    BY <1>1, <1>a DEF IInv, PendingFits, Counted, Walks, Outside, Moves, SameCommand,
    SameEvidence, Alone, Forward, Kept, Quietly, RelayKept, contractVars
<1>4. GenerationsFit'
    BY <1>1, <1>a DEF IInv, GenerationsFit, Counted, Walks, Outside, Moves, SameCommand,
    SameEvidence, Alone, Forward, Kept, Quietly, RelayKept, contractVars
<1>5. LateFits'
    BY <1>1, <1>a DEF IInv, LateFits, PendingFits, GenerationsFit, PointsFit, Counted, Walks,
    Outside, Moves, SameCommand, SameEvidence, Alone, Forward, Kept, Quietly, RelayKept,
    contractVars
<1>6. PlaysFit'
  <2> SUFFICES ASSUME NEW s \in Ops, NEW j \in Ops, op'[s].kind = "stop", op'[s].stopped,
                      op'[j].at = "playWriting"
               PROVE  j > s
      BY DEF PlaysFit
  <2>1. op[s].kind = "stop" /\ op[s].stopped
      BY <1>1, <1>a DEF IInv, PlaysFit, PendingFits, PointsFit, Writing, TypeOK, Walks, Outside,
      Moves, SameCommand, SameEvidence, Alone, Forward, Kept, Quietly, RelayKept, contractVars
  <2>2. op[j].at = "playWriting"
      BY <1>1, <1>a DEF IInv, PlaysFit, PendingFits, PointsFit, Writing, TypeOK, Walks, Outside,
      Moves, SameCommand, SameEvidence, Alone, Forward, Kept, Quietly, RelayKept, contractVars
  <2> QED BY <2>1, <2>2 DEF IInv, PlaysFit
<1>7. StopReachesEverySelect'
    BY <1>1, <1>a DEF IInv, StopReachesEverySelect, Walks, Outside, Moves, SameCommand,
    SameEvidence, Alone, Forward, Kept, Quietly, RelayKept, contractVars
<1>8. EvidenceIsFresh'
    BY <1>1, <1>a DEF IInv, EvidenceIsFresh, PointsFit, GenerationsFit, Counted, Walks, Outside,
    Moves, SameCommand, SameEvidence, Alone, Forward, Kept, Quietly, RelayKept, contractVars
<1>9. GateClosedByItsOwner'
    BY <1>1, <1>a DEF IInv, GateClosedByItsOwner, PointsFit, PendingFits, GenerationsFit,
    LateFits, Counted, Walks, Outside, Moves, SameCommand, SameEvidence, Alone, Forward, Kept,
    Quietly, RelayKept, contractVars
<1>10. StopMeansStopped'
    BY <1>1, <1>a DEF IInv, StopMeansStopped, PlaysFit, Counted, Walks, Outside, Moves,
    SameCommand, SameEvidence, Alone, Forward, Kept, Quietly, RelayKept, contractVars
<1>11. Counted'
    BY <1>1 DEF Counted, Walks, Outside, Moves, SameCommand, SameEvidence, Alone, Forward, Kept,
    Quietly, RelayKept, contractVars
<1>12. op' \in [Ops -> Operation] /\ \A j \in Ops : op'[j].at \in Writing <=> lease' = j
    BY <1>1, <1>a, TypeParts DEF IInv, Counted, Walks, Outside, Moves, SameCommand, SameEvidence,
    Alone, Forward, Kept, Quietly, RelayKept, contractVars
<1>13. TypeOK'
    BY <1>2, <1>11, <1>12, TypeAgain
<1> QED BY <1>2, <1>3, <1>4, <1>5, <1>6, <1>7, <1>8, <1>9, <1>10, <1>13 DEF IInv

LEMMA GivesUpKeeps ==
    ASSUME IInv, NEW i \in Ops, GivesUp(i)
    PROVE  IInv'
<1> USE NoneOfThem, PointSets
<1>1. Counted /\ op \in [Ops -> Operation]
    BY TypeParts DEF IInv
<1>a. /\ \A j \in Ops : j # i => op'[j] = op[j]
      /\ \A j \in Ops : op[j].gen \in Nat /\ op[j].seen \in Nat
      /\ \A j \in Ops : op'[j].gen \in Nat /\ op'[j].seen \in Nat
      /\ op[i].at \notin {"done", "none"}
      /\ generation \in Nat /\ admitted \in Nat /\ pending \in Nat
    BY <1>1, PointSets DEF Counted, Operation, GivesUp, Outside, Finishes, SameCommand,
    SameEvidence, Alone, Kept, Quietly, RelayKept, contractVars, Selecting, AfterCommit,
    BeforeCommit, Late, AtEndpoint
<1>2. PointsFit'
    BY <1>1, <1>a DEF IInv, PointsFit, NoOp, GivesUp, Outside, Finishes, SameCommand,
    SameEvidence, Alone, Kept, Quietly, RelayKept, contractVars
<1>3. PendingFits'
    BY <1>1, <1>a DEF IInv, PendingFits, Counted, GivesUp, Outside, Finishes, SameCommand,
    SameEvidence, Alone, Kept, Quietly, RelayKept, contractVars
<1>4. GenerationsFit'
    BY <1>1, <1>a DEF IInv, GenerationsFit, Counted, GivesUp, Outside, Finishes, SameCommand,
    SameEvidence, Alone, Kept, Quietly, RelayKept, contractVars
<1>5. LateFits'
    BY <1>1, <1>a DEF IInv, LateFits, PendingFits, GenerationsFit, PointsFit, Counted, GivesUp,
    Outside, Finishes, SameCommand, SameEvidence, Alone, Kept, Quietly, RelayKept, contractVars
<1>6. PlaysFit'
    BY <1>1, <1>a DEF IInv, PlaysFit, PendingFits, PointsFit, Writing, TypeOK, GivesUp, Outside,
    Finishes, SameCommand, SameEvidence, Alone, Kept, Quietly, RelayKept, contractVars
<1>7. StopReachesEverySelect'
    BY <1>1, <1>a DEF IInv, StopReachesEverySelect, GivesUp, Outside, Finishes, SameCommand,
    SameEvidence, Alone, Kept, Quietly, RelayKept, contractVars
<1>8. EvidenceIsFresh'
    BY <1>1, <1>a DEF IInv, EvidenceIsFresh, PointsFit, GenerationsFit, Counted, GivesUp, Outside,
    Finishes, SameCommand, SameEvidence, Alone, Kept, Quietly, RelayKept, contractVars
<1>9. GateClosedByItsOwner'
    BY <1>1, <1>a DEF IInv, GateClosedByItsOwner, PointsFit, PendingFits, GenerationsFit,
    LateFits, Counted, GivesUp, Outside, Finishes, SameCommand, SameEvidence, Alone, Kept,
    Quietly, RelayKept, contractVars
<1>10. StopMeansStopped'
    BY <1>1, <1>a DEF IInv, StopMeansStopped, PlaysFit, Counted, GivesUp, Outside, Finishes,
    SameCommand, SameEvidence, Alone, Kept, Quietly, RelayKept, contractVars
<1>11. Counted'
    BY <1>1 DEF Counted, GivesUp, Outside, Finishes, SameCommand, SameEvidence, Alone, Kept,
    Quietly, RelayKept, contractVars
<1>12. op' \in [Ops -> Operation] /\ \A j \in Ops : op'[j].at \in Writing <=> lease' = j
    BY <1>1, <1>a, TypeParts DEF IInv, Counted, GivesUp, Outside, Finishes, SameCommand,
    SameEvidence, Alone, Kept, Quietly, RelayKept, contractVars
<1>13. TypeOK'
    BY <1>2, <1>11, <1>12, TypeAgain
<1> QED BY <1>2, <1>3, <1>4, <1>5, <1>6, <1>7, <1>8, <1>9, <1>10, <1>13 DEF IInv

LEMMA CommitsKeeps ==
    ASSUME IInv, NEW i \in Ops, Commits(i)
    PROVE  IInv'
<1> USE NoneOfThem, PointSets
<1>1. Counted /\ op \in [Ops -> Operation]
    BY TypeParts DEF IInv
<1>a. /\ \A j \in Ops : j # i => op'[j] = op[j]
      /\ \A j \in Ops : op[j].gen \in Nat /\ op[j].seen \in Nat
      /\ \A j \in Ops : op'[j].gen \in Nat /\ op'[j].seen \in Nat
      /\ op[i].at \notin {"done", "none"}
      /\ generation \in Nat /\ admitted \in Nat /\ pending \in Nat
    BY <1>1, PointSets DEF Counted, Operation, Commits, Moves, Finishes, SameCommand, Alone,
    CommitSelection, Teardown, Selecting, AfterCommit, BeforeCommit, Late, AtEndpoint
<1>2. PointsFit'
  <2>1. ASSUME NEW j \in Ops, j = i
        PROVE  /\ j > admitted' => op'[j] = NoOp
               /\ op'[j].at \in AtEndpoint <=> busy' = j
               /\ op'[j].at \in BeforeCommit => op'[j].gen = 0 /\ op'[j].seen = 0
               /\ op'[j].at \in AfterCommit => op'[j].gen # 0
      BY <2>1, <1>1, <1>a DEF IInv, PointsFit, NoOp, Commits, Moves, Finishes, SameCommand, Alone,
      CommitSelection, Teardown
  <2>2. ASSUME NEW j \in Ops, j # i
        PROVE  /\ j > admitted' => op'[j] = NoOp
               /\ op'[j].at \in AtEndpoint <=> busy' = j
               /\ op'[j].at \in BeforeCommit => op'[j].gen = 0 /\ op'[j].seen = 0
               /\ op'[j].at \in AfterCommit => op'[j].gen # 0
      BY <2>2, <1>1, <1>a DEF IInv, PointsFit, Commits
  <2> QED BY <2>1, <2>2 DEF PointsFit
<1>3. PendingFits'
    BY <1>1, <1>a DEF IInv, PendingFits, Counted, Commits, Moves, Finishes, SameCommand, Alone,
    CommitSelection, Teardown
<1>4. GenerationsFit'
    BY <1>1, <1>a DEF IInv, GenerationsFit, Counted, Commits, Moves, Finishes, SameCommand, Alone,
    CommitSelection, Teardown
<1>5. LateFits'
  <2>1. op'[i].at \notin Late
      BY DEF Commits, Finishes, Late
  <2>2. generation' = generation + 1
      BY DEF Commits, CommitSelection, Teardown
  <2>3. ASSUME NEW j \in Ops, j # i
        PROVE  op'[j].gen # generation'
    <3>1. op'[j].gen = op[j].gen /\ op[j].gen <= generation
        BY <1>a, <2>3 DEF IInv, GenerationsFit
    <3> QED BY <1>a, <2>2, <3>1
  <2> QED BY <2>1, <2>3 DEF LateFits
<1>6. PlaysFit'
    BY <1>1, <1>a DEF IInv, PlaysFit, PendingFits, PointsFit, Writing, TypeOK, Commits, Moves,
    Finishes, SameCommand, Alone, CommitSelection, Teardown
<1>7. StopReachesEverySelect'
    BY <1>1, <1>a DEF IInv, StopReachesEverySelect, Commits, Moves, Finishes, SameCommand, Alone,
    CommitSelection, Teardown
<1>8. EvidenceIsFresh'
    BY <1>1, <1>a DEF IInv, EvidenceIsFresh, PointsFit, GenerationsFit, Counted, Commits, Moves,
    Finishes, SameCommand, Alone, CommitSelection, Teardown
<1>9. GateClosedByItsOwner'
    BY <1>1, <1>a DEF IInv, GateClosedByItsOwner, PointsFit, PendingFits, GenerationsFit,
    LateFits, Counted, Commits, Moves, Finishes, SameCommand, Alone, CommitSelection, Teardown
<1>10. StopMeansStopped'
    BY <1>1, <1>a DEF IInv, StopMeansStopped, PlaysFit, Counted, Commits, Moves, Finishes,
    SameCommand, Alone, CommitSelection, Teardown
<1>11. RelayTyped'
    BY <1>1, RelayKeepsType DEF Counted, RelayTyped, Operation, RelayMoves, Commits
<1>12. Counted'
    BY <1>1, <1>11 DEF Counted, RelayTyped, Commits, Moves, Finishes, Kept
<1>13. op' \in [Ops -> Operation] /\ \A j \in Ops : op'[j].at \in Writing <=> lease' = j
    BY <1>1, <1>a, TypeParts DEF IInv, Counted, Commits, Moves, Finishes, SameCommand, Alone,
    CommitSelection, Teardown
<1>14. TypeOK'
    BY <1>2, <1>12, <1>13, TypeAgain
<1> QED BY <1>2, <1>3, <1>4, <1>5, <1>6, <1>7, <1>8, <1>9, <1>10, <1>14 DEF IInv

LEMMA HearsKeeps ==
    ASSUME IInv, NEW i \in Ops, Hears(i)
    PROVE  IInv'
<1> USE NoneOfThem, PointSets
<1>1. Counted /\ op \in [Ops -> Operation]
    BY TypeParts DEF IInv
<1>a. /\ \A j \in Ops : j # i => op'[j] = op[j]
      /\ \A j \in Ops : op[j].gen \in Nat /\ op[j].seen \in Nat
      /\ \A j \in Ops : op'[j].gen \in Nat /\ op'[j].seen \in Nat
      /\ op[i].at \notin {"done", "none"}
      /\ generation \in Nat /\ admitted \in Nat /\ pending \in Nat
    BY <1>1, PointSets DEF Counted, Operation, Hears, Outside, Moves, Finishes, SameCommand,
    Alone, Forward, Kept, Quietly, RelayKept, contractVars, Selecting, AfterCommit, BeforeCommit,
    Late, AtEndpoint
<1>2. PointsFit'
  <2>1. ASSUME NEW j \in Ops, j = i
        PROVE  /\ j > admitted' => op'[j] = NoOp
               /\ op'[j].at \in AtEndpoint <=> busy' = j
               /\ op'[j].at \in BeforeCommit => op'[j].gen = 0 /\ op'[j].seen = 0
               /\ op'[j].at \in AfterCommit => op'[j].gen # 0
      BY <2>1, <1>1, <1>a DEF IInv, PointsFit, NoOp, Hears, Outside, Moves, Finishes, SameCommand,
      Alone, Forward, Kept, Quietly, RelayKept, contractVars
  <2>2. ASSUME NEW j \in Ops, j # i
        PROVE  /\ j > admitted' => op'[j] = NoOp
               /\ op'[j].at \in AtEndpoint <=> busy' = j
               /\ op'[j].at \in BeforeCommit => op'[j].gen = 0 /\ op'[j].seen = 0
               /\ op'[j].at \in AfterCommit => op'[j].gen # 0
    <3>1. op'[j] = op[j]
        BY <1>a, <2>2
    <3>2. admitted' = admitted /\ busy' = busy
        BY DEF Hears, Kept
    <3> QED BY <2>2, <3>1, <3>2 DEF IInv, PointsFit
  <2> QED BY <2>1, <2>2 DEF PointsFit
<1>3. PendingFits'
    BY <1>1, <1>a DEF IInv, PendingFits, Counted, Hears, Outside, Moves, Finishes, SameCommand,
    Alone, Forward, Kept, Quietly, RelayKept, contractVars
<1>4. GenerationsFit'
    BY <1>1, <1>a DEF IInv, GenerationsFit, Counted, Hears, Outside, Moves, Finishes, SameCommand,
    Alone, Forward, Kept, Quietly, RelayKept, contractVars
<1>5. LateFits'
  <2>1. generation' = generation /\ op'[i].gen = op[i].gen
      BY DEF Hears, Quietly, RelayKept, contractVars
  <2>2. op'[i].at \in Late =>
          op[i].at \in Late /\ op'[i].outcome = op[i].outcome /\ op'[i].cancelled = op[i].cancelled
      BY DEF Hears, Moves, Finishes, Forward, Late
  <2> QED BY <1>a, <2>1, <2>2 DEF IInv, LateFits
<1>6. PlaysFit'
  <2> SUFFICES ASSUME NEW s \in Ops, NEW j \in Ops, op'[s].kind = "stop", op'[s].stopped,
                      op'[j].at = "playWriting"
               PROVE  j > s
      BY DEF PlaysFit
  <2>1. op[s].kind = "stop" /\ op[s].stopped
      BY <1>1, <1>a DEF IInv, PlaysFit, PendingFits, PointsFit, Writing, TypeOK, Hears, Outside,
      Moves, Finishes, SameCommand, Alone, Forward, Kept, Quietly, RelayKept, contractVars
  <2>2. op[j].at = "playWriting"
      BY <1>1, <1>a DEF IInv, PlaysFit, PendingFits, PointsFit, Writing, TypeOK, Hears, Outside,
      Moves, Finishes, SameCommand, Alone, Forward, Kept, Quietly, RelayKept, contractVars
  <2> QED BY <2>1, <2>2 DEF IInv, PlaysFit
<1>7. StopReachesEverySelect'
    BY <1>1, <1>a DEF IInv, StopReachesEverySelect, Hears, Outside, Moves, Finishes, SameCommand,
    Alone, Forward, Kept, Quietly, RelayKept, contractVars
<1>8. EvidenceIsFresh'
    BY <1>1, <1>a DEF IInv, EvidenceIsFresh, PointsFit, GenerationsFit, Counted, Hears, Outside,
    Moves, Finishes, SameCommand, Alone, Forward, Kept, Quietly, RelayKept, contractVars
<1>9. GateClosedByItsOwner'
    BY <1>1, <1>a DEF IInv, GateClosedByItsOwner, PointsFit, PendingFits, GenerationsFit,
    LateFits, Counted, Hears, Outside, Moves, Finishes, SameCommand, Alone, Forward, Kept,
    Quietly, RelayKept, contractVars
<1>10. StopMeansStopped'
    BY <1>1, <1>a DEF IInv, StopMeansStopped, PlaysFit, Counted, Hears, Outside, Moves, Finishes,
    SameCommand, Alone, Forward, Kept, Quietly, RelayKept, contractVars
<1>11. Counted'
    BY <1>1 DEF Counted, Hears, Outside, Moves, Finishes, SameCommand, Alone, Forward, Kept,
    Quietly, RelayKept, contractVars
<1>12. op' \in [Ops -> Operation] /\ \A j \in Ops : op'[j].at \in Writing <=> lease' = j
    BY <1>1, <1>a, TypeParts DEF IInv, Counted, Hears, Outside, Moves, Finishes, SameCommand,
    Alone, Forward, Kept, Quietly, RelayKept, contractVars
<1>13. TypeOK'
    BY <1>2, <1>11, <1>12, TypeAgain
<1> QED BY <1>2, <1>3, <1>4, <1>5, <1>6, <1>7, <1>8, <1>9, <1>10, <1>13 DEF IInv

LEMMA HooksKeeps ==
    ASSUME IInv, NEW i \in Ops, Hooks(i)
    PROVE  IInv'
<1> USE NoneOfThem, PointSets
<1>1. Counted /\ op \in [Ops -> Operation]
    BY TypeParts DEF IInv
<1>a. /\ \A j \in Ops : j # i => op'[j] = op[j]
      /\ \A j \in Ops : op[j].gen \in Nat /\ op[j].seen \in Nat
      /\ \A j \in Ops : op'[j].gen \in Nat /\ op'[j].seen \in Nat
      /\ op[i].at \notin {"done", "none"}
      /\ generation \in Nat /\ admitted \in Nat /\ pending \in Nat
    BY <1>1, PointSets DEF Counted, Operation, Hooks, Outside, Moves, SameCommand, SameEvidence,
    Alone, Kept, RelayKept, contractVars, Selecting, AfterCommit, BeforeCommit, Late, AtEndpoint
<1>2. PointsFit'
    BY <1>1, <1>a DEF IInv, PointsFit, NoOp, Hooks, Outside, Moves, SameCommand, SameEvidence,
    Alone, Kept, RelayKept, contractVars
<1>3. PendingFits'
    BY <1>1, <1>a DEF IInv, PendingFits, Counted, Hooks, Outside, Moves, SameCommand,
    SameEvidence, Alone, Kept, RelayKept, contractVars
<1>4. GenerationsFit'
    BY <1>1, <1>a DEF IInv, GenerationsFit, Counted, Hooks, Outside, Moves, SameCommand,
    SameEvidence, Alone, Kept, RelayKept, contractVars
<1>5. LateFits'
    BY <1>1, <1>a DEF IInv, LateFits, PendingFits, GenerationsFit, PointsFit, Counted, Hooks,
    Outside, Moves, SameCommand, SameEvidence, Alone, Kept, RelayKept, contractVars
<1>6. PlaysFit'
    BY <1>1, <1>a DEF IInv, PlaysFit, PendingFits, PointsFit, Writing, TypeOK, Hooks, Outside,
    Moves, SameCommand, SameEvidence, Alone, Kept, RelayKept, contractVars
<1>7. StopReachesEverySelect'
    BY <1>1, <1>a DEF IInv, StopReachesEverySelect, Hooks, Outside, Moves, SameCommand,
    SameEvidence, Alone, Kept, RelayKept, contractVars
<1>8. EvidenceIsFresh'
    BY <1>1, <1>a DEF IInv, EvidenceIsFresh, PointsFit, GenerationsFit, Counted, Hooks, Outside,
    Moves, SameCommand, SameEvidence, Alone, Kept, RelayKept, contractVars
<1>9. GateClosedByItsOwner'
    BY <1>1, <1>a DEF IInv, GateClosedByItsOwner, PointsFit, PendingFits, GenerationsFit,
    LateFits, Counted, Hooks, Outside, Moves, SameCommand, SameEvidence, Alone, Kept, RelayKept,
    contractVars
<1>10. StopMeansStopped'
    BY <1>1, <1>a DEF IInv, StopMeansStopped, PlaysFit, Counted, Hooks, Outside, Moves,
    SameCommand, SameEvidence, Alone, Kept, RelayKept, contractVars
<1>11. Counted'
    BY <1>1 DEF Counted, Hooks, Outside, Moves, SameCommand, SameEvidence, Alone, Kept, RelayKept,
    contractVars
<1>12. op' \in [Ops -> Operation] /\ \A j \in Ops : op'[j].at \in Writing <=> lease' = j
    BY <1>1, <1>a, TypeParts DEF IInv, Counted, Hooks, Outside, Moves, SameCommand, SameEvidence,
    Alone, Kept, RelayKept, contractVars
<1>13. TypeOK'
    BY <1>2, <1>11, <1>12, TypeAgain
<1> QED BY <1>2, <1>3, <1>4, <1>5, <1>6, <1>7, <1>8, <1>9, <1>10, <1>13 DEF IInv

LEMMA WritesKeeps ==
    ASSUME IInv, NEW i \in Ops, Writes(i)
    PROVE  IInv'
<1> USE NoneOfThem, PointSets
<1>1. Counted /\ op \in [Ops -> Operation]
    BY TypeParts DEF IInv
<1>a. /\ \A j \in Ops : j # i => op'[j] = op[j]
      /\ \A j \in Ops : op[j].gen \in Nat /\ op[j].seen \in Nat
      /\ \A j \in Ops : op'[j].gen \in Nat /\ op'[j].seen \in Nat
      /\ op[i].at \notin {"done", "none"}
      /\ generation \in Nat /\ admitted \in Nat /\ pending \in Nat
    BY <1>1, PointSets DEF Counted, Operation, Writes, Moves, Finishes, SameCommand, SameEvidence,
    Alone, Forward, Kept, RelayKept, contractVars, Selecting, AfterCommit, BeforeCommit, Late,
    AtEndpoint
<1>2. PointsFit'
  <2>1. ASSUME NEW j \in Ops, j = i
        PROVE  /\ j > admitted' => op'[j] = NoOp
               /\ op'[j].at \in AtEndpoint <=> busy' = j
               /\ op'[j].at \in BeforeCommit => op'[j].gen = 0 /\ op'[j].seen = 0
               /\ op'[j].at \in AfterCommit => op'[j].gen # 0
      BY <2>1, <1>1, <1>a DEF IInv, PointsFit, NoOp, Writes, Moves, Finishes, SameCommand,
      SameEvidence, Alone, Forward, Kept, RelayKept, contractVars
  <2>2. ASSUME NEW j \in Ops, j # i
        PROVE  /\ j > admitted' => op'[j] = NoOp
               /\ op'[j].at \in AtEndpoint <=> busy' = j
               /\ op'[j].at \in BeforeCommit => op'[j].gen = 0 /\ op'[j].seen = 0
               /\ op'[j].at \in AfterCommit => op'[j].gen # 0
    <3>1. op'[j] = op[j]
        BY <1>a, <2>2
    <3>2. admitted' = admitted /\ busy' = busy
        BY DEF Writes, Kept
    <3> QED BY <2>2, <3>1, <3>2 DEF IInv, PointsFit
  <2> QED BY <2>1, <2>2 DEF PointsFit
<1>3. PendingFits'
    BY <1>1, <1>a DEF IInv, PendingFits, Counted, Writes, Moves, Finishes, SameCommand,
    SameEvidence, Alone, Forward, Kept, RelayKept, contractVars
<1>4. GenerationsFit'
    BY <1>1, <1>a DEF IInv, GenerationsFit, Counted, Writes, Moves, Finishes, SameCommand,
    SameEvidence, Alone, Forward, Kept, RelayKept, contractVars
<1>5. LateFits'
    BY <1>1, <1>a DEF IInv, LateFits, PendingFits, GenerationsFit, PointsFit, Counted, Writes,
    Moves, Finishes, SameCommand, SameEvidence, Alone, Forward, Kept, RelayKept, contractVars
<1>6. PlaysFit'
    BY <1>1, <1>a DEF IInv, PlaysFit, PendingFits, PointsFit, Writing, TypeOK, Writes, Moves,
    Finishes, SameCommand, SameEvidence, Alone, Forward, Kept, RelayKept, contractVars
<1>7. StopReachesEverySelect'
    BY <1>1, <1>a DEF IInv, StopReachesEverySelect, Writes, Moves, Finishes, SameCommand,
    SameEvidence, Alone, Forward, Kept, RelayKept, contractVars
<1>8. EvidenceIsFresh'
    BY <1>1, <1>a DEF IInv, EvidenceIsFresh, PointsFit, GenerationsFit, Counted, Writes, Moves,
    Finishes, SameCommand, SameEvidence, Alone, Forward, Kept, RelayKept, contractVars
<1>9. GateClosedByItsOwner'
  <2> SUFFICES ASSUME ~gate'
               PROVE  \E k \in Ops :
                         /\ op'[k].at = "done" /\ op'[k].outcome = "failed"
                         /\ selected' \in {op'[k].route, NoRoute}
                         /\ \A j \in Ops : op'[j].gen <= op'[k].gen
      BY DEF GateClosedByItsOwner
  <2>1. gate' = gate /\ selected' = selected
      BY DEF Writes, RelayKept, contractVars
  <2>2. PICK k \in Ops : /\ op[k].at = "done" /\ op[k].outcome = "failed"
                         /\ selected \in {op[k].route, NoRoute}
                         /\ \A j \in Ops : op[j].gen <= op[k].gen
      BY <2>1 DEF IInv, GateClosedByItsOwner
  <2>3. op'[k] = op[k]
      BY <1>a, <2>2
  <2>4. op'[i].gen = op[i].gen
      BY DEF Writes, SameEvidence
  <2> QED BY <1>a, <2>1, <2>2, <2>3, <2>4
<1>10. StopMeansStopped'
    BY <1>1, <1>a DEF IInv, StopMeansStopped, PlaysFit, Counted, Writes, Moves, Finishes,
    SameCommand, SameEvidence, Alone, Forward, Kept, RelayKept, contractVars
<1>11. Counted'
    BY <1>1 DEF Counted, Writes, Moves, Finishes, SameCommand, SameEvidence, Alone, Forward, Kept,
    RelayKept, contractVars
<1>12. op' \in [Ops -> Operation] /\ \A j \in Ops : op'[j].at \in Writing <=> lease' = j
    BY <1>1, <1>a, TypeParts DEF IInv, Counted, Writes, Moves, Finishes, SameCommand,
    SameEvidence, Alone, Forward, Kept, RelayKept, contractVars
<1>13. TypeOK'
    BY <1>2, <1>11, <1>12, TypeAgain
<1> QED BY <1>2, <1>3, <1>4, <1>5, <1>6, <1>7, <1>8, <1>9, <1>10, <1>13 DEF IInv

LEMMA ClosesKeeps ==
    ASSUME IInv, NEW i \in Ops, Closes(i)
    PROVE  IInv'
<1> USE NoneOfThem, PointSets
<1>1. Counted /\ op \in [Ops -> Operation]
    BY TypeParts DEF IInv
<1>a. /\ \A j \in Ops : j # i => op'[j] = op[j]
      /\ \A j \in Ops : op[j].gen \in Nat /\ op[j].seen \in Nat
      /\ \A j \in Ops : op'[j].gen \in Nat /\ op'[j].seen \in Nat
      /\ op[i].at \notin {"done", "none"}
      /\ generation \in Nat /\ admitted \in Nat /\ pending \in Nat
    BY <1>1, PointSets DEF Counted, Operation, Closes, Finishes, SameCommand, SameEvidence, Alone,
    Kept, RelayKept, contractVars, DisableRouting, Teardown, Selecting, AfterCommit, BeforeCommit,
    Late, AtEndpoint
<1>2. PointsFit'
    BY <1>1, <1>a DEF IInv, PointsFit, NoOp, Closes, Finishes, SameCommand, SameEvidence, Alone,
    Kept, RelayKept, contractVars, DisableRouting, Teardown
<1>3. PendingFits'
    BY <1>1, <1>a DEF IInv, PendingFits, Counted, Closes, Finishes, SameCommand, SameEvidence,
    Alone, Kept, RelayKept, contractVars, DisableRouting, Teardown
<1>4. GenerationsFit'
    BY <1>1, <1>a DEF IInv, GenerationsFit, Counted, Closes, Finishes, SameCommand, SameEvidence,
    Alone, Kept, RelayKept, contractVars, DisableRouting, Teardown
<1>5. LateFits'
    BY <1>1, <1>a DEF IInv, LateFits, PendingFits, GenerationsFit, PointsFit, Counted, Closes,
    Finishes, SameCommand, SameEvidence, Alone, Kept, RelayKept, contractVars, DisableRouting,
    Teardown
<1>6. PlaysFit'
    BY <1>1, <1>a DEF IInv, PlaysFit, PendingFits, PointsFit, Writing, TypeOK, Closes, Finishes,
    SameCommand, SameEvidence, Alone, Kept, RelayKept, contractVars, DisableRouting, Teardown
<1>7. StopReachesEverySelect'
    BY <1>1, <1>a DEF IInv, StopReachesEverySelect, Closes, Finishes, SameCommand, SameEvidence,
    Alone, Kept, RelayKept, contractVars, DisableRouting, Teardown
<1>8. EvidenceIsFresh'
    BY <1>1, <1>a DEF IInv, EvidenceIsFresh, PointsFit, GenerationsFit, Counted, Closes, Finishes,
    SameCommand, SameEvidence, Alone, Kept, RelayKept, contractVars, DisableRouting, Teardown
<1>9. GateClosedByItsOwner'
    BY <1>1, <1>a DEF IInv, GateClosedByItsOwner, PointsFit, PendingFits, GenerationsFit,
    LateFits, Counted, Closes, Finishes, SameCommand, SameEvidence, Alone, Kept, RelayKept,
    contractVars, DisableRouting, Teardown
<1>10. StopMeansStopped'
    BY <1>1, <1>a DEF IInv, StopMeansStopped, PlaysFit, Counted, Closes, Finishes, SameCommand,
    SameEvidence, Alone, Kept, RelayKept, contractVars, DisableRouting, Teardown
<1>11. RelayTyped'
    BY <1>1, RelayKeepsType DEF Counted, RelayTyped, Operation, RelayMoves, Closes
<1>12. Counted'
    BY <1>1, <1>11 DEF Counted, RelayTyped, Closes, Moves, Finishes, Kept
<1>13. op' \in [Ops -> Operation] /\ \A j \in Ops : op'[j].at \in Writing <=> lease' = j
    BY <1>1, <1>a, TypeParts DEF IInv, Counted, Closes, Finishes, SameCommand, SameEvidence,
    Alone, Kept, RelayKept, contractVars, DisableRouting, Teardown
<1>14. TypeOK'
    BY <1>2, <1>12, <1>13, TypeAgain
<1> QED BY <1>2, <1>3, <1>4, <1>5, <1>6, <1>7, <1>8, <1>9, <1>10, <1>14 DEF IInv

LEMMA EndpointMovesKeeps ==
    ASSUME IInv, NEW i \in Ops, EndpointMoves(i)
    PROVE  IInv'
<1> USE NoneOfThem, PointSets
<1>1. Counted /\ op \in [Ops -> Operation]
    BY TypeParts DEF IInv
<1>a. /\ \A j \in Ops : j # i => op'[j] = op[j]
      /\ \A j \in Ops : op[j].gen \in Nat /\ op[j].seen \in Nat
      /\ \A j \in Ops : op'[j].gen \in Nat /\ op'[j].seen \in Nat
      /\ op[i].at \notin {"done", "none"}
      /\ generation \in Nat /\ admitted \in Nat /\ pending \in Nat
    BY <1>1, PointSets DEF Counted, Operation, EndpointMoves, Moves, SameCommand, SameEvidence,
    Alone, RelayMoves, RelayKept, contractVars, ClearSelection, Deselect, Close, OpenGate,
    Teardown, Selecting, AfterCommit, BeforeCommit, Late, AtEndpoint
<1>2. PointsFit'
    BY <1>1, <1>a DEF IInv, PointsFit, NoOp, EndpointMoves, Moves, SameCommand, SameEvidence,
    Alone, RelayMoves, RelayKept, contractVars, ClearSelection, Deselect, Close, OpenGate,
    Teardown
<1>3. PendingFits'
    BY <1>1, <1>a DEF IInv, PendingFits, Counted, EndpointMoves, Moves, SameCommand, SameEvidence,
    Alone, RelayMoves, RelayKept, contractVars, ClearSelection, Deselect, Close, OpenGate,
    Teardown
<1>4. GenerationsFit'
    BY <1>1, <1>a DEF IInv, GenerationsFit, Counted, EndpointMoves, Moves, SameCommand,
    SameEvidence, Alone, RelayMoves, RelayKept, contractVars, ClearSelection, Deselect, Close,
    OpenGate, Teardown
<1>5. LateFits'
    BY <1>1, <1>a DEF IInv, LateFits, PendingFits, GenerationsFit, PointsFit, Counted,
    EndpointMoves, Moves, SameCommand, SameEvidence, Alone, RelayMoves, RelayKept, contractVars,
    ClearSelection, Deselect, Close, OpenGate, Teardown
<1>6. PlaysFit'
    BY <1>1, <1>a DEF IInv, PlaysFit, PendingFits, PointsFit, Writing, TypeOK, EndpointMoves,
    Moves, SameCommand, SameEvidence, Alone, RelayMoves, RelayKept, contractVars, ClearSelection,
    Deselect, Close, OpenGate, Teardown
<1>7. StopReachesEverySelect'
    BY <1>1, <1>a DEF IInv, StopReachesEverySelect, EndpointMoves, Moves, SameCommand,
    SameEvidence, Alone, RelayMoves, RelayKept, contractVars, ClearSelection, Deselect, Close,
    OpenGate, Teardown
<1>8. EvidenceIsFresh'
    BY <1>1, <1>a DEF IInv, EvidenceIsFresh, PointsFit, GenerationsFit, Counted, EndpointMoves,
    Moves, SameCommand, SameEvidence, Alone, RelayMoves, RelayKept, contractVars, ClearSelection,
    Deselect, Close, OpenGate, Teardown
<1>9. GateClosedByItsOwner'
    BY <1>1, <1>a DEF IInv, GateClosedByItsOwner, PointsFit, PendingFits, GenerationsFit,
    LateFits, Counted, EndpointMoves, Moves, SameCommand, SameEvidence, Alone, RelayMoves,
    RelayKept, contractVars, ClearSelection, Deselect, Close, OpenGate, Teardown
<1>10. StopMeansStopped'
    BY <1>1, <1>a DEF IInv, StopMeansStopped, PlaysFit, Counted, EndpointMoves, Moves,
    SameCommand, SameEvidence, Alone, RelayMoves, RelayKept, contractVars, ClearSelection,
    Deselect, Close, OpenGate, Teardown
<1>11. RelayTyped'
    BY <1>1, RelayKeepsType DEF Counted, RelayTyped, Operation, RelayMoves, EndpointMoves
<1>12. Counted'
    BY <1>1, <1>11 DEF Counted, RelayTyped, EndpointMoves, Moves, Finishes, Kept
<1>13. op' \in [Ops -> Operation] /\ \A j \in Ops : op'[j].at \in Writing <=> lease' = j
    BY <1>1, <1>a, TypeParts DEF IInv, Counted, EndpointMoves, Moves, SameCommand, SameEvidence,
    Alone, RelayMoves, RelayKept, contractVars, ClearSelection, Deselect, Close, OpenGate,
    Teardown
<1>14. TypeOK'
    BY <1>2, <1>12, <1>13, TypeAgain
<1> QED BY <1>2, <1>3, <1>4, <1>5, <1>6, <1>7, <1>8, <1>9, <1>10, <1>14 DEF IInv

LEMMA EndpointEndsKeeps ==
    ASSUME IInv, NEW i \in Ops, EndpointEnds(i)
    PROVE  IInv'
<1> USE NoneOfThem, PointSets
<1>1. Counted /\ op \in [Ops -> Operation]
    BY TypeParts DEF IInv
<1>a. /\ \A j \in Ops : j # i => op'[j] = op[j]
      /\ \A j \in Ops : op[j].gen \in Nat /\ op[j].seen \in Nat
      /\ \A j \in Ops : op'[j].gen \in Nat /\ op'[j].seen \in Nat
      /\ op[i].at \notin {"done", "none"}
      /\ generation \in Nat /\ admitted \in Nat /\ pending \in Nat
    BY <1>1, PointSets DEF Counted, Operation, EndpointEnds, Finishes, SameCommand, SameEvidence,
    Alone, RelayMoves, RelayKept, contractVars, ClearSelection, Deselect, Close, OpenGate,
    Teardown, Selecting, AfterCommit, BeforeCommit, Late, AtEndpoint
<1>2. PointsFit'
    BY <1>1, <1>a DEF IInv, PointsFit, NoOp, EndpointEnds, Finishes, SameCommand, SameEvidence,
    Alone, RelayMoves, RelayKept, contractVars, ClearSelection, Deselect, Close, OpenGate,
    Teardown
<1>3. PendingFits'
    BY <1>1, <1>a DEF IInv, PendingFits, Counted, EndpointEnds, Finishes, SameCommand,
    SameEvidence, Alone, RelayMoves, RelayKept, contractVars, ClearSelection, Deselect, Close,
    OpenGate, Teardown
<1>4. GenerationsFit'
    BY <1>1, <1>a DEF IInv, GenerationsFit, Counted, EndpointEnds, Finishes, SameCommand,
    SameEvidence, Alone, RelayMoves, RelayKept, contractVars, ClearSelection, Deselect, Close,
    OpenGate, Teardown
<1>5. LateFits'
    BY <1>1, <1>a DEF IInv, LateFits, PendingFits, GenerationsFit, PointsFit, Counted,
    EndpointEnds, Finishes, SameCommand, SameEvidence, Alone, RelayMoves, RelayKept, contractVars,
    ClearSelection, Deselect, Close, OpenGate, Teardown
<1>6. PlaysFit'
    BY <1>1, <1>a DEF IInv, PlaysFit, PendingFits, PointsFit, Writing, TypeOK, EndpointEnds,
    Finishes, SameCommand, SameEvidence, Alone, RelayMoves, RelayKept, contractVars,
    ClearSelection, Deselect, Close, OpenGate, Teardown
<1>7. StopReachesEverySelect'
    BY <1>1, <1>a DEF IInv, StopReachesEverySelect, EndpointEnds, Finishes, SameCommand,
    SameEvidence, Alone, RelayMoves, RelayKept, contractVars, ClearSelection, Deselect, Close,
    OpenGate, Teardown
<1>8. EvidenceIsFresh'
    BY <1>1, <1>a DEF IInv, EvidenceIsFresh, PointsFit, GenerationsFit, Counted, EndpointEnds,
    Finishes, SameCommand, SameEvidence, Alone, RelayMoves, RelayKept, contractVars,
    ClearSelection, Deselect, Close, OpenGate, Teardown
<1>9. GateClosedByItsOwner'
    BY <1>1, <1>a DEF IInv, GateClosedByItsOwner, PointsFit, PendingFits, GenerationsFit,
    LateFits, Counted, EndpointEnds, Finishes, SameCommand, SameEvidence, Alone, RelayMoves,
    RelayKept, contractVars, ClearSelection, Deselect, Close, OpenGate, Teardown
<1>10. StopMeansStopped'
    BY <1>1, <1>a DEF IInv, StopMeansStopped, PlaysFit, Counted, EndpointEnds, Finishes,
    SameCommand, SameEvidence, Alone, RelayMoves, RelayKept, contractVars, ClearSelection,
    Deselect, Close, OpenGate, Teardown
<1>11. RelayTyped'
    BY <1>1, RelayKeepsType DEF Counted, RelayTyped, Operation, RelayMoves, EndpointEnds
<1>12. Counted'
    BY <1>1, <1>11 DEF Counted, RelayTyped, EndpointEnds, Moves, Finishes, Kept
<1>13. op' \in [Ops -> Operation] /\ \A j \in Ops : op'[j].at \in Writing <=> lease' = j
    BY <1>1, <1>a, TypeParts DEF IInv, Counted, EndpointEnds, Finishes, SameCommand, SameEvidence,
    Alone, RelayMoves, RelayKept, contractVars, ClearSelection, Deselect, Close, OpenGate,
    Teardown
<1>14. TypeOK'
    BY <1>2, <1>12, <1>13, TypeAgain
<1> QED BY <1>2, <1>3, <1>4, <1>5, <1>6, <1>7, <1>8, <1>9, <1>10, <1>14 DEF IInv

LEMMA HaltsKeeps ==
    ASSUME IInv, NEW i \in Ops, Halts(i)
    PROVE  IInv'
<1> USE NoneOfThem, PointSets
<1>1. Counted /\ op \in [Ops -> Operation]
    BY TypeParts DEF IInv
<1>a. /\ \A j \in Ops : j # i => op'[j] = op[j]
      /\ \A j \in Ops : op[j].gen \in Nat /\ op[j].seen \in Nat
      /\ \A j \in Ops : op'[j].gen \in Nat /\ op'[j].seen \in Nat
      /\ op[i].at \notin {"done", "none"}
      /\ generation \in Nat /\ admitted \in Nat /\ pending \in Nat
    BY <1>1, PointSets DEF Counted, Operation, Halts, SameCommand, SameEvidence, Alone, RelayKept,
    contractVars, Selecting, AfterCommit, BeforeCommit, Late, AtEndpoint
<1>2. PointsFit'
    BY <1>1, <1>a DEF IInv, PointsFit, NoOp, Halts, SameCommand, SameEvidence, Alone, RelayKept,
    contractVars
<1>3. PendingFits'
  <2>1. ASSUME NEW j \in Ops, j = i
        PROVE  /\ op'[j].at \in Selecting => pending' = j \/ op'[j].cancelled
               /\ op'[j].at \in Selecting /\ op'[j].outcome # "none" => op'[j].cancelled
               /\ op'[j].kind = "stop" => pending' = 0 \/ pending' > j
      BY <2>1, <1>1, <1>a DEF IInv, PendingFits, Counted, Halts, SameCommand, SameEvidence, Alone,
      RelayKept, contractVars
  <2>2. ASSUME NEW j \in Ops, j # i
        PROVE  /\ op'[j].at \in Selecting => pending' = j \/ op'[j].cancelled
               /\ op'[j].at \in Selecting /\ op'[j].outcome # "none" => op'[j].cancelled
               /\ op'[j].kind = "stop" => pending' = 0 \/ pending' > j
      BY <2>2, <1>1, <1>a DEF IInv, PendingFits, Counted, Halts, SameCommand, SameEvidence, Alone,
      RelayKept, contractVars
  <2>3. pending' <= admitted'
      BY <1>1, <1>a DEF IInv, PendingFits, Counted, Halts, SameCommand, SameEvidence, Alone,
      RelayKept, contractVars
  <2> QED BY <2>1, <2>2, <2>3 DEF PendingFits
<1>4. GenerationsFit'
    BY <1>1, <1>a DEF IInv, GenerationsFit, Counted, Halts, SameCommand, SameEvidence, Alone,
    RelayKept, contractVars
<1>5. LateFits'
    BY <1>1, <1>a DEF IInv, LateFits, PendingFits, GenerationsFit, PointsFit, Counted, Halts,
    SameCommand, SameEvidence, Alone, RelayKept, contractVars
<1>6. PlaysFit'
    BY <1>1, <1>a DEF IInv, PlaysFit, PendingFits, PointsFit, Writing, TypeOK, Halts, SameCommand,
    SameEvidence, Alone, RelayKept, contractVars
<1>7. StopReachesEverySelect'
    BY <1>1, <1>a DEF IInv, StopReachesEverySelect, Halts, SameCommand, SameEvidence, Alone,
    RelayKept, contractVars
<1>8. EvidenceIsFresh'
    BY <1>1, <1>a DEF IInv, EvidenceIsFresh, PointsFit, GenerationsFit, Counted, Halts,
    SameCommand, SameEvidence, Alone, RelayKept, contractVars
<1>9. GateClosedByItsOwner'
    BY <1>1, <1>a DEF IInv, GateClosedByItsOwner, PointsFit, PendingFits, GenerationsFit,
    LateFits, Counted, Halts, SameCommand, SameEvidence, Alone, RelayKept, contractVars
<1>10. StopMeansStopped'
    BY <1>1, <1>a DEF IInv, StopMeansStopped, PlaysFit, Counted, Halts, SameCommand, SameEvidence,
    Alone, RelayKept, contractVars
<1>11. Counted'
    BY <1>1 DEF Counted, Halts, SameCommand, SameEvidence, Alone, RelayKept, contractVars
<1>12. op' \in [Ops -> Operation] /\ \A j \in Ops : op'[j].at \in Writing <=> lease' = j
    BY <1>1, <1>a, TypeParts DEF IInv, Counted, Halts, SameCommand, SameEvidence, Alone,
    RelayKept, contractVars
<1>13. TypeOK'
    BY <1>2, <1>11, <1>12, TypeAgain
<1> QED BY <1>2, <1>3, <1>4, <1>5, <1>6, <1>7, <1>8, <1>9, <1>10, <1>13 DEF IInv

LEMMA SupersedesKeeps ==
    ASSUME IInv, Supersedes
    PROVE  IInv'
<1> DEFINE n == admitted'
<1> USE NoneOfThem, PointSets
<1>1. Counted /\ op \in [Ops -> Operation]
    BY TypeParts DEF IInv
<1>a. /\ n \in Ops /\ n = admitted + 1 /\ op[n].at = "none" /\ op[n].kind = "none" /\ busy = 0
      /\ \A j \in Ops : op[j].gen \in Nat /\ op[j].seen \in Nat
      /\ generation \in Nat /\ admitted \in Nat /\ pending \in Nat /\ generation' = generation + 1
      /\ UNCHANGED <<selected, gate, shown>> /\ UNCHANGED <<lease, paired, native, faults>>
  <2>1. n \in Ops /\ n = admitted + 1 /\ busy = 0
      BY DEF Supersedes, Admitted
  <2>2. op[n] = NoOp
      BY <1>1, <2>1 DEF IInv, PointsFit, Counted
  <2> QED BY <1>1, <2>1, <2>2 DEF Supersedes, Admitted, BumpGeneration, Counted, Operation, NoOp
<1>b. OthersKept(n) /\ pending' = IF op'[n].kind = "select" THEN n ELSE 0
    BY DEF Supersedes
<1>c. /\ op' \in [Ops -> Operation]
      /\ op'[n].outcome = "none" /\ ~op'[n].cancelled /\ ~op'[n].stopped
      /\ op'[n].gen = 0 /\ op'[n].seen = 0
      /\ op'[n].at \in (AtEndpoint \ {"haltWriting"}) \cup {"spawned"}
      /\ busy' = IF op'[n].at \in AtEndpoint THEN n ELSE 0
      /\ op'[n].at \in Selecting <=> op'[n].kind = "select"
    BY DEF Supersedes, Admitted
<1>d. "spawned" \notin AtEndpoint
    BY DEF AtEndpoint
<1> HIDE DEF n
<1>2. PointsFit'
  <2>1. ASSUME NEW j \in Ops, j = n
        PROVE  /\ ~(j > n)
               /\ op'[j].at \in AtEndpoint <=> busy' = j
               /\ op'[j].at \in BeforeCommit => op'[j].gen = 0 /\ op'[j].seen = 0
               /\ op'[j].at \notin AfterCommit
      BY <1>a, <1>c, <2>1
  <2>2. ASSUME NEW j \in Ops, j # n
        PROVE  /\ j > n => op'[j] = NoOp
               /\ op'[j].at \in AtEndpoint <=> busy' = j
               /\ op'[j].at \in BeforeCommit => op'[j].gen = 0 /\ op'[j].seen = 0
               /\ op'[j].at \in AfterCommit => op'[j].gen # 0
    <3>1. j > n => op'[j] = NoOp
        BY <1>a, <1>b, <2>2 DEF IInv, PointsFit, PendingFits, OthersKept
    <3>2. op'[j].at = op[j].at /\ op'[j].gen = op[j].gen /\ op'[j].seen = op[j].seen
        BY <1>b, <2>2 DEF OthersKept
    <3>3. op[j].at \notin AtEndpoint /\ busy' # j
        BY <1>a, <1>c, <2>2 DEF IInv, PointsFit
    <3> QED BY <2>2, <3>1, <3>2, <3>3 DEF IInv, PointsFit
  <2> QED BY <2>1, <2>2 DEF PointsFit, n
<1>3. PendingFits'
  <2>1. pending' <= n
      BY <1>a, <1>b
  <2>2. ASSUME NEW j \in Ops, j = n
        PROVE  /\ op'[j].at \in Selecting => pending' = j
               /\ op'[j].outcome = "none"
               /\ op'[j].kind = "stop" => pending' = 0
      BY <1>b, <1>c, <2>2
  <2>3. ASSUME NEW j \in Ops, j # n
        PROVE  /\ op'[j].at \in Selecting => op'[j].cancelled
               /\ op'[j].kind = "stop" => pending' = 0 \/ pending' > j
    <3>1. op'[j].at \in Selecting => op'[j].cancelled
        BY <1>b, <2>3 DEF IInv, PendingFits, OthersKept
    <3>2. op'[j].kind = op[j].kind /\ (j > admitted => op[j].kind = "none")
        BY <1>b, <2>3 DEF IInv, PointsFit, OthersKept, NoOp
    <3>3. j \in Nat /\ admitted \in Nat
        BY <1>1 DEF IInv, TypeOK, Ops
    <3>4. op'[j].kind = "stop" => j < n
        BY <1>a, <2>3, <3>2, <3>3
    <3>5. pending' = 0 \/ pending' = n
        BY <1>b
    <3>6. op'[j].kind = "stop" => pending' = 0 \/ pending' > j
        BY <1>a, <3>3, <3>4, <3>5
    <3> QED BY <3>1, <3>6
  <2> QED BY <2>1, <2>2, <2>3 DEF PendingFits, n
<1>4. GenerationsFit' /\ \A j \in Ops : op'[j].gen < generation'
    BY <1>1, <1>a, <1>b, <1>c DEF IInv, GenerationsFit, OthersKept, Counted
<1>5. LateFits'
    BY <1>1, <1>a, <1>4, <1>c DEF LateFits, Operation
<1>6. PlaysFit'
  <2>1. op'[n].at # "playWriting"
      BY <1>c
  <2> QED BY <1>a, <1>b, <1>c, <2>1 DEF IInv, PlaysFit, OthersKept
<1>7. StopReachesEverySelect'
    BY <1>a, <1>b, <1>c DEF IInv, StopReachesEverySelect, OthersKept
<1>8. EvidenceIsFresh'
  <2>1. ASSUME NEW j \in Ops, j # n
        PROVE  op'[j].seen # 0 => op'[j].seen = op'[j].gen
    <3>1. op'[j].gen = op[j].gen /\ op'[j].seen = op[j].seen
        BY <1>b, <2>1 DEF OthersKept
    <3> QED BY <3>1 DEF IInv, EvidenceIsFresh
  <2> QED BY <1>c, <2>1 DEF EvidenceIsFresh
<1>9. GateClosedByItsOwner'
  <2> SUFFICES ASSUME ~gate'
               PROVE  \E i \in Ops :
                         /\ op'[i].at = "done" /\ op'[i].outcome = "failed"
                         /\ selected' \in {op'[i].route, NoRoute}
                         /\ \A j \in Ops : op'[j].gen <= op'[i].gen
      BY DEF GateClosedByItsOwner
  <2>1. PICK i \in Ops : /\ op[i].at = "done" /\ op[i].outcome = "failed"
                         /\ selected \in {op[i].route, NoRoute}
                         /\ \A j \in Ops : op[j].gen <= op[i].gen
      BY <1>a DEF IInv, GateClosedByItsOwner
  <2>2. i # n
      BY <1>a, <2>1
  <2>3. /\ op'[i].at = "done" /\ op'[i].outcome = "failed"
        /\ op'[i].route = op[i].route /\ op'[i].gen = op[i].gen
      BY <1>b, <2>1, <2>2 DEF OthersKept
  <2>4. \A j \in Ops : op'[j].gen <= op'[i].gen
      BY <1>a, <1>b, <1>c, <2>1, <2>3 DEF OthersKept
  <2> QED BY <1>a, <2>1, <2>3, <2>4
<1>10. StopMeansStopped'
    BY <1>a, <1>b, <1>c DEF IInv, StopMeansStopped, OthersKept
<1>11. RelayTyped'
    BY <1>1, RelayKeepsType DEF Counted, RelayTyped, Supersedes
<1>12. Counted'
    BY <1>1, <1>11, <1>a, <1>b, <1>c DEF Counted, RelayTyped, n, Ops
<1>13. \A j \in Ops : op'[j].at \in Writing <=> lease' = j
  <2>1. op'[n].at \notin Writing /\ op[n].at \notin Writing
      BY <1>a, <1>c
  <2> QED BY <1>a, <1>b, <2>1, TypeParts DEF IInv, OthersKept
<1>14. TypeOK'
    BY <1>2, <1>12, <1>13, <1>c, TypeAgain
<1> QED BY <1>2, <1>3, <1>4, <1>5, <1>6, <1>7, <1>8, <1>9, <1>10, <1>14 DEF IInv

LEMMA JoinsKeeps ==
    ASSUME IInv, Joins
    PROVE  IInv'
<1> DEFINE n == admitted'
<1> USE NoneOfThem, PointSets
<1>1. Counted /\ op \in [Ops -> Operation]
    BY TypeParts DEF IInv
<1>a. /\ n \in Ops /\ n = admitted + 1 /\ op[n].at = "none" /\ op[n].kind = "none" /\ busy = 0
      /\ \A j \in Ops : op[j].gen \in Nat /\ op[j].seen \in Nat
      /\ generation \in Nat /\ admitted \in Nat /\ pending \in Nat
      /\ UNCHANGED <<selected, generation, gate, shown>> /\ UNCHANGED <<lease, paired, native, faults>>
  <2>1. n \in Ops /\ n = admitted + 1 /\ busy = 0
      BY DEF Joins, Admitted
  <2>2. op[n] = NoOp
      BY <1>1, <2>1 DEF IInv, PointsFit, Counted
  <2> QED BY <1>1, <2>1, <2>2 DEF Joins, Admitted, RelayKept, contractVars, Counted, Operation, NoOp
<1>b. (\A j \in Ops : j # n => op'[j] = op[j]) /\ pending' = pending
    BY DEF Joins
<1>c. /\ op' \in [Ops -> Operation]
      /\ op'[n].outcome = "none" /\ ~op'[n].cancelled /\ ~op'[n].stopped
      /\ op'[n].gen = 0 /\ op'[n].seen = 0
      /\ op'[n].at \in AtEndpoint \ {"haltWriting"}
      /\ busy' = n /\ op'[n].at \notin Selecting /\ op'[n].kind # "select"
    BY DEF Joins, Admitted
<1>d. op'[n].kind # "stop" /\ \A j \in Ops : op[j].kind = "stop" => j # n
    BY <1>a DEF Joins
<1> HIDE DEF n
<1>2. PointsFit'
    BY <1>a, <1>b, <1>c DEF IInv, PointsFit, n
<1>3. PendingFits'
  <2>1. pending' <= n
      BY <1>a, <1>b DEF IInv, PendingFits
  <2>2. ASSUME NEW j \in Ops, j # n
        PROVE  /\ op'[j].at \in Selecting => pending' = j \/ op'[j].cancelled
               /\ op'[j].at \in Selecting /\ op'[j].outcome # "none" => op'[j].cancelled
               /\ op'[j].kind = "stop" => pending' = 0 \/ pending' > j
      BY <1>b, <2>2 DEF IInv, PendingFits
  <2> QED BY <1>c, <1>d, <2>1, <2>2 DEF PendingFits, n
<1>4. GenerationsFit'
    BY <1>a, <1>b, <1>c DEF IInv, GenerationsFit
<1>5. LateFits'
    BY <1>a, <1>b, <1>c DEF IInv, LateFits
<1>6. PlaysFit'
    BY <1>a, <1>b, <1>c, <1>d DEF IInv, PlaysFit
<1>7. StopReachesEverySelect'
    BY <1>a, <1>b, <1>c DEF IInv, StopReachesEverySelect
<1>8. EvidenceIsFresh'
    BY <1>a, <1>b, <1>c DEF IInv, EvidenceIsFresh
<1>9. GateClosedByItsOwner'
    BY <1>a, <1>b, <1>c DEF IInv, GateClosedByItsOwner
<1>10. StopMeansStopped'
    BY <1>a, <1>b, <1>c, <1>d DEF IInv, StopMeansStopped
<1>11. Counted'
    BY <1>1, <1>a, <1>b, <1>c DEF Counted, n, Ops
<1>12. \A j \in Ops : op'[j].at \in Writing <=> lease' = j
  <2>1. op'[n].at \notin Writing /\ op[n].at \notin Writing
      BY <1>a, <1>c
  <2> QED BY <1>a, <1>b, <2>1, TypeParts DEF IInv
<1>13. TypeOK'
    BY <1>2, <1>11, <1>12, <1>c, TypeAgain
<1> QED BY <1>2, <1>3, <1>4, <1>5, <1>6, <1>7, <1>8, <1>9, <1>10, <1>13 DEF IInv

(* The relay by itself: sessions come, report and go, and a loop fails.    *)
LEMMA RelayStepKeeps ==
    ASSUME IInv, UNCHANGED <<op, admitted, pending, busy, lease, paired, native>>,
           \/ Serving /\ faults' = faults
           \/ Close /\ faults' \in 0 .. MaxFaults
    PROVE  IInv'
<1>1. Counted /\ op \in [Ops -> Operation]
    BY TypeParts DEF IInv
<1>2. RelayTyped' /\ faults' \in 0 .. MaxFaults
  <2>1. CASE Close
      BY <1>1, <2>1, RelayKeepsType DEF Counted, RelayTyped, RelayMoves
  <2>2. CASE Reserve
      BY <1>1, <2>2 DEF Counted, RelayTyped, Reserve
  <2>3. CASE Report
    <3>1. PICK m \in SUBSET Milestones : shown' = [shown EXCEPT !.reached = m]
        BY <2>3 DEF Report
    <3> QED BY <1>1, <2>3, <3>1 DEF Counted, RelayTyped, Report
  <2>4. CASE Finish
      BY <1>1, <2>4 DEF Counted, RelayTyped, Finish, Nothing
  <2> QED BY <1>1, <2>1, <2>2, <2>3, <2>4 DEF Serving, Counted
<1>3. Counted'
    BY <1>1, <1>2 DEF Counted, RelayTyped
<1>4. /\ selected' = selected /\ gate' = gate
      /\ \/ /\ generation' = generation
            /\ \/ shown' = Nothing \/ shown'.since = generation
               \/ shown # Nothing /\ shown'.since = shown.since
         \/ generation' = generation + 1 /\ shown' = Nothing
  <2>1. CASE Close
      BY <2>1 DEF Close, Teardown
  <2>2. CASE Reserve
      BY <2>2 DEF Reserve
  <2>3. CASE Report
      BY <1>1, <2>3 DEF Counted, Report
  <2>4. CASE Finish
      BY <2>4 DEF Finish
  <2> QED BY <2>1, <2>2, <2>3, <2>4 DEF Serving
<1>5. \A i \in Ops : op[i].gen \in Nat
    BY <1>1 DEF Operation
<1>6. PointsFit' /\ PendingFits' /\ PlaysFit' /\ StopReachesEverySelect' /\ EvidenceIsFresh' /\ StopMeansStopped'
    BY DEF IInv, PointsFit, PendingFits, PlaysFit, StopReachesEverySelect, EvidenceIsFresh, StopMeansStopped
<1>7. GenerationsFit'
  <2>1. generation \in Nat /\ op' = op
      BY <1>1 DEF Counted
  <2>2. CASE generation' = generation + 1
      BY <1>4, <1>5, <2>1, <2>2 DEF IInv, GenerationsFit
  <2>3. CASE generation' = generation
      BY <1>4, <2>1, <2>3 DEF IInv, GenerationsFit
  <2> QED BY <1>4, <2>2, <2>3
<1>8. LateFits'
  <2>1. generation \in Nat /\ op' = op
      BY <1>1 DEF Counted
  <2>2. CASE generation' = generation + 1
      BY <1>5, <2>1, <2>2 DEF IInv, LateFits, GenerationsFit
  <2>3. CASE generation' = generation
      BY <2>1, <2>3 DEF IInv, LateFits
  <2> QED BY <1>4, <2>2, <2>3
<1>9. GateClosedByItsOwner'
    BY <1>4 DEF IInv, GateClosedByItsOwner
<1>10. TypeOK'
    BY <1>1, <1>3, <1>6, TypeAgain, TypeParts DEF IInv
<1> QED BY <1>6, <1>7, <1>8, <1>9, <1>10 DEF IInv

LEMMA InitIInv == Init => IInv
<1> SUFFICES ASSUME Init PROVE IInv
    OBVIOUS
<1> USE NoneOfThem, PointSets
<1>1. NoOp \in Operation
    BY DEF NoOp, Operation, Kinds, Points, Outcomes
<1>2. /\ op \in [Ops -> Operation] /\ \A i \in Ops : op[i] = NoOp
      /\ admitted = 0 /\ pending = 0 /\ busy = 0 /\ lease = 0 /\ native = <<0, "none">>
      /\ faults = 0 /\ paired \in BOOLEAN
    BY <1>1 DEF Init
<1>3. selected \in Routes \cup {NoRoute} /\ generation = 0 /\ gate = TRUE /\ shown = Nothing
    BY DEF Init, ContractInit
<1>4. Counted
  <2>1. Nothing \in [since : Nat, route : Routes \cup {NoRoute}, reached : SUBSET Milestones]
      BY DEF Nothing
  <2>2. gate \in BOOLEAN
      BY <1>3
  <2> QED BY <1>2, <1>3, <2>1, <2>2, OutputsAssumption DEF Counted
<1>5. PointsFit
    BY <1>2 DEF PointsFit, NoOp
<1>6. \A i \in Ops : op[i].at \in Writing <=> lease = i
    BY <1>2 DEF NoOp
<1>7. TypeOK
    BY <1>2, <1>4, <1>5, <1>6, TypeParts
<1>8. PendingFits /\ LateFits /\ PlaysFit /\ StopReachesEverySelect /\ EvidenceIsFresh
    BY <1>2 DEF PendingFits, LateFits, PlaysFit, StopReachesEverySelect, EvidenceIsFresh, NoOp
<1>9. GenerationsFit
    BY <1>2, <1>3 DEF GenerationsFit, NoOp
<1>10. GateClosedByItsOwner
    BY <1>3 DEF GateClosedByItsOwner
<1>11. StopMeansStopped
    BY <1>2 DEF StopMeansStopped, NoOp
<1> QED BY <1>5, <1>7, <1>8, <1>9, <1>10, <1>11 DEF IInv

LEMMA NextIInv == IInv /\ [Next]_vars => IInv'
<1> SUFFICES ASSUME IInv, [Next]_vars PROVE IInv'
    OBVIOUS
<1>0. TypeOK
    BY DEF IInv
<1>1. CASE StopOutput \/ Configure \/ \E r \in Routes : Select(r) \/ Edit(r, "update") \/ Edit(r, "remove")
    BY <1>0, <1>1, CommandIsShaped, SupersedesKeeps, JoinsKeeps
<1>2. ASSUME NEW i \in Ops, Execute(i)
      PROVE  IInv'
    BY <1>0, <1>2, ExecuteIsShaped, CommitsKeeps, EndpointMovesKeeps, EndpointEndsKeeps, HaltsKeeps
       DEF ExecuteShape
<1>3. ASSUME NEW i \in Ops, Task(i)
      PROVE  IInv'
    BY <1>0, <1>3, TaskIsShaped, WalksKeeps, GivesUpKeeps, CommitsKeeps, HearsKeeps, HooksKeeps,
       WritesKeeps, ClosesKeeps DEF TaskShape
<1>4. CASE Serving /\ UNCHANGED tasks
    BY <1>4, RelayStepKeeps DEF tasks
<1>5. CASE LoopFails
  <2>1. faults' \in 0 .. MaxFaults
      BY <1>0, <1>5, OutputsAssumption DEF LoopFails, TypeOK
  <2> QED BY <1>5, <2>1, RelayStepKeeps DEF LoopFails
<1>6. CASE UNCHANGED vars
  <2>1. UNCHANGED contractVars /\ UNCHANGED tasks
      BY <1>6 DEF vars
  <2> QED BY <2>1 DEF contractVars, tasks, IInv, TypeOK, PointsFit, PendingFits, GenerationsFit, LateFits,
             PlaysFit, StopReachesEverySelect, EvidenceIsFresh, GateClosedByItsOwner, StopMeansStopped
<1> QED BY <1>1, <1>2, <1>3, <1>4, <1>5, <1>6 DEF Next
-------------------------------------------------------------------------------
(* The inductive invariant of the coordinator: where the task of every     *)
(* selection stands says whether it has committed, whether it may still be *)
(* pending, and what the relay may show while its generation lasts.        *)
THEOREM InvariantHolds == Spec => []IInv
<1>1. Init => IInv
    BY InitIInv
<1>2. IInv /\ [Next]_vars => IInv'
    BY NextIInv
<1> QED BY <1>1, <1>2, PTL DEF Spec

(* Every variable keeps its type, the endpoint is busy with a command that *)
(* has not ended, and the lease is the writing task's.                     *)
THEOREM TypeCorrect == Spec => []TypeOK
BY InvariantHolds, PTL DEF IInv

(* However late a selection finishes or commits, the next Stop finds every *)
(* one that has no outcome, and can cancel it.                             *)
THEOREM StopReaches == Spec => []StopReachesEverySelect
BY InvariantHolds, PTL DEF IInv

(* The session that completes a selection was reserved under the           *)
(* selection's own commit.                                                 *)
THEOREM EvidenceFresh == Spec => []EvidenceIsFresh
BY InvariantHolds, PTL DEF IInv

(* A failed resume closes the gate on its own selection, and leaves a      *)
(* newer one open.                                                         *)
THEOREM GateOwned == Spec => []GateClosedByItsOwner
BY InvariantHolds, PTL DEF IInv

(* After a Stop has verified that HQPlayer stopped, no older selection's   *)
(* Play follows it into the wire.                                          *)
THEOREM StopIsLast == Spec => []StopMeansStopped
BY InvariantHolds, PTL DEF IInv
===============================================================================
