------------------------------ MODULE HqpOutputs ------------------------------
(***************************************************************************)
(* The outputs coordinator of one HQPlayer instance                        *)
(* (src/src/adapters/hqplayer/naa/coordinator.rs) over its NAA relay.      *)
(* Commands are executed one at a time by the instance's endpoint.  A      *)
(* select hands a pending selection to a task of its own: it stops         *)
(* HQPlayer or pauses the paired source, commits the route, and resumes    *)
(* what was playing.  A newer command supersedes it.                       *)
(*                                                                         *)
(* Every action is what one task does between two awaits, or between two   *)
(* acquisitions of the locks of the relay and the ledger.  HQPlayer, the   *)
(* source and the clients of the relay are external: each call may answer, *)
(* fail or run into its deadline.                                          *)
(***************************************************************************)
EXTENDS RelayContract

CONSTANTS
    MaxOps,     \* bound on the commands
    MaxFaults   \* bound on accept loops that fail

ASSUME OutputsAssumption == MaxOps \in Nat /\ MaxFaults \in Nat

Ops == 1 .. MaxOps

VARIABLES
    op,         \* the ledger: HqpOutputOperation, and where its task stands
    admitted,   \* how many were admitted
    pending,    \* HqpOutputCoordinator::pending
    busy,       \* the command the endpoint is executing
    lease,      \* HqpAdapter::operation_lock, as the native hooks hold it
    paired,     \* whether a source control is set
    native,     \* history: the native write that came last, and whose it was
    faults

tasks == <<op, admitted, pending, busy, lease, paired, native, faults>>
vars == <<contractVars, tasks>>

NoOp == [kind |-> "none", route |-> NoRoute, at |-> "none", outcome |-> "none",
         cancelled |-> FALSE, playing |-> FALSE, stopped |-> FALSE,
         pre |-> 0, gen |-> 0, seen |-> 0]

Init ==
    /\ \E r \in Routes \cup {NoRoute} : ContractInit(r)
    /\ op = [i \in Ops |-> NoOp]
    /\ admitted = 0 /\ pending = 0 /\ busy = 0 /\ lease = 0
    /\ paired \in BOOLEAN
    /\ native = <<0, "none">>
    /\ faults = 0
-------------------------------------------------------------------------------
(* The ledger *)

\* finish_operation: an operation that has an outcome keeps it.  A task that ends gives up
\* the pending slot if it is its own.
Ended(o, outcome) ==
    [o EXCEPT !.at = "done", !.outcome = IF @ = "none" THEN outcome ELSE @,
              !.playing = FALSE, !.pre = 0, !.cancelled = FALSE]

\* Mutant of End: the slot is cleared, whosever it is.
EndClearing(i, outcome) ==
    /\ op' = [op EXCEPT ![i] = Ended(@, outcome)]
    /\ pending' = 0

End(i, outcome) ==
    /\ op' = [op EXCEPT ![i] = Ended(@, outcome)]
    /\ pending' = IF pending = i THEN 0 ELSE pending

Go(i, at) == op' = [op EXCEPT ![i].at = at]

\* supersede: the pending selection is cancelled, and its generation is over.
Superseded ==
    IF pending = 0 THEN op
    ELSE [op EXCEPT ![pending].cancelled = TRUE,
                    ![pending].outcome = IF @ = "none" THEN "cancelled" ELSE @]

Admit(kind, r, at, ledger) ==
    /\ busy = 0 /\ admitted < MaxOps
    /\ admitted' = admitted + 1
    /\ op' = [ledger EXCEPT ![admitted'] =
                 [NoOp EXCEPT !.kind = kind, !.route = r, !.at = at]]

RelayKept == UNCHANGED contractVars

\* The fence of a native hook.
Fenced(i, g) == ~op[i].cancelled /\ generation = g

\* A cancellable await of a cancelled task may end it, and may not: the select is unbiased.
Abort(i) == End(i, "cancelled")
-------------------------------------------------------------------------------
(* Commands: execute, on the endpoint *)

\* A select is admitted while the listener accepts.  If nothing can be playing through the
\* relay, the endpoint commits the route itself.
Select(r) ==
    /\ Admit("select", r, IF shown = Nothing /\ ~paired THEN "direct" ELSE "spawned", Superseded)
    /\ pending' = admitted'
    /\ busy' = IF shown = Nothing /\ ~paired THEN admitted' ELSE 0
    /\ BumpGeneration
    /\ UNCHANGED <<lease, paired, native, faults>>

\* commit_selection, from whichever task.  It fails when the route is gone or cannot be saved.
Commit(i, at) ==
    \/ /\ CommitSelection(op[i].route)
       /\ IF at = "done"
          THEN /\ op' = [op EXCEPT ![i] = [Ended(@, "complete") EXCEPT !.gen = generation']]
               /\ pending' = IF pending = i THEN 0 ELSE pending
          ELSE /\ op' = [op EXCEPT ![i].at = at, ![i].gen = generation']
               /\ UNCHANGED pending
    \/ End(i, "failed") /\ RelayKept

Direct(i) ==
    /\ op[i].at = "direct"
    /\ Commit(i, "done")
    /\ busy' = 0
    /\ UNCHANGED <<admitted, lease, paired, native, faults>>

\* Stop supersedes, then clears the selection, then stops HQPlayer if there was a session or
\* it is reachable.
StopOutput ==
    /\ Admit("stop", NoRoute, "clearing", Superseded)
    /\ pending' = 0
    /\ busy' = admitted'
    /\ BumpGeneration
    /\ UNCHANGED <<lease, paired, native, faults>>

Clear(i) ==
    /\ op[i].at = "clearing"
    /\ ClearSelection
    /\ \/ Go(i, "halting") /\ UNCHANGED <<pending, busy>>
       \/ shown = Nothing /\ End(i, "complete") /\ busy' = 0
    /\ UNCHANGED <<admitted, lease, paired, native, faults>>

\* The hook waits for the lease until its deadline.
\* Mutant of Halt: it does not wait.
HaltUnleased(i) ==
    /\ op[i].at = "halting"
    /\ Go(i, "haltWriting")
    /\ UNCHANGED <<pending, busy, lease, admitted, paired, native, faults>>
    /\ RelayKept

Halt(i) ==
    /\ op[i].at = "halting"
    /\ \/ lease = 0 /\ lease' = i /\ Go(i, "haltWriting") /\ UNCHANGED <<pending, busy>>
       \/ End(i, "partial") /\ busy' = 0 /\ UNCHANGED lease
    /\ UNCHANGED <<admitted, paired, native, faults>>
    /\ RelayKept

HaltWritten(i) ==
    /\ op[i].at = "haltWriting"
    /\ \/ op' = [op EXCEPT ![i] = [Ended(@, "complete") EXCEPT !.stopped = TRUE]]
          /\ native' = <<i, "stop">> /\ UNCHANGED pending
       \/ End(i, "partial") /\ native' \in {native, <<i, "stop">>}
    /\ busy' = 0 /\ lease' = 0
    /\ UNCHANGED <<admitted, paired, faults>>
    /\ RelayKept

\* RouteUpdate and RouteRemove supersede when the route is the selected one.
Edit(r, kind) ==
    /\ Admit(kind, r, kind, IF r = selected THEN Superseded ELSE op)
    /\ busy' = admitted'
    /\ IF r = selected
       THEN pending' = 0 /\ BumpGeneration
       ELSE UNCHANGED pending /\ RelayKept
    /\ UNCHANGED <<lease, paired, native, faults>>

Edited(i) ==
    /\ op[i].at \in {"update", "remove"}
    /\ \/ /\ op[i].route # selected /\ RelayKept
          /\ End(i, "complete")
       \/ /\ op[i].route = selected
          /\ IF op[i].at = "update" THEN Close ELSE Deselect
          /\ End(i, "complete")
       \/ RelayKept /\ End(i, "failed")
    /\ busy' = 0
    /\ UNCHANGED <<admitted, lease, paired, native, faults>>

\* RelayConfigure supersedes, closes the listener, and may open it anew.
Configure ==
    /\ Admit("configure", NoRoute, "unbinding", Superseded)
    /\ pending' = 0
    /\ busy' = admitted'
    /\ BumpGeneration
    /\ UNCHANGED <<lease, paired, native, faults>>

Unbind(i) ==
    /\ op[i].at = "unbinding"
    /\ Close
    /\ \E next \in {"binding", "persisting"} : Go(i, next)
    /\ UNCHANGED <<pending, busy, admitted, lease, paired, native, faults>>

Bind(i) ==
    /\ op[i].at = "binding"
    /\ \/ OpenGate /\ Go(i, "persisting") /\ UNCHANGED <<pending, busy>>
       \/ RelayKept /\ End(i, "failed") /\ busy' = 0
    /\ UNCHANGED <<admitted, lease, paired, native, faults>>

\* The settings are saved by the adapter.
Configured(i) ==
    /\ op[i].at = "persisting"
    /\ End(i, "complete") \/ End(i, "partial")
    /\ busy' = 0
    /\ UNCHANGED <<admitted, lease, paired, native, faults>>
    /\ RelayKept

Execute(i) == Direct(i) \/ Clear(i) \/ Halt(i) \/ HaltWritten(i) \/ Edited(i)
              \/ Unbind(i) \/ Bind(i) \/ Configured(i)
-------------------------------------------------------------------------------
(* The task of a select: select_sequence *)

Kept == UNCHANGED <<admitted, busy, paired, faults>>

\* A source control pauses what plays.  If it has nothing to do with this instance, HQPlayer's
\* own transport is stopped.
Pause(i) ==
    /\ op[i].at = "spawned"
    /\ \/ ~paired /\ Go(i, "observing") /\ UNCHANGED pending
       \/ paired /\ Go(i, "observing") /\ UNCHANGED pending
       \/ /\ paired
          /\ \E p \in BOOLEAN : op' = [op EXCEPT ![i].at = "paused", ![i].playing = p]
          /\ UNCHANGED pending
       \/ paired /\ End(i, "failed")
       \/ paired /\ op[i].cancelled /\ Abort(i)
    /\ Kept /\ UNCHANGED <<lease, native>> /\ RelayKept

\* select_paired_source looks at the token, waits, and commits.
Paused(i) ==
    /\ op[i].at = "paused"
    /\ IF op[i].cancelled THEN Abort(i) ELSE Go(i, "pairing") /\ UNCHANGED pending
    /\ Kept /\ UNCHANGED <<lease, native>> /\ RelayKept

PairCommit(i) ==
    /\ op[i].at = "pairing"
    /\ \/ Commit(i, IF op[i].playing THEN "paired" ELSE "done")
       \/ op[i].cancelled /\ op[i].playing /\ Abort(i) /\ RelayKept
    /\ Kept /\ UNCHANGED <<lease, native>>

Resume(i) ==
    /\ op[i].at = "paired"
    /\ IF Fenced(i, op[i].gen)
       THEN Go(i, "resuming") /\ UNCHANGED pending
       ELSE Abort(i)
    /\ Kept /\ UNCHANGED <<lease, native>> /\ RelayKept

Resumed(i) ==
    /\ op[i].at = "resuming"
    /\ \/ Go(i, "hearing") /\ UNCHANGED pending
       \/ End(i, "failed")
       \/ op[i].cancelled /\ Abort(i)
    /\ Kept /\ UNCHANGED <<lease, native>> /\ RelayKept

\* await_session sees what the relay shows for the operation's own generation, until it is
\* what it waits for, or the session fails, or time is up.
\* What it waited for is there.
Heard(i, next) ==
    /\ op' = [op EXCEPT ![i] = [(IF next = "done" THEN Ended(@, "complete") ELSE @)
                                   EXCEPT !.at = next, !.seen = shown.since]]
    /\ pending' = IF next = "done" /\ pending = i THEN 0 ELSE pending

Unheard(i, given) ==
    IF given = "failed" THEN End(i, "failed") ELSE Go(i, given) /\ UNCHANGED pending

\* Mutant of Await: the generation is not compared.
AwaitAny(i, reached, next, given) ==
    \/ shown # Nothing /\ reached \subseteq shown.reached /\ Heard(i, next)
    \/ Unheard(i, given)
    \/ op[i].cancelled /\ Abort(i)

\* Mutant of Await: without a deadline.
AwaitUntimed(i, reached, next, given) ==
    IF generation # op[i].gen THEN Abort(i)
    ELSE \/ shown # Nothing /\ reached \subseteq shown.reached /\ Heard(i, next)
         \/ op[i].cancelled /\ Abort(i)

Await(i, reached, next, given) ==
    IF generation # op[i].gen THEN Abort(i)
    ELSE \/ shown # Nothing /\ reached \subseteq shown.reached /\ Heard(i, next)
         \/ Unheard(i, given)
         \/ op[i].cancelled /\ Abort(i)

Waits(i) ==
    /\ \/ op[i].at = "hearing" /\ Await(i, Milestones, "done", "silencing")
       \/ op[i].at = "connecting" /\ Await(i, {"initialized"}, "connected", "failed")
       \/ op[i].at = "starting" /\ Await(i, {"playing"}, "verifying", "failing")
    /\ Kept /\ UNCHANGED <<lease, native>> /\ RelayKept

\* The source is asked to pause again.
Silence(i) ==
    /\ op[i].at = "silencing"
    /\ End(i, "failed") \/ (op[i].cancelled /\ Abort(i))
    /\ Kept /\ UNCHANGED <<lease, native>> /\ RelayKept

\* Without a session nothing plays through the relay, and the route is committed at once.
Observe(i) ==
    /\ op[i].at = "observing"
    /\ Go(i, IF shown = Nothing THEN "bare" ELSE "seen")
    /\ Kept /\ UNCHANGED <<pending, lease, native>> /\ RelayKept

Bare(i) ==
    /\ op[i].at = "bare"
    /\ Commit(i, "done")
    /\ Kept /\ UNCHANGED <<lease, native>>

Claim(i) ==
    /\ op[i].at = "seen"
    /\ op' = [op EXCEPT ![i].at = "reading", ![i].pre = generation]
    /\ Kept /\ UNCHANGED <<pending, lease, native>> /\ RelayKept

\* Native hooks wait for the lease.  Fence and deadline refuse before a write, which cancels
\* the selection.
Read(i) ==
    /\ op[i].at = "reading"
    /\ \/ /\ lease = 0 /\ Fenced(i, op[i].pre)
          /\ \/ Go(i, "deciding") /\ UNCHANGED pending
             \/ \E p \in BOOLEAN :
                   op' = [op EXCEPT ![i].at = "stopping", ![i].playing = p] /\ UNCHANGED pending
             \/ End(i, "failed")
       \/ Abort(i)
    /\ Kept /\ UNCHANGED <<lease, native>> /\ RelayKept

\* A hook takes the lease, looks at the fence, and writes.
Hook(i, g, writing) ==
    lease = 0 /\ Fenced(i, g) /\ lease' = i /\ Go(i, writing) /\ UNCHANGED pending

StopSource(i) ==
    /\ op[i].at = "stopping"
    /\ Hook(i, op[i].pre, "stopWriting") \/ (Abort(i) /\ UNCHANGED lease)
    /\ Kept /\ UNCHANGED native /\ RelayKept

\* The write is in the wire, or it may be; the task may be cancelled under it.
\* Mutant of Written: a task that is cancelled keeps the lease.
WrittenLeaking(i, what, done, unsure) ==
    /\ \/ Go(i, done) /\ UNCHANGED pending /\ native' = <<i, what>> /\ lease' = 0
       \/ op[i].cancelled /\ Abort(i) /\ UNCHANGED lease /\ native' \in {native, <<i, what>>}
    /\ Kept /\ RelayKept

Written(i, what, done, unsure) ==
    /\ lease' = 0
    /\ \/ Go(i, done) /\ UNCHANGED pending /\ native' = <<i, what>>
       \/ /\ IF unsure = "failed" THEN End(i, "failed") ELSE Go(i, unsure) /\ UNCHANGED pending
          /\ native' \in {native, <<i, what>>}
       \/ op[i].cancelled /\ Abort(i) /\ native' \in {native, <<i, what>>}
    /\ Kept /\ RelayKept

StopWritten(i) == op[i].at = "stopWriting" /\ Written(i, "stop", "deciding", "failed")

Decide(i) ==
    /\ op[i].at = "deciding"
    /\ IF Fenced(i, op[i].pre) THEN Go(i, "committing") /\ UNCHANGED pending ELSE Abort(i)
    /\ Kept /\ UNCHANGED <<lease, native>> /\ RelayKept

CommitRoute(i) ==
    /\ op[i].at = "committing"
    /\ Commit(i, IF op[i].playing THEN "connecting" ELSE "done")
    /\ Kept /\ UNCHANGED <<lease, native>>

Play(i) ==
    /\ op[i].at = "connected"
    /\ Hook(i, op[i].gen, "playWriting") \/ (Abort(i) /\ UNCHANGED lease)
    /\ Kept /\ UNCHANGED native /\ RelayKept

PlayWritten(i) == op[i].at = "playWriting" /\ Written(i, "play", "starting", "failing")

\* State 2 is confirmed, and then the position is restored.
Verify(i) ==
    /\ op[i].at = "verifying"
    /\ \/ lease = 0 /\ Fenced(i, op[i].gen)
          /\ \/ End(i, "complete") \/ End(i, "partial")
             \/ Go(i, "failing") /\ UNCHANGED pending
       \/ Abort(i)
    /\ Kept /\ UNCHANGED <<lease, native>> /\ RelayKept

\* resume_failed: a last Stop behind the fence, and then the gate is closed while the
\* generation is still its own.
Fail(i) ==
    /\ op[i].at = "failing"
    /\ Hook(i, op[i].gen, "failWriting")
       \/ (Go(i, "closing") /\ UNCHANGED <<pending, lease>>)
    /\ Kept /\ UNCHANGED native /\ RelayKept

FailWritten(i) ==
    /\ op[i].at = "failWriting"
    /\ lease' = 0 /\ Go(i, "closing") /\ native' \in {native, <<i, "stop">>}
    /\ UNCHANGED pending /\ Kept /\ RelayKept

\* Mutant of CloseGate: the gate is closed also after a newer commit.
CloseGateAnyway(i) ==
    /\ op[i].at = "closing"
    /\ DisableRouting(generation)
    /\ End(i, "failed")
    /\ Kept /\ UNCHANGED <<lease, native>>

CloseGate(i) ==
    /\ op[i].at = "closing"
    /\ \/ DisableRouting(op[i].gen)
       \/ generation # op[i].gen /\ RelayKept
    /\ End(i, "failed")
    /\ Kept /\ UNCHANGED <<lease, native>>

Task(i) ==
    \/ Pause(i) \/ Paused(i) \/ PairCommit(i) \/ Resume(i) \/ Resumed(i) \/ Waits(i) \/ Silence(i)
    \/ Observe(i) \/ Bare(i) \/ Claim(i) \/ Read(i) \/ StopSource(i) \/ StopWritten(i)
    \/ Decide(i) \/ CommitRoute(i) \/ Play(i) \/ PlayWritten(i) \/ Verify(i)
    \/ Fail(i) \/ FailWritten(i) \/ CloseGate(i)
-------------------------------------------------------------------------------
\* The accept loop of the relay fails, and closes its session.
LoopFails ==
    /\ faults < MaxFaults /\ faults' = faults + 1
    /\ Close
    /\ UNCHANGED <<op, admitted, pending, busy, lease, paired, native>>

Next ==
    \/ StopOutput \/ Configure
    \/ \E r \in Routes : Select(r) \/ Edit(r, "update") \/ Edit(r, "remove")
    \/ \E i \in Ops : Execute(i) \/ Task(i)
    \/ Serving /\ UNCHANGED tasks
    \/ LoopFails

\* Tasks run: every wait of theirs has a deadline, and the endpoint's as well.
Fairness == \A i \in Ops : WF_vars(Execute(i) \/ Task(i))

Spec == Init /\ [][Next]_vars /\ Fairness
-------------------------------------------------------------------------------
Points == {"none", "done", "direct", "spawned", "clearing", "halting", "haltWriting", "update",
           "remove", "unbinding", "binding", "persisting", "observing", "paused", "pairing", "paired",
           "resuming", "hearing", "silencing", "bare", "seen", "reading", "deciding", "stopping",
           "stopWriting", "committing", "connecting", "connected", "playWriting", "starting",
           "verifying", "failing", "failWriting", "closing"}
Kinds == {"none", "select", "stop", "update", "remove", "configure"}
Outcomes == {"none", "complete", "failed", "partial", "cancelled"}

Writing == {"haltWriting", "stopWriting", "playWriting", "failWriting"}

\* Every variable of the coordinator stays within its type, the endpoint is busy with a
\* command that has not ended, and the lease is the task's that writes, and of no other.
TypeOK ==
    /\ selected \in Routes \cup {NoRoute} /\ generation \in Nat /\ gate \in BOOLEAN
    /\ shown \in [since : Nat, route : Routes \cup {NoRoute}, reached : SUBSET Milestones]
    /\ op \in [Ops -> [kind : Kinds, route : Routes \cup {NoRoute}, at : Points,
                       outcome : Outcomes, cancelled : BOOLEAN, playing : BOOLEAN,
                       pre : Nat, gen : Nat, seen : Nat, stopped : BOOLEAN]]
    /\ admitted \in 0 .. MaxOps
    /\ pending \in Ops \cup {0} /\ busy \in Ops \cup {0} /\ lease \in Ops \cup {0}
    /\ paired \in BOOLEAN
    /\ native \in (Ops \cup {0}) \X {"none", "stop", "play"}
    /\ faults \in 0 .. MaxFaults
    /\ busy # 0 => op[busy].at # "done"
    /\ \A i \in Ops : op[i].at \in Writing <=> lease = i

\* A selection that has no outcome yet is the pending one: whatever was superseded, finished
\* late or committed in between, the next Stop finds it and can cancel it.
StopReachesEverySelect ==
    \A i \in Ops : op[i].kind = "select" /\ op[i].outcome = "none" => pending = i

\* The session whose evidence completes a selection was reserved under the selection's own
\* commit: nothing that an older or newer route carries counts as success.
EvidenceIsFresh == \A i \in Ops : op[i].seen # 0 => op[i].seen = op[i].gen

\* The gate is closed on the selection whose resume failed, and on no other: a failed resume
\* that was superseded leaves the newer selection open.
GateClosedByItsOwner ==
    ~gate => \E i \in Ops :
                /\ op[i].at = "done" /\ op[i].outcome = "failed"
                /\ selected \in {op[i].route, NoRoute}
                /\ \A j \in Ops : op[j].gen <= op[i].gen

\* Once a Stop has verified that HQPlayer stopped, no Play of an older selection follows it
\* into the wire, although that selection may have passed its fence before.
StopMeansStopped ==
    \A s, i \in Ops :
        op[s].kind = "stop" /\ op[s].stopped /\ native = <<i, "play">> => i > s

\* A superseded selection commits nothing.
SupersededNeverCommits ==
    [][ \A i \in Ops : op'[i].gen # op[i].gen => ~op[i].cancelled ]_vars

\* Every admitted operation gets an outcome.
EveryOperationEnds ==
    \A i \in Ops : (op[i].kind # "none") ~> (op[i].outcome # "none" /\ op[i].at = "done")
===============================================================================
