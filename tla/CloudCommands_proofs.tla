-------------------------- MODULE CloudCommands_proofs --------------------------
(***************************************************************************)
(* Proofs about CloudCommands, for any keys, payloads, times and limits.   *)
(*                                                                         *)
(* The argument: what has been executed in this session was executed in    *)
(* this run and is still in the verifier's memory, or is older than the    *)
(* retention (Guarded); what has been executed in this run is still in the *)
(* ledger, or is being recorded, or is older than the retention (Kept).    *)
(* Nothing is assumed of the relay's clock.                                *)
(***************************************************************************)
EXTENDS CloudCommands, FiniteSetTheorems, TLAPS

Typed ==
    /\ now \in Nat /\ epoch \in Nat /\ run \in Nat /\ up \in BOOLEAN
    /\ sent \subseteq Envelopes
    /\ seen \subseteq [request : 1 .. MaxRequests, at : Nat]
    /\ ledger \subseteq [key : Keys, payload : Payloads, outcome : Outcomes, at : Nat]
    /\ \/ busy = Idle
       \/ busy \in [phase : {"dispatching"}, envelope : Envelopes, at : Nat]
       \/ busy \in [phase : {"done"}, envelope : Envelopes, at : Nat, outcome : Outcomes]
    /\ executed \in Seq([envelope : Envelopes, at : Nat, run : Nat])
    /\ heard \subseteq [request : 1 .. MaxRequests, status : Outcomes \cup {"expired"}]

Bounded ==
    /\ IsFiniteSet(seen) /\ Cardinality(seen) <= MaxSeen
    /\ IsFiniteSet(ledger) /\ Cardinality(ledger) <= MaxLedger
    /\ busy # Idle => Cardinality(ledger) < MaxLedger

(* A request is issued once, for a session that has begun.                 *)
Issued ==
    /\ IsFiniteSet(sent)
    /\ \A e \in sent : /\ e.request <= Cardinality(sent)
                       /\ e.epoch <= epoch
    /\ \A e, f \in sent : e.request = f.request => e = f

(* What was begun at a time was acceptable then.                           *)
Accepted(e, t) == e \in sent /\ t <= now /\ t < e.expires

(* A request of the session at hand is one of the run at hand, and is      *)
(* remembered or was begun long ago.                                       *)
Guarded(e, t, r) ==
    up /\ e.epoch = epoch =>
        /\ r = run
        /\ [request |-> e.request, at |-> t] \in seen \/ now > t + Retention

(* A key of the run at hand is recorded, or about to be, or long ago.      *)
Kept(e, t) ==
    \/ \E x \in ledger : x.key = e.key /\ x.at = t
    \/ now > t + Retention
    \/ busy # Idle /\ busy.phase = "done" /\ busy.envelope = e /\ busy.at = t

ExecutedFits ==
    \A i \in DOMAIN executed :
        /\ Accepted(executed[i].envelope, executed[i].at)
        /\ Guarded(executed[i].envelope, executed[i].at, executed[i].run)
        /\ executed[i].run <= run
        /\ executed[i].run = run => Kept(executed[i].envelope, executed[i].at)

BusyFits ==
    busy # Idle =>
        /\ up /\ busy.envelope.epoch = epoch
        /\ Accepted(busy.envelope, busy.at)
        /\ [request |-> busy.envelope.request, at |-> busy.at] \in seen

(* What is at work is new, as a request and as a key, or comes long after. *)
BusyIsNew ==
    busy # Idle /\ busy.phase = "dispatching" =>
        \A i \in DOMAIN executed :
            /\ executed[i].envelope.request = busy.envelope.request
               => executed[i].run = run /\ busy.at > executed[i].at + Retention
            /\ executed[i].run = run /\ executed[i].envelope.key = busy.envelope.key
               => busy.at > executed[i].at + Retention

IInv ==
    /\ Typed /\ Bounded /\ Issued /\ ExecutedFits /\ BusyFits /\ BusyIsNew
    /\ GrantOncePerRetention /\ KeyOncePerRetention

LEMMA Constants ==
    /\ Lifetime \in Nat /\ Skew \in Nat /\ Behind \in Nat /\ Ahead \in Nat /\ Retention \in Nat
    /\ MaxSeen \in Nat /\ MaxLedger \in Nat
    /\ MaxTime \in Nat /\ MaxRequests \in Nat /\ MaxEpoch \in Nat /\ MaxRuns \in Nat
BY CommandsAssumption

(* Executed commands and the one at work as the other lemmas use them.     *)
LEMMA ExecutedTyped ==
    ASSUME Typed, NEW i \in DOMAIN executed
    PROVE  /\ executed[i].envelope \in Envelopes
           /\ executed[i].at \in Nat /\ executed[i].run \in Nat
<1> DEFINE Executions == [envelope : Envelopes, at : Nat, run : Nat]
<1>1. executed \in Seq(Executions)
    BY DEF Typed
<1> HIDE DEF Executions
<1>2. executed[i] \in Executions
    BY <1>1
<1> QED BY <1>2 DEF Executions

LEMMA BusyTyped ==
    ASSUME Typed, busy # Idle
    PROVE  /\ busy.phase \in {"dispatching", "done"}
           /\ busy.envelope \in Envelopes /\ busy.at \in Nat
           /\ busy.phase = "done" => busy.outcome \in Outcomes
BY DEF Typed, Idle

(* Memories that only forget stay within their limits.                     *)
LEMMA RememberedBounded ==
    ASSUME NEW S, IsFiniteSet(S)
    PROVE  /\ Remembered(S) \subseteq S
           /\ IsFiniteSet(Remembered(S)) /\ Cardinality(Remembered(S)) <= Cardinality(S)
           /\ Cardinality(S) \in Nat /\ Cardinality(Remembered(S)) \in Nat
<1>1. Remembered(S) \subseteq S
    BY DEF Remembered
<1> QED BY <1>1, FS_Subset, FS_CardinalityType

LEMMA InitInv == Init => IInv
<1> SUFFICES ASSUME Init PROVE IInv
    OBVIOUS
<1>0. <<>> \in Seq([envelope : Envelopes, at : Nat, run : Nat])
    OBVIOUS
<1>1. Typed
    BY <1>0 DEF Init, Typed
<1>2. Bounded /\ Issued
    BY FS_EmptySet, Constants DEF Init, Bounded, Issued
<1>3. /\ ExecutedFits /\ BusyFits /\ BusyIsNew /\ GrantOncePerRetention /\ KeyOncePerRetention
    BY DEF Init, ExecutedFits, BusyFits, BusyIsNew, GrantOncePerRetention, KeyOncePerRetention
<1> QED BY <1>1, <1>2, <1>3 DEF IInv
-----------------------------------------------------------------------------
(* The clock.                                                              *)
LEMMA TickKeeps ==
    ASSUME IInv, Tick
    PROVE  IInv'
<1>1. now' = now + 1 /\ now' > now /\ now' \in Nat
      /\ UNCHANGED <<sent, epoch, up, run, seen, ledger, busy, executed, heard>>
    BY DEF Tick, IInv, Typed
<1>2. Typed' /\ Bounded' /\ GrantOncePerRetention' /\ KeyOncePerRetention' /\ BusyIsNew'
    BY <1>1 DEF IInv, Typed, Bounded, GrantOncePerRetention, KeyOncePerRetention, BusyIsNew
<1>3. Issued'
    BY <1>1, Constants DEF IInv, Typed, Issued, Envelopes
<1>4. \A e, t : Accepted(e, t) /\ t \in Nat => Accepted(e, t)'
    BY <1>1 DEF Accepted, IInv, Typed
<1>5. \A e, r : \A t \in Nat : Guarded(e, t, r) => Guarded(e, t, r)'
    BY <1>1, Constants DEF Guarded, IInv, Typed
<1>6. \A e, t : t \in Nat /\ Kept(e, t) => Kept(e, t)'
    BY <1>1, Constants DEF Kept, IInv, Typed
<1>7. ExecutedFits'
    BY <1>1, <1>4, <1>5, <1>6, ExecutedTyped DEF ExecutedFits, IInv
<1>8. BusyFits'
    BY <1>1, <1>4, BusyTyped DEF BusyFits, IInv
<1> QED BY <1>2, <1>3, <1>7, <1>8 DEF IInv

(* The relay issues a grant.                                               *)
LEMMA IssueKeeps ==
    ASSUME IInv, Issue
    PROVE  IInv'
<1>1. PICK k \in Keys, p \in Payloads, t \in now - Behind .. now + Ahead :
         sent' = sent \cup {[request |-> Cardinality(sent) + 1, key |-> k, payload |-> p,
                             epoch |-> epoch, issued |-> t, expires |-> t + Lifetime]}
    BY DEF Issue
<1>2. /\ Cardinality(sent) < MaxRequests
      /\ UNCHANGED <<now, epoch, up, run, seen, ledger, busy, executed, heard>>
    BY DEF Issue
<1> DEFINE new == [request |-> Cardinality(sent) + 1, key |-> k, payload |-> p,
                   epoch |-> epoch, issued |-> t, expires |-> t + Lifetime]
<1>3. Cardinality(sent) \in Nat /\ IsFiniteSet(sent)
    BY FS_CardinalityType DEF IInv, Issued
<1>4. t \in Int
    BY Constants DEF IInv, Typed
<1>5. new \in Envelopes
    BY <1>2, <1>3, <1>4, Constants DEF Envelopes, IInv, Typed
<1>6. new.request = Cardinality(sent) + 1 /\ new.epoch = epoch
    OBVIOUS
<1> HIDE DEF new
<1>7. sent' = sent \cup {new}
    BY <1>1 DEF new
<1>8. new \notin sent
    BY <1>3, <1>6 DEF IInv, Issued
<1>9. IsFiniteSet(sent') /\ Cardinality(sent') = Cardinality(sent) + 1
    BY <1>3, <1>7, <1>8, FS_AddElement
<1>10. Typed'
    BY <1>2, <1>5, <1>7 DEF IInv, Typed
<1>11. Issued'
  <2>1. ASSUME NEW e \in sent'
        PROVE  e.request <= Cardinality(sent') /\ e.epoch <= epoch'
    <3>1. CASE e \in sent
      <4>1. e.request \in Nat /\ e.request <= Cardinality(sent)
          BY <3>1 DEF IInv, Typed, Issued, Envelopes
      <4> QED BY <1>2, <1>3, <1>9, <3>1, <4>1 DEF IInv, Issued
    <3>2. CASE e = new
        BY <1>2, <1>3, <1>6, <1>9, <3>2 DEF IInv, Typed
    <3> QED BY <1>7, <3>1, <3>2
  <2>2. ASSUME NEW e \in sent', NEW f \in sent', e.request = f.request
        PROVE  e = f
    <3>1. \A g \in sent : g.request # new.request
        BY <1>3, <1>6 DEF IInv, Typed, Issued, Envelopes
    <3> QED BY <1>7, <2>2, <3>1 DEF IInv, Issued
  <2> QED BY <1>9, <2>1, <2>2 DEF Issued
<1>12. \A e, u : /\ Accepted(e, u) => Accepted(e, u)'
                 /\ \A r : Guarded(e, u, r) => Guarded(e, u, r)'
                 /\ Kept(e, u) => Kept(e, u)'
    BY <1>2, <1>7 DEF Accepted, Guarded, Kept
<1>13. ExecutedFits' /\ BusyFits'
    BY <1>2, <1>12 DEF IInv, ExecutedFits, BusyFits
<1>14. Bounded' /\ BusyIsNew' /\ GrantOncePerRetention' /\ KeyOncePerRetention'
    BY <1>2 DEF IInv, Bounded, BusyIsNew, GrantOncePerRetention, KeyOncePerRetention
<1> QED BY <1>10, <1>11, <1>13, <1>14 DEF IInv
-----------------------------------------------------------------------------
(* A session begins under an epoch no envelope names, and nothing is at    *)
(* work.                                                                   *)
LEMMA ConnectKeeps ==
    ASSUME IInv, Connect
    PROVE  IInv'
<1>1. /\ ~up /\ epoch' = epoch + 1 /\ up' = TRUE /\ seen' = {}
      /\ UNCHANGED <<now, sent, run, ledger, busy, executed, heard>>
    BY DEF Connect
<1>2. busy = Idle
    BY <1>1 DEF IInv, BusyFits
<1>0. epoch' \in Nat /\ up' \in BOOLEAN
    BY <1>1 DEF IInv, Typed
<1>3. Typed'
  <2>1. UNCHANGED <<now, sent, run, ledger, busy, executed, heard>>
      BY <1>1
  <2>2. busy' = Idle /\ seen' \subseteq [request : 1 .. MaxRequests, at : Nat]
      BY <1>1, <1>2 DEF Idle
  <2>3. Typed
      BY DEF IInv
  <2>4. /\ now' \in Nat /\ run' \in Nat /\ sent' \subseteq Envelopes
        /\ ledger' \subseteq [key : Keys, payload : Payloads, outcome : Outcomes, at : Nat]
        /\ heard' \subseteq [request : 1 .. MaxRequests, status : Outcomes \cup {"expired"}]
      BY <2>1, <2>3 DEF Typed
  <2>5. executed' \in Seq([envelope : Envelopes, at : Nat, run : Nat])
      BY <2>1, <2>3 DEF Typed
  <2>6. epoch' \in Nat
      BY <1>0
  <2>7. up' \in BOOLEAN
      BY <1>0, Zenon
  <2> QED BY <2>2, <2>4, <2>5, <2>6, <2>7 DEF Typed
<1>4. Bounded'
    BY <1>1, FS_EmptySet, Constants DEF IInv, Bounded
<1>5. Issued'
    BY <1>1 DEF IInv, Issued, Typed, Envelopes
<1>6. ExecutedFits'
  <2>1. \A e, t : (Accepted(e, t) => Accepted(e, t)') /\ (Kept(e, t) => Kept(e, t)')
      BY <1>1 DEF Accepted, Kept
  <2>2. \A e, t, r : Accepted(e, t) => Guarded(e, t, r)'
      BY <1>1 DEF Accepted, Guarded, IInv, Issued, Typed, Envelopes
  <2> QED BY <1>1, <2>1, <2>2 DEF IInv, ExecutedFits
<1>7. BusyFits' /\ BusyIsNew' /\ GrantOncePerRetention' /\ KeyOncePerRetention'
    BY <1>1, <1>2 DEF IInv, BusyFits, BusyIsNew, GrantOncePerRetention, KeyOncePerRetention
<1> QED BY <1>3, <1>4, <1>5, <1>6, <1>7 DEF IInv

(* The process dies: what was executed is of a former run and session.     *)
LEMMA RestartKeeps ==
    ASSUME IInv, Restart
    PROVE  IInv'
<1>1. /\ run' = run + 1 /\ up' = FALSE /\ seen' = {} /\ ledger' = {} /\ busy' = Idle
      /\ UNCHANGED <<now, sent, epoch, executed, heard>>
    BY DEF Restart
<1>3. Typed'
  <2>1. Typed
      BY DEF IInv
  <2>2. now' \in Nat /\ epoch' \in Nat /\ run' \in Nat /\ sent' \subseteq Envelopes
      BY <1>1, <2>1 DEF Typed
  <2>3. up' \in BOOLEAN
      BY <1>1
  <2>4. /\ seen' \subseteq [request : 1 .. MaxRequests, at : Nat]
        /\ ledger' \subseteq [key : Keys, payload : Payloads, outcome : Outcomes, at : Nat]
        /\ busy' = Idle
      BY <1>1 DEF Idle
  <2>5. /\ executed' \in Seq([envelope : Envelopes, at : Nat, run : Nat])
        /\ heard' \subseteq [request : 1 .. MaxRequests, status : Outcomes \cup {"expired"}]
      BY <1>1, <2>1 DEF Typed
  <2> QED BY <2>2, <2>3, <2>4, <2>5 DEF Typed
<1>4. Bounded'
    BY <1>1, FS_EmptySet, Constants DEF Bounded
<1>5. Issued'
    BY <1>1 DEF IInv, Issued
<1>6. ExecutedFits'
  <2>1. \A e, t, r : (Accepted(e, t) => Accepted(e, t)') /\ Guarded(e, t, r)'
      BY <1>1 DEF Accepted, Guarded
  <2>2. ASSUME NEW i \in DOMAIN executed
        PROVE  executed[i].run <= run' /\ executed[i].run # run'
      BY <1>1, ExecutedTyped DEF IInv, ExecutedFits, Typed
  <2> QED BY <1>1, <2>1, <2>2 DEF IInv, ExecutedFits
<1>7. BusyFits' /\ BusyIsNew' /\ GrantOncePerRetention' /\ KeyOncePerRetention'
    BY <1>1 DEF IInv, BusyFits, BusyIsNew, GrantOncePerRetention, KeyOncePerRetention
<1> QED BY <1>3, <1>4, <1>5, <1>6, <1>7 DEF IInv

(* What an envelope leaves behind that is not dispatched: memories that    *)
(* forget what is old, one request more that is remembered, an answer.     *)
LEMMA QuietKeeps ==
    ASSUME IInv, busy = Idle,
           UNCHANGED <<now, sent, epoch, run, busy, executed>>,
           up' \in BOOLEAN, up' => up,
           Remembered(seen) \subseteq seen', seen' \subseteq [request : 1 .. MaxRequests, at : Nat],
           IsFiniteSet(seen'), Cardinality(seen') <= MaxSeen,
           ledger' = ledger \/ ledger' = Remembered(ledger),
           heard' \subseteq [request : 1 .. MaxRequests, status : Outcomes \cup {"expired"}]
    PROVE  IInv'
<1>0. ledger' \subseteq ledger /\ Remembered(ledger) \subseteq ledger'
    BY DEF Remembered
<1>1. Typed'
    BY <1>0 DEF IInv, Typed
<1>2. Bounded'
    BY RememberedBounded, Constants DEF IInv, Bounded
<1>3. Issued' /\ BusyFits' /\ BusyIsNew' /\ GrantOncePerRetention' /\ KeyOncePerRetention'
    BY DEF IInv, Issued, BusyFits, BusyIsNew, GrantOncePerRetention, KeyOncePerRetention
<1>4. ASSUME NEW e \in Envelopes, NEW t \in Nat, NEW r, Accepted(e, t)
      PROVE  /\ Accepted(e, t)'
             /\ Guarded(e, t, r) => Guarded(e, t, r)'
             /\ Kept(e, t) => Kept(e, t)'
  <2>3. now \in Nat
      BY DEF IInv, Typed
  <2>4. Accepted(e, t)'
      BY <1>4 DEF Accepted
  <2>5. [request |-> e.request, at |-> t] \in seen
        => [request |-> e.request, at |-> t] \in seen' \/ now > t + Retention
      BY <2>3, Constants DEF Remembered
  <2>7. Guarded(e, t, r) => Guarded(e, t, r)'
      BY <2>5 DEF Guarded
  <2>8. ASSUME NEW x \in ledger, x.key = e.key, x.at = t
        PROVE  x \in ledger' \/ now > t + Retention
      BY <1>0, <2>3, <2>8, Constants DEF Remembered
  <2>9. Kept(e, t) => Kept(e, t)'
      BY <2>8 DEF Kept
  <2> QED BY <2>4, <2>7, <2>9
<1>5. ExecutedFits'
    BY <1>4, ExecutedTyped DEF IInv, ExecutedFits
<1> QED BY <1>1, <1>2, <1>3, <1>5 DEF IInv

(* Envelopes that are refused, repeated or answered at once.               *)
LEMMA ReplyTyped ==
    ASSUME IInv, NEW e \in sent, NEW status \in Outcomes \cup {"expired"}, Reply(e, status)
    PROVE  /\ up' \in BOOLEAN /\ (up' => up)
           /\ heard' \subseteq [request : 1 .. MaxRequests, status : Outcomes \cup {"expired"}]
<1>1. e.request \in 1 .. MaxRequests
    BY DEF IInv, Typed, Envelopes
<1>2. [request |-> e.request, status |-> status]
         \in [request : 1 .. MaxRequests, status : Outcomes \cup {"expired"}]
    BY <1>1
<1>3. CASE heard' = heard \cup {[request |-> e.request, status |-> status]} /\ UNCHANGED up
    BY <1>2, <1>3 DEF IInv, Typed
<1>4. CASE up' = FALSE /\ UNCHANGED heard
    BY <1>4 DEF IInv, Typed
<1> QED BY <1>3, <1>4 DEF Reply

LEMMA SeenTyped ==
    ASSUME IInv
    PROVE  /\ IsFiniteSet(seen) /\ IsFiniteSet(Remembered(seen))
           /\ Remembered(seen) \subseteq seen
           /\ Cardinality(Remembered(seen)) \in Nat /\ Cardinality(Remembered(seen)) <= MaxSeen
           /\ seen \subseteq [request : 1 .. MaxRequests, at : Nat]
<1>1. IsFiniteSet(seen) /\ Cardinality(seen) <= MaxSeen
    BY DEF IInv, Bounded
<1>2. seen \subseteq [request : 1 .. MaxRequests, at : Nat]
    BY DEF IInv, Typed
<1> QED BY <1>1, <1>2, RememberedBounded, Constants

(* One request more is remembered.                                         *)
LEMMA SeenGrows ==
    ASSUME IInv, NEW e \in sent, ~Overfull, Seen(e)
    PROVE  /\ Remembered(seen) \subseteq seen'
           /\ seen' \subseteq [request : 1 .. MaxRequests, at : Nat]
           /\ IsFiniteSet(seen') /\ Cardinality(seen') <= MaxSeen
           /\ [request |-> e.request, at |-> now] \in seen'
<1> DEFINE new == [request |-> e.request, at |-> now]
<1>1. new \in [request : 1 .. MaxRequests, at : Nat]
    BY DEF IInv, Typed, Envelopes
<1>2. seen' = Remembered(seen) \cup {new}
    BY DEF Seen
<1>3. Cardinality(Remembered(seen)) < MaxSeen
    BY SeenTyped, Constants DEF Overfull
<1> HIDE DEF new
<1>4. /\ IsFiniteSet(seen')
      /\ Cardinality(seen') = Cardinality(Remembered(seen))
            \/ Cardinality(seen') = Cardinality(Remembered(seen)) + 1
    BY <1>2, SeenTyped, FS_AddElement
<1>5. Cardinality(seen') <= MaxSeen
    BY <1>3, <1>4, SeenTyped, Constants
<1>6. seen' \subseteq [request : 1 .. MaxRequests, at : Nat]
    BY <1>1, <1>2, SeenTyped
<1> QED BY <1>2, <1>4, <1>5, <1>6 DEF new

LEMMA AnsweredKeeps ==
    ASSUME IInv, NEW e \in sent, Refuse(e) \/ Repeat(e) \/ Crowded(e) \/ Known(e)
    PROVE  IInv'
<1>1. CASE Refuse(e)
  <2>1. PICK status \in Outcomes \cup {"expired"} : Reply(e, status)
      BY <1>1 DEF Refuse, Outcomes
  <2>2. /\ UNCHANGED <<now, sent, epoch, run, seen, ledger, busy, executed>> /\ busy = Idle
      BY <1>1 DEF Refuse
  <2>3. IsFiniteSet(seen') /\ Cardinality(seen') <= MaxSeen
      BY <2>2 DEF IInv, Bounded
  <2> QED BY <2>1, <2>2, <2>3, ReplyTyped, SeenTyped, QuietKeeps
<1>2. CASE Repeat(e)
  <2>1. PICK status \in Outcomes \cup {"expired"} : Reply(e, status)
    <3>1. \A x \in Recorded(e) : x.outcome \in Outcomes
        BY DEF Recorded, Remembered, IInv, Typed
    <3> QED BY <1>2, <3>1 DEF Repeat, Outcomes
  <2>2. /\ UNCHANGED <<now, sent, epoch, run, busy, executed>> /\ busy = Idle
        /\ seen' = Remembered(seen) /\ ledger' = Remembered(ledger)
      BY <1>2 DEF Repeat
  <2> QED BY <2>1, <2>2, ReplyTyped, SeenTyped, QuietKeeps
<1>3. CASE Crowded(e)
  <2>1. Reply(e, "busy") /\ "busy" \in Outcomes
      BY <1>3 DEF Crowded, Outcomes
  <2>2. /\ UNCHANGED <<now, sent, epoch, run, busy, executed>> /\ busy = Idle
        /\ seen' = Remembered(seen) /\ ledger' = ledger
      BY <1>3 DEF Crowded
  <2> QED BY <2>1, <2>2, ReplyTyped, SeenTyped, QuietKeeps
<1>4. CASE Known(e)
  <2>1. PICK status \in Outcomes \cup {"expired"} : Reply(e, status)
    <3>1. \A x \in Recorded(e) : x.outcome \in Outcomes
        BY DEF Recorded, Remembered, IInv, Typed
    <3> QED BY <1>4, <3>1 DEF Known, Outcomes
  <2>2. /\ UNCHANGED <<now, sent, epoch, run, busy, executed>> /\ busy = Idle
        /\ ledger' = Remembered(ledger) /\ Seen(e) /\ ~Overfull
      BY <1>4 DEF Known, New
  <2> QED BY <2>1, <2>2, ReplyTyped, SeenGrows, QuietKeeps
<1> QED BY <1>1, <1>2, <1>3, <1>4
-----------------------------------------------------------------------------
(* A command is dispatched: its request has not been executed in this      *)
(* session, and its key not in this run, or long ago.                      *)
LEMMA BeginKeeps ==
    ASSUME IInv, NEW e \in sent, Begin(e)
    PROVE  IInv'
<1>1. /\ up /\ busy = Idle /\ Fresh(e) /\ ~Replayed(e) /\ ~Overfull /\ Seen(e)
      /\ ledger' = Remembered(ledger)
      /\ UNCHANGED <<now, sent, epoch, run, executed, up, heard>>
      /\ Recorded(e) = {} /\ ~Conflict(e) /\ ~LedgerFull
      /\ busy' = [phase |-> "dispatching", envelope |-> e, at |-> now]
    BY DEF Begin, New
<1>2. /\ Remembered(seen) \subseteq seen'
      /\ seen' \subseteq [request : 1 .. MaxRequests, at : Nat]
      /\ IsFiniteSet(seen') /\ Cardinality(seen') <= MaxSeen
      /\ [request |-> e.request, at |-> now] \in seen'
    BY <1>1, SeenGrows
<1>3. ledger' \subseteq ledger /\ IsFiniteSet(ledger') /\ Cardinality(ledger') < MaxLedger
    BY <1>1, RememberedBounded, Constants DEF IInv, Bounded, LedgerFull
<1>4. /\ busy' \in [phase : {"dispatching"}, envelope : Envelopes, at : Nat]
      /\ busy' # Idle /\ busy'.phase = "dispatching" /\ busy'.envelope = e /\ busy'.at = now
    BY <1>1 DEF IInv, Typed, Idle
<1>5. Typed'
    BY <1>1, <1>2, <1>3, <1>4 DEF IInv, Typed
<1>6. Bounded' /\ Issued'
    BY <1>1, <1>2, <1>3, Constants, FS_CardinalityType DEF IInv, Bounded, Issued
<1>7. GrantOncePerRetention' /\ KeyOncePerRetention'
    BY <1>1 DEF IInv, GrantOncePerRetention, KeyOncePerRetention
<1>8. BusyFits'
  <2>1. e.epoch = epoch /\ now < e.expires
      BY <1>1 DEF Fresh, Foreign, Late, IInv, Typed, Envelopes
  <2>2. now' <= now'
      BY <1>1 DEF IInv, Typed
  <2> QED BY <1>1, <1>2, <1>4, <2>1, <2>2 DEF BusyFits, Accepted
<1>9. ASSUME NEW f \in Envelopes, NEW t \in Nat, NEW r, Accepted(f, t)
      PROVE  /\ Accepted(f, t)'
             /\ Guarded(f, t, r) => Guarded(f, t, r)'
             /\ Kept(f, t) => Kept(f, t)'
             /\ Guarded(f, t, r) /\ f.request = e.request => r = run /\ now > t + Retention
             /\ Kept(f, t) /\ f.key = e.key => now > t + Retention
  <2>3. now \in Nat
      BY DEF IInv, Typed
  <2>4. Accepted(f, t)'
      BY <1>1, <1>9 DEF Accepted
  <2>5. [request |-> f.request, at |-> t] \in seen
        => [request |-> f.request, at |-> t] \in Remembered(seen) \/ now > t + Retention
      BY <2>3, Constants DEF Remembered
  <2>7. Guarded(f, t, r) => Guarded(f, t, r)'
      BY <1>1, <1>2, <2>5 DEF Guarded
  <2>8. ASSUME NEW x \in ledger, x.at = t
        PROVE  x \in Remembered(ledger) \/ now > t + Retention
      BY <2>3, <2>8, Constants DEF Remembered
  <2>9. Kept(f, t) => (\E x \in Remembered(ledger) : x.key = f.key /\ x.at = t)
                      \/ now > t + Retention
      BY <1>1, <2>8 DEF Kept
  <2>10. Kept(f, t) => Kept(f, t)'
      BY <1>1, <2>9 DEF Kept
  <2>11. ASSUME Guarded(f, t, r), f.request = e.request
         PROVE  r = run /\ now > t + Retention
    <3>1. f = e /\ e.epoch = epoch
        BY <1>1, <1>9, <2>11 DEF Accepted, IInv, Issued, Fresh, Foreign
    <3>2. [request |-> e.request, at |-> t] \notin Remembered(seen)
        BY <1>1 DEF Replayed
    <3> QED BY <1>1, <2>5, <2>11, <3>1, <3>2 DEF Guarded
  <2>12. ASSUME Kept(f, t), f.key = e.key
         PROVE  now > t + Retention
    <3>1. \A x \in Remembered(ledger) : x.key # e.key
        BY <1>1 DEF Recorded, Conflict
    <3> QED BY <2>9, <2>12, <3>1
  <2> QED BY <2>4, <2>7, <2>10, <2>11, <2>12
<1>10. ASSUME NEW i \in DOMAIN executed
       PROVE  /\ executed[i].envelope \in Envelopes /\ executed[i].at \in Nat
              /\ Accepted(executed[i].envelope, executed[i].at)
              /\ Guarded(executed[i].envelope, executed[i].at, executed[i].run)
              /\ executed[i].run <= run
              /\ executed[i].run = run => Kept(executed[i].envelope, executed[i].at)
    BY ExecutedTyped DEF IInv, ExecutedFits
<1>11. ExecutedFits'
    BY <1>1, <1>9, <1>10 DEF ExecutedFits
<1>12. BusyIsNew'
    BY <1>1, <1>4, <1>9, <1>10 DEF BusyIsNew
<1> QED BY <1>5, <1>6, <1>7, <1>8, <1>11, <1>12 DEF IInv

(* A device is reached, or not.                                            *)
LEMMA DispatchKeeps ==
    ASSUME IInv, Dispatch
    PROVE  IInv'
<1>1. PICK o \in Outcomes, reached \in BOOLEAN :
         /\ busy' = [phase |-> "done", envelope |-> busy.envelope, at |-> busy.at, outcome |-> o]
         /\ executed' = IF reached
                        THEN Append(executed, [envelope |-> busy.envelope, at |-> busy.at,
                                               run |-> run])
                        ELSE executed
    BY DEF Dispatch
<1>2. /\ busy.phase = "dispatching"
      /\ UNCHANGED <<now, sent, epoch, up, run, seen, ledger, heard>>
    BY DEF Dispatch
<1>3. busy # Idle
    BY <1>2 DEF Idle
<1>4. busy.envelope \in Envelopes /\ busy.at \in Nat
    BY <1>3, BusyTyped DEF IInv
<1>5. /\ busy' \in [phase : {"done"}, envelope : Envelopes, at : Nat, outcome : Outcomes]
      /\ busy' # Idle /\ busy'.phase = "done"
      /\ busy'.envelope = busy.envelope /\ busy'.at = busy.at
    BY <1>1, <1>4 DEF Idle
<1> DEFINE Executions == [envelope : Envelopes, at : Nat, run : Nat]
           new == [envelope |-> busy.envelope, at |-> busy.at, run |-> run]
<1>6. executed \in Seq(Executions) /\ new \in Executions
    BY <1>4 DEF IInv, Typed
<1>7. new.envelope = busy.envelope /\ new.at = busy.at /\ new.run = run
    OBVIOUS
<1>8. executed' = executed \/ executed' = Append(executed, new)
    BY <1>1
<1> HIDE DEF new, Executions
<1>9. executed' \in Seq(Executions)
    BY <1>6, <1>8
<1>10. \A i \in DOMAIN executed' :
          \/ i \in DOMAIN executed /\ executed'[i] = executed[i]
          \/ executed'[i] = new /\ i = Len(executed) + 1
    BY <1>6, <1>8
<1>11. Typed'
    BY <1>2, <1>5, <1>9 DEF IInv, Typed, Executions
<1>12. Bounded' /\ Issued' /\ BusyFits' /\ BusyIsNew'
    BY <1>2, <1>3, <1>5 DEF IInv, Bounded, Issued, BusyFits, BusyIsNew, Accepted
<1>14. ExecutedFits'
  <2>1. ASSUME NEW i \in DOMAIN executed', i \in DOMAIN executed, executed'[i] = executed[i]
        PROVE  /\ Accepted(executed[i].envelope, executed[i].at)'
               /\ Guarded(executed[i].envelope, executed[i].at, executed[i].run)'
               /\ (executed[i].run <= run)'
               /\ (executed[i].run = run => Kept(executed[i].envelope, executed[i].at))'
    <3>1. /\ Accepted(executed[i].envelope, executed[i].at)
          /\ Guarded(executed[i].envelope, executed[i].at, executed[i].run)
          /\ executed[i].run <= run
          /\ executed[i].run = run => Kept(executed[i].envelope, executed[i].at)
        BY <2>1 DEF IInv, ExecutedFits
    <3> QED BY <1>2, <1>3, <2>1, <3>1 DEF Accepted, Guarded, Kept
  <2>2. ASSUME NEW i \in DOMAIN executed', executed'[i] = new
        PROVE  /\ Accepted(executed[i].envelope, executed[i].at)'
               /\ Guarded(executed[i].envelope, executed[i].at, executed[i].run)'
               /\ (executed[i].run <= run)'
               /\ Kept(executed[i].envelope, executed[i].at)'
    <3>1. /\ executed'[i].envelope = busy.envelope /\ executed'[i].at = busy.at
          /\ executed'[i].run = run
        BY <1>7, <2>2
    <3>2. Accepted(busy.envelope, busy.at) /\ [request |-> busy.envelope.request, at |-> busy.at] \in seen
        BY <1>3 DEF IInv, BusyFits
    <3>3. Accepted(executed[i].envelope, executed[i].at)'
        BY <1>2, <3>1, <3>2 DEF Accepted
    <3>4. Guarded(executed[i].envelope, executed[i].at, executed[i].run)'
        BY <1>2, <3>1, <3>2 DEF Guarded
    <3>5. Kept(executed[i].envelope, executed[i].at)'
        BY <1>5, <3>1 DEF Kept
    <3>6. (executed[i].run <= run)'
        BY <1>2, <3>1 DEF IInv, Typed
    <3> QED BY <3>3, <3>4, <3>5, <3>6
  <2> QED BY <1>10, <2>1, <2>2 DEF ExecutedFits
<1>15. \A i \in DOMAIN executed :
          /\ executed[i].envelope.request = new.envelope.request
             => executed[i].run = run /\ new.at > executed[i].at + Retention
          /\ executed[i].run = run /\ executed[i].envelope.key = new.envelope.key
             => new.at > executed[i].at + Retention
    BY <1>2, <1>3, <1>7 DEF IInv, BusyIsNew
<1>13. new.at < new.envelope.expires
    BY <1>3, <1>7 DEF IInv, BusyFits, Accepted
<1>16. ASSUME NEW i \in DOMAIN executed', NEW j \in DOMAIN executed', i < j
       PROVE  /\ i \in DOMAIN executed /\ executed'[i] = executed[i]
              /\ (j \in DOMAIN executed /\ executed'[j] = executed[j]) \/ executed'[j] = new
  <2>1. \A k \in DOMAIN executed' : k \in Nat /\ k <= Len(executed) + 1
      BY <1>6, <1>8
  <2>2. i < Len(executed) + 1
      BY <1>6, <1>16, <2>1
  <2> QED BY <1>6, <1>10, <2>2
<1>17. GrantOncePerRetention'
  <2> SUFFICES ASSUME NEW i \in DOMAIN executed', NEW j \in DOMAIN executed', i < j,
                      executed'[i].envelope.request = executed'[j].envelope.request
               PROVE  /\ executed'[i].run = executed'[j].run
                      /\ executed'[j].at > executed'[i].at + Retention
                      /\ executed'[j].at < executed'[j].envelope.expires
      BY DEF GrantOncePerRetention
  <2>1. CASE j \in DOMAIN executed /\ executed'[j] = executed[j]
      BY <1>16, <2>1 DEF IInv, GrantOncePerRetention
  <2>2. CASE executed'[j] = new
      BY <1>7, <1>13, <1>15, <1>16, <2>2
  <2> QED BY <1>16, <2>1, <2>2
<1>18. KeyOncePerRetention'
  <2> SUFFICES ASSUME NEW i \in DOMAIN executed', NEW j \in DOMAIN executed', i < j,
                      executed'[i].envelope.key = executed'[j].envelope.key,
                      executed'[i].run = executed'[j].run
               PROVE  executed'[j].at > executed'[i].at + Retention
      BY DEF KeyOncePerRetention
  <2>1. CASE j \in DOMAIN executed /\ executed'[j] = executed[j]
      BY <1>16, <2>1 DEF IInv, KeyOncePerRetention
  <2>2. CASE executed'[j] = new
      BY <1>7, <1>15, <1>16, <2>2
  <2> QED BY <1>16, <2>1, <2>2
<1> QED BY <1>11, <1>12, <1>14, <1>17, <1>18 DEF IInv

(* The outcome is recorded, whether or not the relay hears of it.          *)
LEMMA FinishKeeps ==
    ASSUME IInv, Finish
    PROVE  IInv'
<1> DEFINE e == busy.envelope
           new == [key |-> busy.envelope.key, payload |-> busy.envelope.payload,
                   outcome |-> busy.outcome, at |-> busy.at]
<1>1. /\ busy.phase = "done" /\ Reply(busy.envelope, busy.outcome)
      /\ ledger' = ledger \cup {new}
      /\ busy' = Idle
      /\ UNCHANGED <<now, sent, epoch, run, seen, executed>>
    BY DEF Finish
<1>2. busy # Idle
    BY <1>1 DEF Idle
<1>3. /\ busy.envelope \in Envelopes /\ busy.at \in Nat /\ busy.outcome \in Outcomes
      /\ busy.envelope \in sent
    BY <1>1, <1>2, BusyTyped DEF IInv, BusyFits, Accepted
<1>4. /\ up' \in BOOLEAN /\ (up' => up)
      /\ heard' \subseteq [request : 1 .. MaxRequests, status : Outcomes \cup {"expired"}]
    BY <1>1, <1>3, ReplyTyped
<1>5. /\ new \in [key : Keys, payload : Payloads, outcome : Outcomes, at : Nat]
      /\ new.key = busy.envelope.key /\ new.at = busy.at
    BY <1>3 DEF Envelopes
<1> HIDE DEF new
<1>6. IsFiniteSet(ledger') /\ Cardinality(ledger') <= MaxLedger
  <2>1. IsFiniteSet(ledger) /\ Cardinality(ledger) < MaxLedger /\ Cardinality(ledger) \in Nat
      BY <1>2, FS_CardinalityType DEF IInv, Bounded
  <2>2. /\ IsFiniteSet(ledger')
        /\ Cardinality(ledger') = Cardinality(ledger)
              \/ Cardinality(ledger') = Cardinality(ledger) + 1
      BY <1>1, <2>1, FS_AddElement
  <2> QED BY <2>1, <2>2, Constants
<1>7. Typed'
    BY <1>1, <1>4, <1>5 DEF IInv, Typed
<1>8. Bounded' /\ Issued'
    BY <1>1, <1>6 DEF IInv, Bounded, Issued
<1>9. BusyFits' /\ BusyIsNew' /\ GrantOncePerRetention' /\ KeyOncePerRetention'
    BY <1>1 DEF IInv, BusyFits, BusyIsNew, GrantOncePerRetention, KeyOncePerRetention
<1>10. ASSUME NEW f, NEW t, NEW r
       PROVE  /\ Accepted(f, t) => Accepted(f, t)'
              /\ Guarded(f, t, r) => Guarded(f, t, r)'
  <2>1. Accepted(f, t) => Accepted(f, t)'
      BY <1>1 DEF Accepted
  <2>2. Guarded(f, t, r) => Guarded(f, t, r)'
      BY <1>1, <1>4 DEF Guarded
  <2> QED BY <2>1, <2>2
<1>11. ASSUME NEW f, NEW t, Kept(f, t)
       PROVE  Kept(f, t)'
  <2>1. CASE \E x \in ledger : x.key = f.key /\ x.at = t
      BY <1>1, <2>1 DEF Kept
  <2>2. CASE now > t + Retention
      BY <1>1, <2>2 DEF Kept
  <2>3. CASE busy.envelope = f /\ busy.at = t
      BY <1>1, <1>5, <2>3 DEF Kept
  <2> QED BY <1>11, <2>1, <2>2, <2>3 DEF Kept
<1>12. ExecutedFits'
    BY <1>1, <1>10, <1>11 DEF IInv, ExecutedFits
<1> QED BY <1>7, <1>8, <1>9, <1>12 DEF IInv
-----------------------------------------------------------------------------
LEMMA StepInv == IInv /\ [Next]_vars => IInv'
<1> SUFFICES ASSUME IInv, [Next]_vars PROVE IInv'
    OBVIOUS
<1>1. CASE Disconnect
  <2>1. /\ busy = Idle /\ up' = FALSE
        /\ UNCHANGED <<now, sent, epoch, run, seen, ledger, busy, executed, heard>>
      BY <1>1 DEF Disconnect
  <2>2. IsFiniteSet(seen') /\ Cardinality(seen') <= MaxSeen
      BY <2>1 DEF IInv, Bounded
  <2>3. heard' \subseteq [request : 1 .. MaxRequests, status : Outcomes \cup {"expired"}]
      BY <2>1 DEF IInv, Typed
  <2> QED BY <2>1, <2>2, <2>3, SeenTyped, QuietKeeps
<1>2. CASE UNCHANGED vars
  <2>1. UNCHANGED <<now, sent, epoch, up, run, seen, ledger, busy, executed, heard>>
      BY <1>2 DEF vars
  <2> QED BY <2>1 DEF IInv, Typed, Bounded, Issued, ExecutedFits, BusyFits, BusyIsNew,
                      GrantOncePerRetention, KeyOncePerRetention, Accepted, Guarded, Kept
<1>3. ASSUME NEW e \in sent, Deliver(e)
      PROVE  IInv'
    BY <1>3, AnsweredKeeps, BeginKeeps DEF Deliver
<1> QED BY <1>1, <1>2, <1>3, TickKeeps, IssueKeeps, ConnectKeeps, RestartKeeps, DispatchKeeps,
           FinishKeeps DEF Next

LEMMA InvariantHolds == Spec => []IInv
<1>1. IInv /\ [Next]_vars => IInv'
    BY StepInv
<1> QED BY <1>1, InitInv, PTL DEF Spec

(* Every variable stays within its type, the memories within their limits, *)
(* as verify and is_full ask before anything is added to them.             *)
THEOREM TypeCorrect == Spec => []TypeOK
<1>1. IInv => TypeOK
    BY DEF IInv, Typed, Bounded, TypeOK
<1> QED BY <1>1, InvariantHolds, PTL

(* However far off the relay's clock is, and whatever the network,         *)
(* reconnects and restarts do, a grant that reaches a device again does so *)
(* in the run of the first time, after the retention of the verifier's     *)
(* memory and before it expires.                                           *)
THEOREM GrantsOncePerRetention == Spec => []GrantOncePerRetention
<1>1. IInv => GrantOncePerRetention
    BY DEF IInv
<1> QED BY <1>1, InvariantHolds, PTL

(* Retries of a key in a run are answered from the ledger for as long as   *)
(* it keeps the outcome.                                                   *)
THEOREM KeysExecuteOncePerRetention == Spec => []KeyOncePerRetention
<1>1. IInv => KeyOncePerRetention
    BY DEF IInv
<1> QED BY <1>1, InvariantHolds, PTL
-----------------------------------------------------------------------------
(* The results.  An outcome in the ledger is what became of its key in     *)
(* this run.                                                               *)
Untouched(key, at) ==
    \A i \in DOMAIN executed :
        executed[i].run = run /\ executed[i].envelope.key = key => executed[i].at # at

LedgerTrue ==
    /\ \A x \in ledger :
          /\ x.outcome = "executed" =>
                \E i \in DOMAIN executed : /\ executed[i].envelope.key = x.key
                                           /\ executed[i].envelope.payload = x.payload
          /\ x.outcome = "stale" => Untouched(x.key, x.at)
    /\ \A x, y \in ledger : x.key = y.key => x = y

(* So is the outcome that is about to be recorded, and its key is not in   *)
(* the ledger.                                                             *)
BusyTrue ==
    busy # Idle =>
        /\ \A x \in ledger : x.key # busy.envelope.key
        /\ busy.phase = "done" =>
              /\ busy.outcome = "executed" =>
                    \E i \in DOMAIN executed : executed[i].envelope = busy.envelope
              /\ busy.outcome = "stale" =>
                    /\ Untouched(busy.envelope.key, busy.at)
                    /\ \A i \in DOMAIN executed :
                          executed[i].envelope = busy.envelope
                          => busy.at > executed[i].at + Retention

RInv == LedgerTrue /\ BusyTrue

LEMMA InitTrue == Init => RInv
BY DEF Init, RInv, LedgerTrue, BusyTrue

(* A step that carries nothing out and records nothing.                    *)
LEMMA QuietTrue ==
    ASSUME RInv, UNCHANGED <<run, busy, executed>>, ledger' \subseteq ledger
    PROVE  RInv'
<1>1. \A k, t : Untouched(k, t) <=> Untouched(k, t)'
    BY DEF Untouched
<1>2. LedgerTrue'
    BY <1>1 DEF RInv, LedgerTrue
<1>3. BusyTrue'
    BY <1>1 DEF RInv, BusyTrue
<1> QED BY <1>2, <1>3 DEF RInv

LEMMA BeginTrue ==
    ASSUME IInv, RInv, NEW e \in sent, Begin(e)
    PROVE  RInv'
<1>1. /\ ledger' = Remembered(ledger) /\ Recorded(e) = {} /\ ~Conflict(e)
      /\ UNCHANGED <<epoch, run, executed, up>>
      /\ busy' = [phase |-> "dispatching", envelope |-> e, at |-> now]
    BY DEF Begin, New
<1>2. ledger' \subseteq ledger
    BY <1>1 DEF Remembered
<1>3. LedgerTrue'
    BY <1>1, <1>2 DEF RInv, LedgerTrue, Untouched
<1>4. \A x \in ledger' : x.key # e.key
    BY <1>1 DEF Recorded, Conflict
<1>5. BusyTrue'
    BY <1>1, <1>4 DEF BusyTrue
<1> QED BY <1>3, <1>5 DEF RInv

(* The new execution is of a key that is not in the ledger.                *)
LEMMA DispatchTrue ==
    ASSUME IInv, RInv, Dispatch
    PROVE  RInv'
<1>1. PICK o \in Outcomes, reached \in BOOLEAN :
         /\ o = "executed" => reached
         /\ o \in {"forbidden", "stale"} => ~reached
         /\ busy' = [phase |-> "done", envelope |-> busy.envelope, at |-> busy.at, outcome |-> o]
         /\ executed' = IF reached
                        THEN Append(executed, [envelope |-> busy.envelope, at |-> busy.at,
                                               run |-> run])
                        ELSE executed
    BY DEF Dispatch
<1>2. busy.phase = "dispatching" /\ UNCHANGED <<epoch, up, run, ledger>>
    BY DEF Dispatch
<1>3. busy # Idle
    BY <1>2 DEF Idle
<1>4. busy.envelope \in Envelopes /\ busy.at \in Nat
    BY <1>3, BusyTyped DEF IInv
<1> DEFINE Executions == [envelope : Envelopes, at : Nat, run : Nat]
           new == [envelope |-> busy.envelope, at |-> busy.at, run |-> run]
<1>5. executed \in Seq(Executions) /\ new \in Executions
    BY <1>4 DEF IInv, Typed
<1>6. new.envelope = busy.envelope /\ new.at = busy.at /\ new.run = run
    OBVIOUS
<1>7. executed' = IF reached THEN Append(executed, new) ELSE executed
    BY <1>1
<1> HIDE DEF new, Executions
<1>8. \A i \in DOMAIN executed' :
          \/ i \in DOMAIN executed /\ executed'[i] = executed[i]
          \/ reached /\ executed'[i] = new
    BY <1>5, <1>7
<1>9. \A i \in DOMAIN executed : i \in DOMAIN executed' /\ executed'[i] = executed[i]
    BY <1>5, <1>7
<1>10. reached => \E i \in DOMAIN executed' : executed'[i] = new
  <2>1. ASSUME reached
        PROVE  Len(executed) + 1 \in DOMAIN executed' /\ executed'[Len(executed) + 1] = new
      BY <1>5, <1>7, <2>1
  <2> QED BY <2>1
<1>11. \A x \in ledger : x.key # busy.envelope.key
    BY <1>3 DEF RInv, BusyTrue
<1>12. ASSUME NEW k, NEW t, Untouched(k, t), k # busy.envelope.key \/ ~reached
       PROVE  Untouched(k, t)'
    BY <1>2, <1>6, <1>8, <1>12 DEF Untouched
<1>13. LedgerTrue'
  <2>1. ASSUME NEW x \in ledger, x.outcome = "executed"
        PROVE  \E i \in DOMAIN executed' : /\ executed'[i].envelope.key = x.key
                                           /\ executed'[i].envelope.payload = x.payload
      BY <1>9, <2>1 DEF RInv, LedgerTrue
  <2>2. ASSUME NEW x \in ledger, x.outcome = "stale"
        PROVE  Untouched(x.key, x.at)'
      BY <1>11, <1>12, <2>2 DEF RInv, LedgerTrue
  <2>3. \A x, y \in ledger : x.key = y.key => x = y
      BY DEF RInv, LedgerTrue
  <2> QED BY <1>2, <2>1, <2>2, <2>3 DEF LedgerTrue
<1>14. /\ busy'.envelope = busy.envelope /\ busy'.at = busy.at /\ busy'.outcome = o
    BY <1>1
<1>15. o = "executed" => \E i \in DOMAIN executed' : executed'[i].envelope = busy.envelope
    BY <1>1, <1>6, <1>10
<1>16. ASSUME o = "stale"
       PROVE  /\ Untouched(busy.envelope.key, busy.at)'
              /\ \A i \in DOMAIN executed' :
                    executed'[i].envelope = busy.envelope => busy.at > executed'[i].at + Retention
  <2>1. \A i \in DOMAIN executed :
            /\ executed[i].envelope.request = busy.envelope.request
               => busy.at > executed[i].at + Retention
            /\ executed[i].run = run /\ executed[i].envelope.key = busy.envelope.key
               => busy.at > executed[i].at + Retention
      BY <1>2, <1>3 DEF IInv, BusyIsNew
  <2>2. \A i \in DOMAIN executed : executed[i].at \in Nat
      BY ExecutedTyped DEF IInv
  <2>3. Untouched(busy.envelope.key, busy.at)
      BY <1>4, <2>1, <2>2, Constants DEF Untouched
  <2> QED BY <1>1, <1>8, <1>12, <1>16, <2>1, <2>3
<1>17. BusyTrue'
    BY <1>2, <1>11, <1>14, <1>15, <1>16 DEF BusyTrue
<1> QED BY <1>13, <1>17 DEF RInv

LEMMA FinishTrue ==
    ASSUME IInv, RInv, Finish
    PROVE  RInv'
<1> DEFINE new == [key |-> busy.envelope.key, payload |-> busy.envelope.payload,
                   outcome |-> busy.outcome, at |-> busy.at]
<1>1. /\ busy.phase = "done" /\ Reply(busy.envelope, busy.outcome)
      /\ ledger' = ledger \cup {new} /\ busy' = Idle
      /\ UNCHANGED <<epoch, run, executed>>
    BY DEF Finish
<1>2. busy # Idle
    BY <1>1 DEF Idle
<1>4. /\ new.key = busy.envelope.key /\ new.payload = busy.envelope.payload
      /\ new.outcome = busy.outcome /\ new.at = busy.at
    OBVIOUS
<1> HIDE DEF new
<1>5. /\ \A x \in ledger : x.key # new.key
      /\ new.outcome = "executed" =>
            \E i \in DOMAIN executed : /\ executed[i].envelope.key = new.key
                                       /\ executed[i].envelope.payload = new.payload
      /\ new.outcome = "stale" => Untouched(new.key, new.at)
    BY <1>1, <1>2, <1>4 DEF RInv, BusyTrue
<1>6. \A k, t : Untouched(k, t) => Untouched(k, t)'
    BY <1>1 DEF Untouched
<1>7. LedgerTrue'
    BY <1>1, <1>5, <1>6 DEF RInv, LedgerTrue
<1>8. BusyTrue'
    BY <1>1 DEF BusyTrue
<1> QED BY <1>7, <1>8 DEF RInv

LEMMA StepTrue == IInv /\ RInv /\ [Next]_vars => RInv'
<1> SUFFICES ASSUME IInv, RInv, [Next]_vars PROVE RInv'
    OBVIOUS
<1>1. CASE Tick \/ Issue \/ Connect \/ Disconnect \/ UNCHANGED vars
  <2>1. UNCHANGED <<run, ledger, busy, executed>>
      BY <1>1 DEF Tick, Issue, Connect, Disconnect, vars
  <2> QED BY <2>1, QuietTrue
<1>3. CASE Restart
  <2>1. up' = FALSE /\ ledger' = {} /\ busy' = Idle
      BY <1>3 DEF Restart
  <2> QED BY <2>1 DEF RInv, LedgerTrue, BusyTrue
<1>4. ASSUME NEW e \in sent, Refuse(e) \/ Repeat(e) \/ Crowded(e) \/ Known(e)
      PROVE  RInv'
  <2>1. UNCHANGED <<run, busy, executed>>
      BY <1>4 DEF Refuse, Repeat, Crowded, Known, New
  <2>2. ledger' = ledger \/ ledger' = Remembered(ledger)
      BY <1>4 DEF Refuse, Repeat, Crowded, Known, New
  <2> QED BY <2>1, <2>2, QuietTrue DEF Remembered
<1> QED BY <1>1, <1>3, <1>4, BeginTrue, DispatchTrue, FinishTrue DEF Next, Deliver

(* A recorded outcome of a fresh envelope is true of the envelope.         *)
LEMMA RecordedTrue ==
    ASSUME IInv, RInv, NEW e \in sent, up, busy = Idle, Fresh(e), NEW x \in Recorded(e)
    PROVE  /\ x.outcome = "executed" =>
                 \E i \in DOMAIN executed : /\ executed[i].envelope.key = e.key
                                            /\ executed[i].envelope.payload = e.payload
           /\ x.outcome = "stale" =>
                 \A i \in DOMAIN executed :
                     executed[i].envelope = e => now > executed[i].at + Retention
<1>1. x \in ledger /\ x.key = e.key /\ x.payload = e.payload
    BY DEF Recorded, Remembered
<1>2. ASSUME x.outcome = "stale", NEW i \in DOMAIN executed, executed[i].envelope = e
      PROVE  now > executed[i].at + Retention
  <2>2. executed[i].run = run
      BY <1>2 DEF IInv, ExecutedFits, Guarded, Fresh, Foreign
  <2>3. Kept(e, executed[i].at)
      BY <1>2, <2>2 DEF IInv, ExecutedFits
  <2>4. CASE \E y \in ledger : y.key = e.key /\ y.at = executed[i].at
    <3>1. x.at = executed[i].at
        BY <1>1, <2>4 DEF RInv, LedgerTrue
    <3> QED BY <1>1, <1>2, <2>2, <3>1 DEF RInv, LedgerTrue, Untouched
  <2> QED BY <2>3, <2>4 DEF Kept
<1> QED BY <1>1, <1>2 DEF RInv, LedgerTrue

(* The result e gets in a step, if it gets one.                            *)
Answers(e) ==
    \E status \in Outcomes \cup {"expired"} :
        /\ Reply(e, status)
        /\ status = "executed" =>
              \E i \in DOMAIN executed : /\ executed[i].envelope.key = e.key
                                         /\ executed[i].envelope.payload = e.payload
        /\ status = "stale" =>
              \A i \in DOMAIN executed :
                  executed[i].envelope = e => now > executed[i].at + Retention

LEMMA AnswersTrue ==
    ASSUME IInv, RInv, [Next]_vars
    PROVE  heard' = heard \/ \E e \in sent : Answers(e)
<1>1. CASE \/ Tick \/ Issue \/ Connect \/ Disconnect \/ Restart \/ Dispatch \/ UNCHANGED vars
           \/ \E e \in sent : Begin(e)
    BY <1>1 DEF Tick, Issue, Connect, Disconnect, Restart, Dispatch, vars, Begin
<1>2. ASSUME NEW e \in sent, Refuse(e) \/ Repeat(e) \/ Crowded(e) \/ Known(e)
      PROVE  Answers(e)
  <2>1. CASE \E status \in {"expired", "forbidden", "busy"} : Reply(e, status)
      BY <2>1 DEF Answers, Outcomes
  <2>2. CASE Fresh(e) /\ up /\ busy = Idle /\ \E x \in Recorded(e) : Reply(e, x.outcome)
    <3>1. PICK x \in Recorded(e) : Reply(e, x.outcome)
        BY <2>2
    <3>2. x.outcome \in Outcomes
        BY DEF Recorded, Remembered, IInv, Typed
    <3> QED BY <2>2, <3>1, <3>2, RecordedTrue DEF Answers
  <2> QED BY <1>2, <2>1, <2>2 DEF Refuse, Repeat, Crowded, Known, New
<1>3. ASSUME Finish
      PROVE  busy.envelope \in sent /\ Answers(busy.envelope)
  <2>1. busy.phase = "done" /\ Reply(busy.envelope, busy.outcome)
      BY <1>3 DEF Finish
  <2>2. busy # Idle
      BY <2>1 DEF Idle
  <2>3. busy.envelope \in sent /\ busy.outcome \in Outcomes
      BY <2>1, <2>2, BusyTyped DEF IInv, BusyFits, Accepted
  <2>4. ASSUME NEW i \in DOMAIN executed, busy.at > executed[i].at + Retention
        PROVE  now > executed[i].at + Retention
    <3>1. busy.at <= now /\ busy.at \in Nat /\ now \in Nat /\ executed[i].at \in Nat
        BY <2>2, BusyTyped, ExecutedTyped DEF IInv, BusyFits, Accepted, Typed
    <3> QED BY <2>4, <3>1, Constants
  <2> QED BY <2>1, <2>2, <2>3, <2>4 DEF Answers, RInv, BusyTrue
<1> QED BY <1>1, <1>2, <1>3 DEF Next, Deliver

LEMMA HeardTrue ==
    ASSUME IInv, RInv, [Next]_vars, NEW r \in heard' \ heard, NEW e \in sent,
           r.request = e.request
    PROVE  /\ r.status = "executed" =>
                 \E i \in DOMAIN executed : /\ executed[i].envelope.key = e.key
                                            /\ executed[i].envelope.payload = e.payload
           /\ r.status = "stale" =>
                 \A i \in DOMAIN executed :
                     executed[i].envelope = e => now > executed[i].at + Retention
<1>1. PICK f \in sent : Answers(f)
    BY AnswersTrue
<1>2. PICK status \in Outcomes \cup {"expired"} :
        /\ Reply(f, status)
        /\ status = "executed" =>
              \E i \in DOMAIN executed : /\ executed[i].envelope.key = f.key
                                         /\ executed[i].envelope.payload = f.payload
        /\ status = "stale" =>
              \A i \in DOMAIN executed :
                  executed[i].envelope = f => now > executed[i].at + Retention
    BY <1>1 DEF Answers
<1>3. r = [request |-> f.request, status |-> status]
    BY <1>2 DEF Reply
<1>4. r.request = f.request /\ r.status = status
    BY <1>3
<1>5. e = f
    BY <1>4 DEF IInv, Issued
<1> QED BY <1>2, <1>4, <1>5

(* What the relay hears of a command is true, also when it is repeated     *)
(* from the ledger or belongs to a retry: executed is executed, and stale  *)
(* has not reached a device within the retention.                          *)
THEOREM ResultsTrue == Spec => ResultsAreTrue
<1>1. IInv /\ RInv /\ [Next]_vars => RInv'
    BY StepTrue
<1>2. IInv /\ RInv /\ [Next]_vars =>
        [ \A r \in heard' \ heard, e \in sent : r.request = e.request =>
            /\ r.status = "executed" =>
                  \E i \in DOMAIN executed : /\ executed[i].envelope.key = e.key
                                             /\ executed[i].envelope.payload = e.payload
            /\ r.status = "stale" =>
                  \A i \in DOMAIN executed :
                      executed[i].envelope = e => now > executed[i].at + Retention ]_vars
    BY HeardTrue
<1> QED BY <1>1, <1>2, InitTrue, InvariantHolds, PTL DEF Spec, ResultsAreTrue
=============================================================================
