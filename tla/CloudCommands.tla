----------------------------- MODULE CloudCommands -----------------------------
(***************************************************************************)
(* The commands of HiPhi Cloud at the connector of an installation         *)
(* (src/src/cloud_connector/commands.rs and the command arm of             *)
(* run_connection in runtime.rs).  The relay issues signed grants, each    *)
(* for one request of an idempotency key and a payload in one session, and *)
(* may deliver an envelope late, again, in any order and over reconnects.  *)
(* The verifier of a session refuses what it has seen; the ledger of a run *)
(* answers a key that was carried out before.                              *)
(*                                                                         *)
(* The relay, its network and the adapters behind the dispatch are         *)
(* external.  Signatures, issuer, audience, installation and control node  *)
(* are taken as valid: a grant that fails them is answered like one of     *)
(* another session.                                                        *)
(***************************************************************************)
EXTENDS Integers, Sequences, FiniteSets

CONSTANTS
    Keys, Payloads,
    Lifetime,       \* a grant lives for 15 s at most
    Skew,           \* a grant may be issued 60 s ahead of the clock
    Behind, Ahead,  \* how far off the relay's clock may be
    Retention,      \* the ledger and the verifier remember for 60 s
    MaxSeen,        \* MAX_REPLAY_REQUESTS (256)
    MaxLedger,      \* 256 as well
    MaxTime, MaxRequests, MaxEpoch, MaxRuns     \* bounds of the exploration

ASSUME CommandsAssumption ==
    /\ Lifetime \in Nat /\ Skew \in Nat /\ Behind \in Nat /\ Ahead \in Nat /\ Retention \in Nat
    /\ MaxSeen \in Nat /\ MaxLedger \in Nat
    /\ MaxTime \in Nat /\ MaxRequests \in Nat /\ MaxEpoch \in Nat /\ MaxRuns \in Nat

VARIABLES
    now,        \* the wall clock of the installation
    sent,       \* every envelope the relay has issued: the network may deliver any
    epoch,      \* the session, saved by SessionEpochGuard
    up,         \* whether the session is established
    run,        \* which run of the connector it is
    seen,       \* CommandGrantVerifier::seen_requests
    ledger,     \* CommandLedger::terminal
    busy,       \* the command being dispatched
    executed,   \* history: what reached a device
    heard       \* history: the results the relay has received

vars == <<now, sent, epoch, up, run, seen, ledger, busy, executed, heard>>

Outcomes == {"executed", "rejected", "busy", "forbidden", "stale"}
Envelopes == [request : 1 .. MaxRequests, key : Keys, payload : Payloads, epoch : Nat,
              issued : Int, expires : Int]
Idle == [phase |-> "idle"]

Init ==
    /\ now = 0 /\ sent = {} /\ epoch = 0 /\ up = FALSE /\ run = 1
    /\ seen = {} /\ ledger = {} /\ busy = Idle
    /\ executed = <<>> /\ heard = {}

\* What is remembered at a time: retain and expire.
\* Mutant of Remembered: entries are dropped a moment too early.
RememberedLess(entries) == {x \in entries : now - x.at < Retention}

Remembered(entries) == {x \in entries : now - x.at <= Retention}

\* The result is sent, or the socket turns out to be gone.
Reply(e, status) ==
    \/ heard' = heard \cup {[request |-> e.request, status |-> status]} /\ UNCHANGED up
    \/ up' = FALSE /\ UNCHANGED heard
-------------------------------------------------------------------------------
Tick == now < MaxTime /\ now' = now + 1 /\ UNCHANGED <<sent, epoch, up, run, seen, ledger, busy,
                                                      executed, heard>>

\* The relay signs a grant for a request of its own.  Its clock may be off.
Issue ==
    /\ up /\ Cardinality(sent) < MaxRequests
    /\ \E k \in Keys, p \in Payloads, t \in now - Behind .. now + Ahead :
          sent' = sent \cup {[request |-> Cardinality(sent) + 1, key |-> k, payload |-> p,
                              epoch |-> epoch, issued |-> t, expires |-> t + Lifetime]}
    /\ UNCHANGED <<now, epoch, up, run, seen, ledger, busy, executed, heard>>

\* run_connection makes a verifier for the session, under a larger epoch.
Connect ==
    /\ ~up /\ epoch < MaxEpoch
    /\ epoch' = epoch + 1
    /\ up' = TRUE /\ seen' = {}
    /\ UNCHANGED <<now, sent, run, ledger, busy, executed, heard>>

Disconnect ==
    /\ up /\ busy = Idle
    /\ up' = FALSE
    /\ UNCHANGED <<now, sent, epoch, run, seen, ledger, busy, executed, heard>>

\* The process dies, whatever it is doing.  Also a run that ended and was started again.
Restart ==
    /\ run < MaxRuns
    /\ run' = run + 1
    /\ up' = FALSE /\ seen' = {} /\ ledger' = {} /\ busy' = Idle
    /\ UNCHANGED <<now, sent, epoch, executed, heard>>
-------------------------------------------------------------------------------
\* CommandGrantVerifier::verify, in its order.
Late(e) == e.expires <= now \/ e.issued > now + Skew \/ e.expires - e.issued > Lifetime
Foreign(e) == e.epoch # epoch
Fresh(e) == ~Late(e) /\ ~Foreign(e)
Replayed(e) == \E x \in Remembered(seen) : x.request = e.request
Overfull == Cardinality(Remembered(seen)) >= MaxSeen

\* CommandLedger::lookup_command_at
\* Mutant of Recorded: the payload is not compared.
RecordedAnyPayload(e) == {x \in Remembered(ledger) : x.key = e.key}

Recorded(e) == {x \in Remembered(ledger) : x.key = e.key /\ x.payload = e.payload}

Conflict(e) == \E x \in Remembered(ledger) : x.key = e.key /\ x.payload # e.payload
LedgerFull == Cardinality(Remembered(ledger)) >= MaxLedger

\* An envelope is refused as it is, and leaves no trace.
Refuse(e) ==
    /\ up /\ busy = Idle /\ ~Fresh(e)
    /\ Reply(e, IF Late(e) THEN "expired" ELSE "forbidden")
    /\ UNCHANGED <<now, sent, epoch, run, seen, ledger, busy, executed>>

\* It was seen in this session: the answer of its key is repeated, if it is still known.
Repeat(e) ==
    /\ up /\ busy = Idle /\ Fresh(e) /\ Replayed(e)
    /\ seen' = Remembered(seen) /\ ledger' = Remembered(ledger)
    /\ \/ \E x \in Recorded(e) : Reply(e, x.outcome)
       \/ Recorded(e) = {} /\ Reply(e, "forbidden")
    /\ UNCHANGED <<now, sent, epoch, run, busy, executed>>

\* The verifier is full: the request is not remembered.
Crowded(e) ==
    /\ up /\ busy = Idle /\ Fresh(e) /\ ~Replayed(e) /\ Overfull
    /\ seen' = Remembered(seen)
    /\ Reply(e, "busy")
    /\ UNCHANGED <<now, sent, epoch, run, ledger, busy, executed>>

Seen(e) == seen' = Remembered(seen) \cup {[request |-> e.request, at |-> now]}

New(e) ==
    /\ up /\ busy = Idle /\ Fresh(e) /\ ~Replayed(e) /\ ~Overfull
    /\ Seen(e)
    /\ ledger' = Remembered(ledger)
    /\ UNCHANGED <<now, sent, epoch, run, executed>>

\* A new request of a key that was carried out before, or of another payload, or one that
\* the ledger has no place for.
Known(e) ==
    /\ New(e)
    /\ \/ \E x \in Recorded(e) : Reply(e, x.outcome)
       \/ Conflict(e) /\ Reply(e, "forbidden")
       \/ Recorded(e) = {} /\ ~Conflict(e) /\ LedgerFull /\ Reply(e, "busy")
    /\ UNCHANGED busy

\* Otherwise it is dispatched.  The clock of the command is read here, once.
\* Mutant of Begin: whether the ledger has a place is not asked.
BeginOverfull(e) ==
    /\ New(e) /\ Recorded(e) = {} /\ ~Conflict(e)
    /\ busy' = [phase |-> "dispatching", envelope |-> e, at |-> now]
    /\ UNCHANGED <<up, heard>>

Begin(e) ==
    /\ New(e) /\ Recorded(e) = {} /\ ~Conflict(e) /\ ~LedgerFull
    /\ busy' = [phase |-> "dispatching", envelope |-> e, at |-> now]
    /\ UNCHANGED <<up, heard>>

\* dispatch: the snapshot is stale, the zone is unknown or cannot do it, or a device is reached.
\* A refusal by the adapter, which is busy if its text says so, may hide that it was.
Dispatch ==
    /\ busy.phase = "dispatching"
    /\ \E o \in Outcomes, reached \in BOOLEAN :
          /\ o = "executed" => reached
          /\ o \in {"forbidden", "stale"} => ~reached
          /\ busy' = [phase |-> "done", envelope |-> busy.envelope, at |-> busy.at, outcome |-> o]
          /\ executed' = IF reached
                         THEN Append(executed, [envelope |-> busy.envelope, at |-> busy.at,
                                                run |-> run])
                         ELSE executed
    /\ UNCHANGED <<now, sent, epoch, up, run, seen, ledger, heard>>

\* record_command_at, and send_command_result.
\* Mutant of Finish: an outcome that is not sent is not recorded.
FinishUnrecorded ==
    /\ busy.phase = "done"
    /\ LET e == busy.envelope IN
          /\ Reply(e, busy.outcome)
          /\ ledger' = IF up' THEN ledger \cup {[key |-> e.key, payload |-> e.payload,
                                                 outcome |-> busy.outcome, at |-> busy.at]}
                       ELSE ledger
    /\ busy' = Idle
    /\ UNCHANGED <<now, sent, epoch, run, seen, executed>>

Finish ==
    /\ busy.phase = "done"
    /\ LET e == busy.envelope IN
          /\ Reply(e, busy.outcome)
          /\ ledger' = ledger \cup {[key |-> e.key, payload |-> e.payload,
                                     outcome |-> busy.outcome, at |-> busy.at]}
    /\ busy' = Idle
    /\ UNCHANGED <<now, sent, epoch, run, seen, executed>>
-------------------------------------------------------------------------------
Deliver(e) == Refuse(e) \/ Repeat(e) \/ Crowded(e) \/ Known(e) \/ Begin(e)

Next ==
    \/ Tick \/ Issue \/ Connect \/ Disconnect \/ Restart
    \/ \E e \in sent : Deliver(e)
    \/ Dispatch \/ Finish

Spec == Init /\ [][Next]_vars
-------------------------------------------------------------------------------
\* Every variable stays within its type, and the two memories within their limits.
TypeOK ==
    /\ now \in Nat /\ epoch \in Nat /\ run \in Nat /\ up \in BOOLEAN
    /\ sent \subseteq Envelopes
    /\ seen \subseteq [request : 1 .. MaxRequests, at : Nat]
    /\ ledger \subseteq [key : Keys, payload : Payloads, outcome : Outcomes, at : Nat]
    /\ Cardinality(seen) <= MaxSeen /\ Cardinality(ledger) <= MaxLedger
    /\ \/ busy = Idle
       \/ busy \in [phase : {"dispatching"}, envelope : Envelopes, at : Nat]
       \/ busy \in [phase : {"done"}, envelope : Envelopes, at : Nat, outcome : Outcomes]
    /\ executed \in Seq([envelope : Envelopes, at : Nat, run : Nat])
    /\ heard \subseteq [request : 1 .. MaxRequests, status : Outcomes \cup {"expired"}]

\* A signed grant may be delivered again at any time, over reconnects and restarts, and may have
\* been issued ahead of the installation's clock, so that it outlives the verifier's memory of
\* it.  Even then it reaches a device again only in the run of the first time, when longer than
\* the retention has passed, and before it expires; never over a reconnect or a restart.
GrantOncePerRetention ==
    \A i, j \in DOMAIN executed :
        /\ i < j
        /\ executed[i].envelope.request = executed[j].envelope.request
        => /\ executed[i].run = executed[j].run
           /\ executed[j].at > executed[i].at + Retention
           /\ executed[j].at < executed[j].envelope.expires

\* Retries of a key under new requests, in the session or in later ones of the run, do not
\* reach a device again before the ledger's retention has passed, whether or not the relay
\* heard of the result.
KeyOncePerRetention ==
    \A i, j \in DOMAIN executed :
        /\ i < j
        /\ executed[i].envelope.key = executed[j].envelope.key
        /\ executed[i].run = executed[j].run
        => executed[j].at > executed[i].at + Retention

\* What the relay hears is true when it hears it: of a command that was executed, the very
\* payload has reached a device; and one that was refused over a stale snapshot has not reached
\* one within the retention, and may be sent again.
ResultsAreTrue ==
    [][ \A r \in heard' \ heard, e \in sent : r.request = e.request =>
          /\ r.status = "executed" =>
                \E i \in DOMAIN executed : /\ executed[i].envelope.key = e.key
                                           /\ executed[i].envelope.payload = e.payload
          /\ r.status = "stale" =>
                \A i \in DOMAIN executed :
                    executed[i].envelope = e => now > executed[i].at + Retention ]_vars

===============================================================================
