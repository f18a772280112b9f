---------------------------- MODULE CloudConnector ----------------------------
(***************************************************************************)
(* The cloud connector (src/src/cloud_connector): the supervised run that  *)
(* connects to the relay again and again, and the files that contain it    *)
(* over crashes: the schedule of the next attempt (retry.rs), the hourly   *)
(* budget of attempts, the quarantine and the cooldown of its release      *)
(* (safety.rs), and the last session epoch (transport.rs).                 *)
(*                                                                         *)
(* A file holds instants.  Here it holds their age, which a tick of the    *)
(* clock increments and a jump of the wall clock shifts: an instant in the *)
(* future has a negative age.  A run reads the wall clock once and goes on *)
(* with a monotone one, so a jump is seen by the next run only, and is     *)
(* modelled between runs.  The relay and the file system are external:     *)
(* what is asked of them may fail.                                         *)
(***************************************************************************)
EXTENDS Integers

CONSTANTS
    Slow,       \* the least wait after an attempt, by step
    Jitter,     \* what is added to it, at most
    Hour,       \* the window of the budget
    Budget,     \* attempts within a window
    Healthy,    \* how long a connection lasts that resets the schedule
    Cooldown,   \* between two releases of the quarantine
    Old,        \* bound on ages: one that reaches it stays there
    MaxJump,    \* bound on a jump of the wall clock
    MaxFaults,  \* bound on crashes, jumps and file operations that fail
    MaxEpoch    \* bound on session epochs

Steps == 0 .. 3

ASSUME CloudAssumption ==
    /\ Slow \in [Steps -> Nat] /\ Jitter \in Nat
    /\ Hour \in Nat \ {0} /\ Budget \in Nat \ {0} /\ Healthy \in Nat /\ Cooldown \in Nat
    /\ Old \in Nat /\ Old >= Hour /\ Old >= Cooldown /\ Old >= Healthy
    /\ \A s \in Steps : Old >= Slow[s] + Jitter
    /\ MaxJump \in Nat /\ MaxFaults \in Nat /\ MaxEpoch \in Nat

VARIABLES
    retry,      \* the .retry file: age of last_ms, next_ms - last_ms, step
    attempts,   \* the .attempts file: age of the window, attempts counted in it
    quarantine, \* whether the .quarantine file is there
    resumed,    \* age of the .resume file
    epoch,      \* the epoch file
    last,       \* SessionEpochGuard::last of the run
    at,         \* where the run stands, if there is one
    online,     \* how long it has been connected
    op,         \* where resume_from_runtime stands, under the operation lock
    shutdown,
    owed,       \* history: what is left of the wait that the last attempt reserved
    made,       \* history: attempts on the network since the window began
    cool,       \* history: what is left of the last cooldown
    paid,       \* history: whether a cooldown was begun since the last release
    accepted,   \* history: the epoch of the last established session
    faults

files == <<retry, attempts, quarantine, resumed, epoch>>
run == <<at, online, last>>
history == <<owed, made, cool, paid, accepted>>
vars == <<files, run, op, shutdown, history, faults>>

Fresh == [age |-> Old, count |-> 0]     \* no .attempts file

Init ==
    /\ retry = [age |-> Old, gap |-> 0, step |-> 0]
    /\ attempts = Fresh
    /\ quarantine = FALSE /\ resumed = Old /\ epoch = 0
    /\ at = "off" /\ online = 0 /\ last = 0
    /\ op = "none" /\ shutdown = FALSE
    /\ owed = 0 /\ made = 0 /\ cool = 0 /\ paid = FALSE /\ accepted = 0
    /\ faults = 0

Fault == faults < MaxFaults /\ faults' = faults + 1
Fine == UNCHANGED faults
-------------------------------------------------------------------------------
(* Time *)

Shifted(age, d) == IF age = Old \/ age + d > Old THEN Old ELSE age + d
Less(left, d) == IF left > d THEN left - d ELSE 0

Tick ==
    /\ retry' = [retry EXCEPT !.age = Shifted(@, 1)]
    /\ attempts' = [attempts EXCEPT !.age = Shifted(@, 1)]
    /\ resumed' = Shifted(resumed, 1)
    /\ online' = IF at = "online" /\ online < Healthy THEN online + 1 ELSE online
    /\ owed' = Less(owed, 1) /\ cool' = Less(cool, 1)
    /\ UNCHANGED <<quarantine, epoch, last, at, op, shutdown, made, paid, accepted, faults>>

\* The wall clock moves between two runs.  What is owed shrinks with a jump forward, and
\* does not grow with one back.
Jump ==
    /\ at = "off" /\ op = "none" /\ Fault
    /\ \E d \in (0 - MaxJump) .. MaxJump :
          /\ retry' = [retry EXCEPT !.age = Shifted(@, d)]
          /\ attempts' = [attempts EXCEPT !.age = Shifted(@, d)]
          /\ resumed' = Shifted(resumed, d)
          /\ owed' = IF d > 0 THEN Less(owed, d) ELSE owed
          /\ cool' = IF d > 0 THEN Less(cool, d) ELSE cool
    /\ UNCHANGED <<quarantine, epoch, run, op, shutdown, made, paid, accepted>>
-------------------------------------------------------------------------------
(* The run *)

Kept == UNCHANGED <<resumed, op, shutdown, cool, paid>>

\* start_config, from start_from_runtime: at startup, and when a pairing completes.  While
\* a run is active there is no other.
Start ==
    /\ at = "off" /\ op = "none"
    /\ at' = "loading" /\ online' = 0
    /\ UNCHANGED <<files, last, op, shutdown, history, faults>>

\* A run that ends gives up its place.
Over == at' = "off" /\ online' = 0

\* RetryPolicy::load: a schedule from the future begins anew.  Then the epoch is read.
\* Mutant of Load: it is taken as it is.
LoadAsIs ==
    /\ at = "loading"
    /\ at' = "reserving" /\ last' = epoch
    /\ UNCHANGED <<retry, online, faults>>
    /\ Kept /\ UNCHANGED <<attempts, quarantine, epoch, owed, made, accepted>>

Load ==
    /\ at = "loading"
    /\ LET sane == IF retry.age < 0 THEN [retry EXCEPT !.age = 0] ELSE retry
       IN  \/ retry' = sane /\ at' = "reserving" /\ last' = epoch /\ Fine /\ UNCHANGED online
           \/ retry.age < 0 /\ retry' \in {retry, sane} /\ Over /\ Fault /\ UNCHANGED last
    /\ Kept /\ UNCHANGED <<attempts, quarantine, epoch, owed, made, accepted>>

\* RetryPolicy::reserve, up to the admission: the quarantine, the schedule, the budget.
Refused ==
    /\ at = "reserving"
    /\ \/ quarantine /\ Over
       \/ ~quarantine /\ retry.age < retry.gap /\ at' = "asleep" /\ UNCHANGED online
    /\ Kept /\ UNCHANGED <<files, last, owed, made, accepted, faults>>

Due == at = "reserving" /\ ~quarantine /\ retry.age >= retry.gap

\* Mutant of Window: a new window begins with the attempts of the former one.
WindowKept ==
    IF attempts.age >= Hour \/ attempts.age < 0 THEN [attempts EXCEPT !.age = 0] ELSE attempts

\* Mutant of Window: a window from the future is a new one.
WindowRefilled ==
    IF attempts.age >= Hour \/ attempts.age < 0 THEN [age |-> 0, count |-> 0] ELSE attempts

\* admit_reconnect: a window that is over, or that begins in the future, begins now.
Window ==
    IF attempts.age >= Hour THEN [age |-> 0, count |-> 0]
    ELSE IF attempts.age < 0 THEN [attempts EXCEPT !.age = 0]
    ELSE attempts

\* The attempt is counted in the file, and so is the beginning of the window when the
\* budget is spent.  The write may fail, before or after the file was replaced.
Counted(new, next) ==
    \/ attempts' = new /\ at' = next /\ Fine /\ UNCHANGED online
    \/ attempts' \in {attempts, new} /\ Over /\ Fault

Admit ==
    /\ Due
    /\ IF Window.count >= Budget
       THEN Counted(Window, "spent")
       ELSE Counted([Window EXCEPT !.count = @ + 1], "admitted")
    /\ made' = IF attempts' # attempts /\ attempts.age >= Hour THEN 0 ELSE made
    /\ Kept /\ UNCHANGED <<retry, quarantine, epoch, last, owed, accepted>>

\* A run asleep wakes up when its delay is over.
Wake ==
    /\ \/ at = "asleep" /\ retry.age >= retry.gap
       \/ at = "spent" /\ attempts.age >= Hour
    /\ at' = "reserving"
    /\ Kept /\ UNCHANGED <<files, online, last, owed, made, accepted, faults>>

\* The next attempt is saved, and this one goes to the network.
Reserve ==
    /\ at = "admitted"
    /\ \E j \in 0 .. Jitter :
          LET next == [age |-> 0, gap |-> Slow[retry.step] + j,
                       step |-> IF retry.step < 3 THEN retry.step + 1 ELSE 3]
          IN  \/ /\ retry' = next /\ at' = "connecting" /\ Fine /\ UNCHANGED online
                 /\ owed' = next.gap /\ made' = made + 1
              \/ retry' \in {retry, next} /\ Over /\ Fault /\ UNCHANGED <<owed, made>>
    /\ Kept /\ UNCHANGED <<attempts, quarantine, epoch, last, accepted>>

\* The grant, the connection and the challenge may all fail.  A session is established with
\* an epoch that is new to the guard, and that its file holds before the guard does.
Connect ==
    /\ at = "connecting"
    /\ \/ at' \in {"reserving", "off"} /\ Fine /\ UNCHANGED <<epoch, last, accepted>>
       \/ \E e \in 1 .. MaxEpoch :
             /\ e > last
             /\ \/ /\ epoch' = e /\ last' = e /\ accepted' = e
                   /\ at' \in {"online", "reserving"} /\ Fine
                \/ epoch' \in {epoch, e} /\ at' = "reserving" /\ Fault /\ UNCHANGED <<last, accepted>>
    /\ online' = 0
    /\ Kept /\ UNCHANGED <<retry, attempts, quarantine, owed, made>>

\* run_connection ends: the peer goes, revokes the connector or is silent, UHC shuts down,
\* or the traffic is over its limits, which quarantines.
Disconnect ==
    /\ at = "online"
    /\ \/ at' \in {"left", "stopped"} /\ Fine /\ UNCHANGED quarantine
       \/ quarantine' = TRUE /\ at' = "left" /\ Fine
       \/ quarantine' \in {quarantine, TRUE} /\ at' = "unsafe" /\ Fault
    /\ Kept /\ UNCHANGED <<retry, attempts, epoch, online, last, owed, made, accepted>>

\* connected_for: a long connection resets the schedule, unless it ended in quarantine.
ConnectedFor ==
    /\ at \in {"left", "stopped", "unsafe"}
    /\ LET reset == [age |-> 0, gap |-> 0, step |-> 0]
           on == IF at = "left" THEN at' = "reserving" /\ UNCHANGED online ELSE Over
       IN  IF online < Healthy \/ quarantine
           THEN UNCHANGED <<retry, owed>> /\ on /\ Fine
           ELSE \/ retry' = reset /\ owed' = 0 /\ on /\ Fine
                \/ /\ Over /\ Fault
                   /\ \/ retry' = reset /\ owed' = 0
                      \/ UNCHANGED <<retry, owed>>
    /\ Kept /\ UNCHANGED <<attempts, quarantine, epoch, last, made, accepted>>

\* A shutdown ends the waits, and the connection.
Stop ==
    /\ shutdown
    /\ at \in {"asleep", "spent", "connecting", "online"}
    /\ IF at = "online" THEN at' = "stopped" /\ UNCHANGED online ELSE Over
    /\ Kept /\ UNCHANGED <<files, last, owed, made, accepted, faults>>
-------------------------------------------------------------------------------
(* resume: the release of the quarantine.  Each of its file operations may fail. *)

Calm == UNCHANGED <<retry, epoch, run, shutdown, owed, accepted>>

\* resume_from_runtime holds the operation lock, and the run must be over.
Resume ==
    /\ op = "none" /\ at = "off" /\ ~shutdown
    /\ quarantine /\ resumed >= Cooldown
    /\ op' = "stamping"
    /\ Calm /\ UNCHANGED <<attempts, quarantine, resumed, made, cool, paid, faults>>

\* Mutant of Stamp: the cooldown is committed with the release, if that comes.
StampLater ==
    /\ op = "stamping" /\ op' = "clearing"
    /\ Calm /\ UNCHANGED <<attempts, quarantine, resumed, made, cool, paid, faults>>

Stamp ==
    /\ op = "stamping"
    /\ \/ op' = "clearing" /\ resumed' = 0 /\ cool' = Cooldown /\ paid' = TRUE /\ Fine
       \/ /\ op' = "none" /\ Fault
          /\ \/ resumed' = 0 /\ cool' = Cooldown /\ paid' = TRUE
             \/ UNCHANGED <<resumed, cool, paid>>
    /\ Calm /\ UNCHANGED <<attempts, quarantine, made>>

Clear ==
    /\ op = "clearing"
    /\ \/ op' = "releasing" /\ attempts' = Fresh /\ made' = 0 /\ Fine
       \/ op' = "none" /\ Fault /\ UNCHANGED <<attempts, made>>
    /\ Calm /\ UNCHANGED <<quarantine, resumed, cool, paid>>

Release ==
    /\ op = "releasing"
    /\ \/ op' = "starting" /\ quarantine' = FALSE /\ paid' = FALSE /\ Fine
       \/ op' = "none" /\ Fault /\ UNCHANGED <<quarantine, paid>>
    /\ Calm /\ UNCHANGED <<attempts, resumed, made, cool>>

Restart ==
    /\ op = "starting"
    /\ op' = "none" /\ at' = "loading"
    /\ UNCHANGED <<files, online, last, shutdown, history, faults>>
-------------------------------------------------------------------------------
(* The process *)

Shutdown ==
    /\ ~shutdown /\ shutdown' = TRUE
    /\ UNCHANGED <<files, run, op, history, faults>>

\* It ends and comes back; what is in the files stays.
Crash ==
    /\ Fault
    /\ at' = "off" /\ online' = 0 /\ last' = 0 /\ op' = "none" /\ shutdown' = FALSE
    /\ UNCHANGED <<files, history>>

Work ==
    \/ Load \/ Refused \/ Admit \/ Wake \/ Reserve \/ Connect \/ ConnectedFor
    \/ Stamp \/ Clear \/ Release \/ Restart

Next == Work \/ Start \/ Disconnect \/ Stop \/ Resume \/ Tick \/ Jump \/ Shutdown \/ Crash

\* The run is never idle but where it sleeps or is connected, and time passes.
Fairness == WF_vars(Work) /\ WF_vars(Tick)

Spec == Init /\ [][Next]_vars /\ Fairness
-------------------------------------------------------------------------------
Places == {"off", "loading", "reserving", "asleep", "spent", "admitted", "connecting",
           "online", "left", "stopped", "unsafe"}

\* Every variable stays within its type, and a resume runs while the connector does not.
TypeOK ==
    /\ retry \in [age : Int, gap : 0 .. Old, step : Steps]
    /\ attempts \in [age : Int, count : 0 .. Budget]
    /\ retry.age <= Old /\ attempts.age <= Old
    /\ resumed \in Int /\ resumed <= Old
    /\ quarantine \in BOOLEAN /\ shutdown \in BOOLEAN /\ paid \in BOOLEAN
    /\ epoch \in 0 .. MaxEpoch /\ last \in 0 .. MaxEpoch /\ accepted \in 0 .. MaxEpoch
    /\ at \in Places /\ online \in 0 .. Healthy
    /\ op \in {"none", "stamping", "clearing", "releasing", "starting"}
    /\ owed \in Nat /\ made \in Nat /\ cool \in Nat
    /\ faults \in 0 .. MaxFaults
    /\ op # "none" => at = "off"

\* Attempts on the network are as far apart as the schedule says, whatever crashed or
\* failed between them and wherever a new run picked the schedule up; a healthy connection
\* alone makes the next one due.
AttemptsAreSpaced == at = "admitted" => owed = 0

\* Every attempt on the network was counted in the file before it was made, and no more
\* than the budget are made in a window: a crash may lose a reservation and wins none.
RestartIsNoRefill ==
    made + (IF at = "admitted" THEN 1 ELSE 0) <= attempts.count

\* A quarantined connector is not on its way to the network, nor on it.
QuarantineHolds == quarantine => at \notin {"admitted", "connecting", "online"}

\* However the wall clock jumped, a run sleeps at most as long as its schedule or a window
\* lasts.
JumpsNeverStrand ==
    /\ at = "asleep" => retry.age >= 0
    /\ at = "spent" => attempts.age >= 0

\* A release of the quarantine follows the begin of a cooldown of its own, and cooldowns
\* begin one after the end of the other: a resume that failed or crashed halfway is no way
\* around.
ReleasesArePaid ==
    [][ /\ quarantine /\ ~quarantine' => paid
        /\ made' < made /\ op # "none" => paid
        /\ cool' > cool => cool = 0 ]_vars

\* The epochs of established sessions grow, over reconnects, failed writes and crashes.
EpochsGrow == [][ accepted' # accepted => accepted' > accepted ]_vars

\* An outage is left: a run that is not connected makes another attempt, or has ended.
OutageRecovers ==
    at \in {"loading", "reserving", "asleep", "spent", "admitted"} ~> at \in {"connecting", "off"}
===============================================================================
