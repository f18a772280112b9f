---------------------------- MODULE CommandLedger ----------------------------
(***************************************************************************)
(* What the reliable runtime promises a caller about each command, without *)
(* queues, endpoints or timers: the life of one entry of the ledger that a *)
(* CommandTicket watches (CommandStatus in src/src/bus/runtime.rs).        *)
(*                                                                         *)
(*   none -> pending -> refused                  no native attempt, ever   *)
(*           pending -> started -> uncertain     the caller is told so     *)
(*                      started or uncertain -> confirmed                  *)
(*                      started or uncertain or confirmed -> failed        *)
(*                                                                         *)
(* The last line is the code's: the endpoint's failure report overwrites a *)
(* confirmation that arrived first.                                        *)
(***************************************************************************)
CONSTANT Calls

VARIABLES life,       \* where each command is in its life
          attempts    \* the commands with a native attempt

vars == <<life, attempts>>

Lives == {"none", "pending", "refused", "started", "uncertain", "confirmed", "failed"}
Attempted == {"started", "uncertain", "confirmed", "failed"}

Init == life = [c \in Calls |-> "none"] /\ attempts = {}

Move(c, from, to) ==
    /\ life[c] \in from
    /\ life' = [life EXCEPT ![c] = to]

Admit(c) == Move(c, {"none"}, "pending") /\ UNCHANGED attempts
Refuse(c) == Move(c, {"pending"}, "refused") /\ UNCHANGED attempts
Start(c) ==
    /\ c \notin attempts
    /\ Move(c, {"pending"}, "started")
    /\ attempts' = attempts \cup {c}
Doubt(c) == Move(c, {"started"}, "uncertain") /\ UNCHANGED attempts
Confirm(c) == Move(c, {"started", "uncertain"}, "confirmed") /\ UNCHANGED attempts
Fail(c) == Move(c, {"started", "uncertain", "confirmed"}, "failed") /\ UNCHANGED attempts

Next == \E c \in Calls :
    Admit(c) \/ Refuse(c) \/ Start(c) \/ Doubt(c) \/ Confirm(c) \/ Fail(c)

Spec == Init /\ [][Next]_vars
=============================================================================
