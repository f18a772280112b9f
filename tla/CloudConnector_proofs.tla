------------------------- MODULE CloudConnector_proofs -------------------------
(***************************************************************************)
(* The containment of the cloud connector, for every schedule, budget,     *)
(* window and cooldown, and for any number of crashes, clock jumps and     *)
(* file operations that fail.                                              *)
(***************************************************************************)
EXTENDS CloudConnector, TLAPS

\* What is left of a reserved wait is in the schedule's file, and an admitted run is past it.
OwedIsScheduled ==
    /\ owed <= retry.gap
    /\ owed = 0 \/ owed + retry.age <= retry.gap
    /\ at = "admitted" => retry.age >= retry.gap

\* A run that has loaded the schedule has none from the future.
NothingInTheFuture ==
    /\ at \notin {"off", "loading"} => retry.age >= 0
    /\ at = "spent" => attempts.age >= 0

\* What is left of a cooldown is in the file of the last stamp.
CoolIsStamped ==
    /\ cool = 0 \/ cool + resumed <= Cooldown
    /\ op = "stamping" => resumed >= Cooldown
    /\ op \in {"clearing", "releasing"} => paid

\* The epoch of the last session is in its file, and in the guard of the run.
EpochIsSaved ==
    /\ accepted <= epoch
    /\ at \notin {"off", "loading"} => accepted <= last

Inv ==
    /\ TypeOK /\ OwedIsScheduled /\ RestartIsNoRefill /\ QuarantineHolds
    /\ NothingInTheFuture /\ CoolIsStamped /\ EpochIsSaved

LEMMA InitInv == Init => Inv
<1> SUFFICES ASSUME Init
             PROVE  Inv
  OBVIOUS
<1>1. retry \in [age : Int, gap : 0 .. Old, step : Steps]
  BY CloudAssumption DEF Init, Steps
<1>2. attempts \in [age : Int, count : 0 .. Budget]
  BY CloudAssumption DEF Init, Fresh
<1>3. quarantine \in BOOLEAN /\ shutdown \in BOOLEAN /\ paid \in BOOLEAN
  BY Zenon DEF Init
<1> QED
  BY CloudAssumption, <1>1, <1>2, <1>3 DEF Init, Inv, TypeOK, OwedIsScheduled, RestartIsNoRefill, QuarantineHolds,
     NothingInTheFuture, CoolIsStamped, EpochIsSaved, Fresh, Places, Steps

LEMMA NextInv == Inv /\ [Next]_vars => Inv'
<1> SUFFICES ASSUME Inv, [Next]_vars
             PROVE  Inv'
  OBVIOUS
<1> USE CloudAssumption
<1>1. CASE Load
  <2>1. TypeOK'
    BY <1>1 DEF Inv, TypeOK, Places, Steps, Load, Over, Fault, Fine, Kept, files, run, history
  <2>2. OwedIsScheduled'
    BY <1>1 DEF Inv, TypeOK, OwedIsScheduled, Load, Over, Fault, Fine, Kept, files, run, history
  <2>3. RestartIsNoRefill'
    BY <1>1 DEF Inv, TypeOK, RestartIsNoRefill, Load, Over, Fault, Fine, Kept, files, run, history
  <2>4. QuarantineHolds'
    BY <1>1 DEF Inv, TypeOK, QuarantineHolds, Load, Over, Fault, Fine, Kept, files, run, history
  <2>5. NothingInTheFuture'
    BY <1>1 DEF Inv, TypeOK, NothingInTheFuture, Load, Over, Fault, Fine, Kept, files, run, history
  <2>6. CoolIsStamped'
    BY <1>1 DEF Inv, TypeOK, CoolIsStamped, Load, Over, Fault, Fine, Kept, files, run, history
  <2>7. EpochIsSaved'
    BY <1>1 DEF Inv, TypeOK, EpochIsSaved, Load, Over, Fault, Fine, Kept, files, run, history
  <2> QED
    BY <2>1, <2>2, <2>3, <2>4, <2>5, <2>6, <2>7 DEF Inv
<1>2. CASE Refused
  <2>1. TypeOK'
    BY <1>2 DEF Inv, TypeOK, Places, Steps, Refused, Over, Kept, files, run, history
  <2>2. OwedIsScheduled'
    BY <1>2 DEF Inv, TypeOK, OwedIsScheduled, Refused, Over, Kept, files, run, history
  <2>3. RestartIsNoRefill'
    BY <1>2 DEF Inv, TypeOK, RestartIsNoRefill, Refused, Over, Kept, files, run, history
  <2>4. QuarantineHolds'
    BY <1>2 DEF Inv, TypeOK, QuarantineHolds, Refused, Over, Kept, files, run, history
  <2>5. NothingInTheFuture'
    BY <1>2 DEF Inv, TypeOK, NothingInTheFuture, Refused, Over, Kept, files, run, history
  <2>6. CoolIsStamped'
    BY <1>2 DEF Inv, TypeOK, CoolIsStamped, Refused, Over, Kept, files, run, history
  <2>7. EpochIsSaved'
    BY <1>2 DEF Inv, TypeOK, EpochIsSaved, Refused, Over, Kept, files, run, history
  <2> QED
    BY <2>1, <2>2, <2>3, <2>4, <2>5, <2>6, <2>7 DEF Inv
<1>3. CASE Admit
  <2>1. TypeOK'
    BY <1>3 DEF Inv, TypeOK, Places, Steps, Admit, Due, Counted, Window, Over, Fault, Fine, Kept, files, run, history
  <2>2. OwedIsScheduled'
    BY <1>3 DEF Inv, TypeOK, OwedIsScheduled, Admit, Due, Counted, Window, Over, Fault, Fine, Kept, files, run, history
  <2>3. RestartIsNoRefill'
    BY <1>3 DEF Inv, TypeOK, RestartIsNoRefill, Admit, Due, Counted, Window, Over, Fault, Fine, Kept, files, run, history
  <2>4. QuarantineHolds'
    BY <1>3 DEF Inv, TypeOK, QuarantineHolds, Admit, Due, Counted, Window, Over, Fault, Fine, Kept, files, run, history
  <2>5. NothingInTheFuture'
    BY <1>3 DEF Inv, TypeOK, NothingInTheFuture, Admit, Due, Counted, Window, Over, Fault, Fine, Kept, files, run, history
  <2>6. CoolIsStamped'
    BY <1>3 DEF Inv, TypeOK, CoolIsStamped, Admit, Due, Counted, Window, Over, Fault, Fine, Kept, files, run, history
  <2>7. EpochIsSaved'
    BY <1>3 DEF Inv, TypeOK, EpochIsSaved, Admit, Due, Counted, Window, Over, Fault, Fine, Kept, files, run, history
  <2> QED
    BY <2>1, <2>2, <2>3, <2>4, <2>5, <2>6, <2>7 DEF Inv
<1>4. CASE Wake
  <2>1. TypeOK'
    BY <1>4 DEF Inv, TypeOK, Places, Steps, Wake, Kept, files, run, history
  <2>2. OwedIsScheduled'
    BY <1>4 DEF Inv, TypeOK, OwedIsScheduled, Wake, Kept, files, run, history
  <2>3. RestartIsNoRefill'
    BY <1>4 DEF Inv, TypeOK, RestartIsNoRefill, Wake, Kept, files, run, history
  <2>4. QuarantineHolds'
    BY <1>4 DEF Inv, TypeOK, QuarantineHolds, Wake, Kept, files, run, history
  <2>5. NothingInTheFuture'
    BY <1>4 DEF Inv, TypeOK, NothingInTheFuture, Wake, Kept, files, run, history
  <2>6. CoolIsStamped'
    BY <1>4 DEF Inv, TypeOK, CoolIsStamped, Wake, Kept, files, run, history
  <2>7. EpochIsSaved'
    BY <1>4 DEF Inv, TypeOK, EpochIsSaved, Wake, Kept, files, run, history
  <2> QED
    BY <2>1, <2>2, <2>3, <2>4, <2>5, <2>6, <2>7 DEF Inv
<1>5. CASE Reserve
  <2>1. TypeOK'
    BY <1>5 DEF Inv, TypeOK, Places, Steps, Reserve, Over, Fault, Fine, Kept, files, run, history
  <2>2. OwedIsScheduled'
    BY <1>5 DEF Inv, TypeOK, OwedIsScheduled, Reserve, Over, Fault, Fine, Kept, files, run, history
  <2>3. RestartIsNoRefill'
    BY <1>5 DEF Inv, TypeOK, RestartIsNoRefill, Reserve, Over, Fault, Fine, Kept, files, run, history
  <2>4. QuarantineHolds'
    BY <1>5 DEF Inv, TypeOK, QuarantineHolds, Reserve, Over, Fault, Fine, Kept, files, run, history
  <2>5. NothingInTheFuture'
    BY <1>5 DEF Inv, TypeOK, NothingInTheFuture, Reserve, Over, Fault, Fine, Kept, files, run, history
  <2>6. CoolIsStamped'
    BY <1>5 DEF Inv, TypeOK, CoolIsStamped, Reserve, Over, Fault, Fine, Kept, files, run, history
  <2>7. EpochIsSaved'
    BY <1>5 DEF Inv, TypeOK, EpochIsSaved, Reserve, Over, Fault, Fine, Kept, files, run, history
  <2> QED
    BY <2>1, <2>2, <2>3, <2>4, <2>5, <2>6, <2>7 DEF Inv
<1>6. CASE Connect
  <2>1. TypeOK'
    BY <1>6 DEF Inv, TypeOK, Places, Steps, Connect, Fault, Fine, Kept, files, run, history
  <2>2. OwedIsScheduled'
    BY <1>6 DEF Inv, TypeOK, OwedIsScheduled, Connect, Fault, Fine, Kept, files, run, history
  <2>3. RestartIsNoRefill'
    BY <1>6 DEF Inv, TypeOK, RestartIsNoRefill, Connect, Fault, Fine, Kept, files, run, history
  <2>4. QuarantineHolds'
    BY <1>6 DEF Inv, TypeOK, QuarantineHolds, Connect, Fault, Fine, Kept, files, run, history
  <2>5. NothingInTheFuture'
    BY <1>6 DEF Inv, TypeOK, NothingInTheFuture, Connect, Fault, Fine, Kept, files, run, history
  <2>6. CoolIsStamped'
    BY <1>6 DEF Inv, TypeOK, CoolIsStamped, Connect, Fault, Fine, Kept, files, run, history
  <2>7. EpochIsSaved'
    BY <1>6 DEF Inv, TypeOK, EpochIsSaved, Connect, Fault, Fine, Kept, files, run, history
  <2> QED
    BY <2>1, <2>2, <2>3, <2>4, <2>5, <2>6, <2>7 DEF Inv
<1>7. CASE ConnectedFor
  <2>1. TypeOK'
    BY <1>7 DEF Inv, TypeOK, Places, Steps, ConnectedFor, Over, Fault, Fine, Kept, files, run, history
  <2>2. OwedIsScheduled'
    BY <1>7 DEF Inv, TypeOK, OwedIsScheduled, ConnectedFor, Over, Fault, Fine, Kept, files, run, history
  <2>3. RestartIsNoRefill'
    BY <1>7 DEF Inv, TypeOK, RestartIsNoRefill, ConnectedFor, Over, Fault, Fine, Kept, files, run, history
  <2>4. QuarantineHolds'
    BY <1>7 DEF Inv, TypeOK, QuarantineHolds, ConnectedFor, Over, Fault, Fine, Kept, files, run, history
  <2>5. NothingInTheFuture'
    BY <1>7 DEF Inv, TypeOK, NothingInTheFuture, ConnectedFor, Over, Fault, Fine, Kept, files, run, history
  <2>6. CoolIsStamped'
    BY <1>7 DEF Inv, TypeOK, CoolIsStamped, ConnectedFor, Over, Fault, Fine, Kept, files, run, history
  <2>7. EpochIsSaved'
    BY <1>7 DEF Inv, TypeOK, EpochIsSaved, ConnectedFor, Over, Fault, Fine, Kept, files, run, history
  <2> QED
    BY <2>1, <2>2, <2>3, <2>4, <2>5, <2>6, <2>7 DEF Inv
<1>8. CASE Stamp
  <2>1. TypeOK'
    <3>1. quarantine' \in BOOLEAN /\ shutdown' \in BOOLEAN /\ paid' \in BOOLEAN
      BY <1>8, Zenon DEF Inv, TypeOK, Stamp, Calm, Fault, Fine, files, run, history
    <3> QED
      BY <1>8, <3>1 DEF Inv, TypeOK, Places, Steps, Stamp, Calm, Fault, Fine, files, run, history
  <2>2. OwedIsScheduled'
    BY <1>8 DEF Inv, TypeOK, OwedIsScheduled, Stamp, Calm, Fault, Fine, files, run, history
  <2>3. RestartIsNoRefill'
    BY <1>8 DEF Inv, TypeOK, RestartIsNoRefill, Stamp, Calm, Fault, Fine, files, run, history
  <2>4. QuarantineHolds'
    BY <1>8 DEF Inv, TypeOK, QuarantineHolds, Stamp, Calm, Fault, Fine, files, run, history
  <2>5. NothingInTheFuture'
    BY <1>8 DEF Inv, TypeOK, NothingInTheFuture, Stamp, Calm, Fault, Fine, files, run, history
  <2>6. CoolIsStamped'
    BY <1>8 DEF Inv, TypeOK, CoolIsStamped, Stamp, Calm, Fault, Fine, files, run, history
  <2>7. EpochIsSaved'
    BY <1>8 DEF Inv, TypeOK, EpochIsSaved, Stamp, Calm, Fault, Fine, files, run, history
  <2> QED
    BY <2>1, <2>2, <2>3, <2>4, <2>5, <2>6, <2>7 DEF Inv
<1>9. CASE Clear
  <2>1. TypeOK'
    BY <1>9 DEF Inv, TypeOK, Places, Steps, Clear, Calm, Fault, Fine, Fresh, files, run, history
  <2>2. OwedIsScheduled'
    BY <1>9 DEF Inv, TypeOK, OwedIsScheduled, Clear, Calm, Fault, Fine, Fresh, files, run, history
  <2>3. RestartIsNoRefill'
    BY <1>9 DEF Inv, TypeOK, RestartIsNoRefill, Clear, Calm, Fault, Fine, Fresh, files, run, history
  <2>4. QuarantineHolds'
    BY <1>9 DEF Inv, TypeOK, QuarantineHolds, Clear, Calm, Fault, Fine, Fresh, files, run, history
  <2>5. NothingInTheFuture'
    BY <1>9 DEF Inv, TypeOK, NothingInTheFuture, Clear, Calm, Fault, Fine, Fresh, files, run, history
  <2>6. CoolIsStamped'
    BY <1>9 DEF Inv, TypeOK, CoolIsStamped, Clear, Calm, Fault, Fine, Fresh, files, run, history
  <2>7. EpochIsSaved'
    BY <1>9 DEF Inv, TypeOK, EpochIsSaved, Clear, Calm, Fault, Fine, Fresh, files, run, history
  <2> QED
    BY <2>1, <2>2, <2>3, <2>4, <2>5, <2>6, <2>7 DEF Inv
<1>10. CASE Release
  <2>1. TypeOK'
    <3>1. quarantine' \in BOOLEAN /\ shutdown' \in BOOLEAN /\ paid' \in BOOLEAN
      BY <1>10, Zenon DEF Inv, TypeOK, Release, Calm, Fault, Fine, files, run, history
    <3> QED
      BY <1>10, <3>1 DEF Inv, TypeOK, Places, Steps, Release, Calm, Fault, Fine, files, run, history
  <2>2. OwedIsScheduled'
    BY <1>10 DEF Inv, TypeOK, OwedIsScheduled, Release, Calm, Fault, Fine, files, run, history
  <2>3. RestartIsNoRefill'
    BY <1>10 DEF Inv, TypeOK, RestartIsNoRefill, Release, Calm, Fault, Fine, files, run, history
  <2>4. QuarantineHolds'
    BY <1>10 DEF Inv, TypeOK, QuarantineHolds, Release, Calm, Fault, Fine, files, run, history
  <2>5. NothingInTheFuture'
    BY <1>10 DEF Inv, TypeOK, NothingInTheFuture, Release, Calm, Fault, Fine, files, run, history
  <2>6. CoolIsStamped'
    BY <1>10 DEF Inv, TypeOK, CoolIsStamped, Release, Calm, Fault, Fine, files, run, history
  <2>7. EpochIsSaved'
    BY <1>10 DEF Inv, TypeOK, EpochIsSaved, Release, Calm, Fault, Fine, files, run, history
  <2> QED
    BY <2>1, <2>2, <2>3, <2>4, <2>5, <2>6, <2>7 DEF Inv
<1>11. CASE Restart
  <2>1. TypeOK'
    BY <1>11 DEF Inv, TypeOK, Places, Steps, Restart, files, run, history
  <2>2. OwedIsScheduled'
    BY <1>11 DEF Inv, TypeOK, OwedIsScheduled, Restart, files, run, history
  <2>3. RestartIsNoRefill'
    BY <1>11 DEF Inv, TypeOK, RestartIsNoRefill, Restart, files, run, history
  <2>4. QuarantineHolds'
    BY <1>11 DEF Inv, TypeOK, QuarantineHolds, Restart, files, run, history
  <2>5. NothingInTheFuture'
    BY <1>11 DEF Inv, TypeOK, NothingInTheFuture, Restart, files, run, history
  <2>6. CoolIsStamped'
    BY <1>11 DEF Inv, TypeOK, CoolIsStamped, Restart, files, run, history
  <2>7. EpochIsSaved'
    BY <1>11 DEF Inv, TypeOK, EpochIsSaved, Restart, files, run, history
  <2> QED
    BY <2>1, <2>2, <2>3, <2>4, <2>5, <2>6, <2>7 DEF Inv
<1>12. CASE Start
  <2>1. TypeOK'
    BY <1>12 DEF Inv, TypeOK, Places, Steps, Start, files, run, history
  <2>2. OwedIsScheduled'
    BY <1>12 DEF Inv, TypeOK, OwedIsScheduled, Start, files, run, history
  <2>3. RestartIsNoRefill'
    BY <1>12 DEF Inv, TypeOK, RestartIsNoRefill, Start, files, run, history
  <2>4. QuarantineHolds'
    BY <1>12 DEF Inv, TypeOK, QuarantineHolds, Start, files, run, history
  <2>5. NothingInTheFuture'
    BY <1>12 DEF Inv, TypeOK, NothingInTheFuture, Start, files, run, history
  <2>6. CoolIsStamped'
    BY <1>12 DEF Inv, TypeOK, CoolIsStamped, Start, files, run, history
  <2>7. EpochIsSaved'
    BY <1>12 DEF Inv, TypeOK, EpochIsSaved, Start, files, run, history
  <2> QED
    BY <2>1, <2>2, <2>3, <2>4, <2>5, <2>6, <2>7 DEF Inv
<1>13. CASE Disconnect
  <2>1. TypeOK'
    <3>1. quarantine' \in BOOLEAN /\ shutdown' \in BOOLEAN /\ paid' \in BOOLEAN
      BY <1>13, Zenon DEF Inv, TypeOK, Disconnect, Kept, Fault, Fine, files, run, history
    <3>2. at' \in {"left", "stopped", "unsafe"} /\ at = "online"
      BY <1>13 DEF Disconnect
    <3>3. faults' \in 0 .. MaxFaults
      <4>1. faults' = faults \/ Fault
        BY <1>13, Zenon DEF Disconnect, Fine
      <4> QED
        BY <4>1 DEF Inv, TypeOK, Fault
    <3>4. UNCHANGED <<retry, attempts, resumed, epoch, last, accepted, online, op, owed, made,
                      cool>>
      BY <1>13 DEF Disconnect, Kept
    <3> QED
      BY <3>1, <3>2, <3>3, <3>4 DEF Inv, TypeOK, Places, Steps
  <2>2. OwedIsScheduled'
    BY <1>13 DEF Inv, TypeOK, OwedIsScheduled, Disconnect, Kept, Fault, Fine, files, run, history
  <2>3. RestartIsNoRefill'
    BY <1>13 DEF Inv, TypeOK, RestartIsNoRefill, Disconnect, Kept, Fault, Fine, files, run, history
  <2>4. QuarantineHolds'
    BY <1>13 DEF Inv, TypeOK, QuarantineHolds, Disconnect, Kept, Fault, Fine, files, run, history
  <2>5. NothingInTheFuture'
    BY <1>13 DEF Inv, TypeOK, NothingInTheFuture, Disconnect, Kept, Fault, Fine, files, run, history
  <2>6. CoolIsStamped'
    BY <1>13 DEF Inv, TypeOK, CoolIsStamped, Disconnect, Kept, Fault, Fine, files, run, history
  <2>7. EpochIsSaved'
    BY <1>13 DEF Inv, TypeOK, EpochIsSaved, Disconnect, Kept, Fault, Fine, files, run, history
  <2> QED
    BY <2>1, <2>2, <2>3, <2>4, <2>5, <2>6, <2>7 DEF Inv
<1>14. CASE Stop
  <2>1. TypeOK'
    BY <1>14 DEF Inv, TypeOK, Places, Steps, Stop, Kept, Over, files, run, history
  <2>2. OwedIsScheduled'
    BY <1>14 DEF Inv, TypeOK, OwedIsScheduled, Stop, Kept, Over, files, run, history
  <2>3. RestartIsNoRefill'
    BY <1>14 DEF Inv, TypeOK, RestartIsNoRefill, Stop, Kept, Over, files, run, history
  <2>4. QuarantineHolds'
    BY <1>14 DEF Inv, TypeOK, QuarantineHolds, Stop, Kept, Over, files, run, history
  <2>5. NothingInTheFuture'
    BY <1>14 DEF Inv, TypeOK, NothingInTheFuture, Stop, Kept, Over, files, run, history
  <2>6. CoolIsStamped'
    BY <1>14 DEF Inv, TypeOK, CoolIsStamped, Stop, Kept, Over, files, run, history
  <2>7. EpochIsSaved'
    BY <1>14 DEF Inv, TypeOK, EpochIsSaved, Stop, Kept, Over, files, run, history
  <2> QED
    BY <2>1, <2>2, <2>3, <2>4, <2>5, <2>6, <2>7 DEF Inv
<1>15. CASE Resume
  <2>1. TypeOK'
    BY <1>15 DEF Inv, TypeOK, Places, Steps, Resume, Calm, files, run, history
  <2>2. OwedIsScheduled'
    BY <1>15 DEF Inv, TypeOK, OwedIsScheduled, Resume, Calm, files, run, history
  <2>3. RestartIsNoRefill'
    BY <1>15 DEF Inv, TypeOK, RestartIsNoRefill, Resume, Calm, files, run, history
  <2>4. QuarantineHolds'
    BY <1>15 DEF Inv, TypeOK, QuarantineHolds, Resume, Calm, files, run, history
  <2>5. NothingInTheFuture'
    BY <1>15 DEF Inv, TypeOK, NothingInTheFuture, Resume, Calm, files, run, history
  <2>6. CoolIsStamped'
    BY <1>15 DEF Inv, TypeOK, CoolIsStamped, Resume, Calm, files, run, history
  <2>7. EpochIsSaved'
    BY <1>15 DEF Inv, TypeOK, EpochIsSaved, Resume, Calm, files, run, history
  <2> QED
    BY <2>1, <2>2, <2>3, <2>4, <2>5, <2>6, <2>7 DEF Inv
<1>16. CASE Tick
  <2>1. TypeOK'
    BY <1>16 DEF Inv, TypeOK, Places, Steps, Tick, Shifted, Less, files, run, history
  <2>2. OwedIsScheduled'
    BY <1>16 DEF Inv, TypeOK, OwedIsScheduled, Tick, Shifted, Less, files, run, history
  <2>3. RestartIsNoRefill'
    BY <1>16 DEF Inv, TypeOK, RestartIsNoRefill, Tick, Shifted, Less, files, run, history
  <2>4. QuarantineHolds'
    BY <1>16 DEF Inv, TypeOK, QuarantineHolds, Tick, Shifted, Less, files, run, history
  <2>5. NothingInTheFuture'
    BY <1>16 DEF Inv, TypeOK, NothingInTheFuture, Tick, Shifted, Less, files, run, history
  <2>6. CoolIsStamped'
    BY <1>16 DEF Inv, TypeOK, CoolIsStamped, Tick, Shifted, Less, files, run, history
  <2>7. EpochIsSaved'
    BY <1>16 DEF Inv, TypeOK, EpochIsSaved, Tick, Shifted, Less, files, run, history
  <2> QED
    BY <2>1, <2>2, <2>3, <2>4, <2>5, <2>6, <2>7 DEF Inv
<1>17. CASE Jump
  <2>1. TypeOK'
    BY <1>17 DEF Inv, TypeOK, Places, Steps, Jump, Shifted, Less, Fault, files, run, history
  <2>2. OwedIsScheduled'
    BY <1>17 DEF Inv, TypeOK, OwedIsScheduled, Jump, Shifted, Less, Fault, files, run, history
  <2>3. RestartIsNoRefill'
    BY <1>17 DEF Inv, TypeOK, RestartIsNoRefill, Jump, Shifted, Less, Fault, files, run, history
  <2>4. QuarantineHolds'
    BY <1>17 DEF Inv, TypeOK, QuarantineHolds, Jump, Shifted, Less, Fault, files, run, history
  <2>5. NothingInTheFuture'
    BY <1>17 DEF Inv, TypeOK, NothingInTheFuture, Jump, Shifted, Less, Fault, files, run, history
  <2>6. CoolIsStamped'
    BY <1>17 DEF Inv, TypeOK, CoolIsStamped, Jump, Shifted, Less, Fault, files, run, history
  <2>7. EpochIsSaved'
    BY <1>17 DEF Inv, TypeOK, EpochIsSaved, Jump, Shifted, Less, Fault, files, run, history
  <2> QED
    BY <2>1, <2>2, <2>3, <2>4, <2>5, <2>6, <2>7 DEF Inv
<1>18. CASE Shutdown
  <2>1. TypeOK'
    BY <1>18 DEF Inv, TypeOK, Places, Steps, Shutdown, files, run, history
  <2>2. OwedIsScheduled'
    BY <1>18 DEF Inv, TypeOK, OwedIsScheduled, Shutdown, files, run, history
  <2>3. RestartIsNoRefill'
    BY <1>18 DEF Inv, TypeOK, RestartIsNoRefill, Shutdown, files, run, history
  <2>4. QuarantineHolds'
    BY <1>18 DEF Inv, TypeOK, QuarantineHolds, Shutdown, files, run, history
  <2>5. NothingInTheFuture'
    BY <1>18 DEF Inv, TypeOK, NothingInTheFuture, Shutdown, files, run, history
  <2>6. CoolIsStamped'
    BY <1>18 DEF Inv, TypeOK, CoolIsStamped, Shutdown, files, run, history
  <2>7. EpochIsSaved'
    BY <1>18 DEF Inv, TypeOK, EpochIsSaved, Shutdown, files, run, history
  <2> QED
    BY <2>1, <2>2, <2>3, <2>4, <2>5, <2>6, <2>7 DEF Inv
<1>19. CASE Crash
  <2>1. TypeOK'
    <3>1. quarantine' \in BOOLEAN /\ shutdown' \in BOOLEAN /\ paid' \in BOOLEAN
      BY <1>19, Zenon DEF Inv, TypeOK, Crash, Fault, files, run, history
    <3> QED
      BY <1>19, <3>1 DEF Inv, TypeOK, Places, Steps, Crash, Fault, files, run, history
  <2>2. OwedIsScheduled'
    BY <1>19 DEF Inv, TypeOK, OwedIsScheduled, Crash, Fault, files, run, history
  <2>3. RestartIsNoRefill'
    BY <1>19 DEF Inv, TypeOK, RestartIsNoRefill, Crash, Fault, files, run, history
  <2>4. QuarantineHolds'
    BY <1>19 DEF Inv, TypeOK, QuarantineHolds, Crash, Fault, files, run, history
  <2>5. NothingInTheFuture'
    BY <1>19 DEF Inv, TypeOK, NothingInTheFuture, Crash, Fault, files, run, history
  <2>6. CoolIsStamped'
    BY <1>19 DEF Inv, TypeOK, CoolIsStamped, Crash, Fault, files, run, history
  <2>7. EpochIsSaved'
    BY <1>19 DEF Inv, TypeOK, EpochIsSaved, Crash, Fault, files, run, history
  <2> QED
    BY <2>1, <2>2, <2>3, <2>4, <2>5, <2>6, <2>7 DEF Inv
<1>20. CASE UNCHANGED vars
  BY <1>20 DEF Inv, TypeOK, OwedIsScheduled, RestartIsNoRefill, QuarantineHolds,
     NothingInTheFuture, CoolIsStamped, EpochIsSaved, vars, files, run, history
<1> QED
  BY <1>1, <1>2, <1>3, <1>4, <1>5, <1>6, <1>7, <1>8, <1>9, <1>10, <1>11, <1>12, <1>13, <1>14, <1>15, <1>16, <1>17, <1>18, <1>19, <1>20 DEF Next, Work

THEOREM InvariantHolds == Spec => []Inv
<1>1. Init => Inv
  BY InitInv
<1>2. Inv /\ [Next]_vars => Inv'
  BY NextInv
<1> QED
  BY <1>1, <1>2, PTL DEF Spec

\* Every variable of the connector keeps its type, and a resume runs while no run does.
THEOREM TypeCorrect == Spec => []TypeOK
<1>1. Inv => TypeOK
  BY DEF Inv
<1> QED
  BY <1>1, InvariantHolds, PTL

\* Whatever crashes, fails and jumps, no attempt comes before the wait that the last one
\* reserved is over.
THEOREM AttemptsSpaced == Spec => []AttemptsAreSpaced
<1>1. Inv => AttemptsAreSpaced
  BY DEF Inv, TypeOK, OwedIsScheduled, AttemptsAreSpaced
<1> QED
  BY <1>1, InvariantHolds, PTL

\* The attempts made in a window are counted in the file, at most as many as the budget.
THEOREM NoRefill == Spec => []RestartIsNoRefill
<1>1. Inv => RestartIsNoRefill
  BY DEF Inv
<1> QED
  BY <1>1, InvariantHolds, PTL

\* Nothing goes to the network while the quarantine is there.
THEOREM QuarantineRespected == Spec => []QuarantineHolds
<1>1. Inv => QuarantineHolds
  BY DEF Inv
<1> QED
  BY <1>1, InvariantHolds, PTL

\* No jump of the wall clock makes a run sleep longer than its schedule or a window.
THEOREM NeverStranded == Spec => []JumpsNeverStrand
<1>1. Inv => JumpsNeverStrand
  BY DEF Inv, NothingInTheFuture, JumpsNeverStrand
<1> QED
  BY <1>1, InvariantHolds, PTL

\* A release of the quarantine, and a refill of the budget by a resume, is preceded by the
\* begin of a cooldown of its own, and the former cooldown is over by then.
THEOREM ReleasePaid == Spec => ReleasesArePaid
<1>1. Inv /\ [Next]_vars =>
         [ /\ quarantine /\ ~quarantine' => paid
           /\ made' < made /\ op # "none" => paid
           /\ cool' > cool => cool = 0 ]_vars
  <2> SUFFICES ASSUME Inv, Next
               PROVE  /\ quarantine /\ ~quarantine' => paid
                      /\ made' < made /\ op # "none" => paid
                      /\ cool' > cool => cool = 0
    OBVIOUS
  <2>1. CASE Load
    BY <2>1 DEF Inv, TypeOK, CoolIsStamped, Load, Kept
  <2>2. CASE Refused
    BY <2>2 DEF Inv, TypeOK, CoolIsStamped, Refused, Kept, files
  <2>3. CASE Admit
    <3>1. op = "none"
      BY <2>3 DEF Inv, TypeOK, Admit, Due
    <3>2. quarantine' = quarantine /\ cool' = cool
      BY <2>3 DEF Admit, Kept
    <3> QED
      BY <3>1, <3>2 DEF Inv, TypeOK
  <2>4. CASE Wake
    BY <2>4 DEF Inv, TypeOK, CoolIsStamped, Wake, Kept, files
  <2>5. CASE Reserve
    BY <2>5 DEF Inv, TypeOK, CoolIsStamped, Reserve, Kept
  <2>6. CASE Connect
    BY <2>6 DEF Inv, TypeOK, CoolIsStamped, Connect, Kept
  <2>7. CASE ConnectedFor
    BY <2>7 DEF Inv, TypeOK, CoolIsStamped, ConnectedFor, Kept
  <2>8. CASE Stamp
    <3>1. quarantine' = quarantine /\ made' = made
      BY <2>8 DEF Stamp, Calm
    <3>2. cool = 0
      BY <2>8, CloudAssumption DEF Inv, TypeOK, CoolIsStamped, Stamp
    <3> QED
      BY <3>1, <3>2 DEF Inv, TypeOK
  <2>9. CASE Clear
    BY <2>9 DEF Inv, TypeOK, CoolIsStamped, Clear, Calm
  <2>10. CASE Release
    BY <2>10 DEF Inv, TypeOK, CoolIsStamped, Release, Calm
  <2>11. CASE Restart
    BY <2>11 DEF Inv, TypeOK, CoolIsStamped, Restart, files, history
  <2>12. CASE Start
    BY <2>12 DEF Inv, TypeOK, CoolIsStamped, Start, files, history
  <2>13. CASE Disconnect
    <3>1. quarantine => quarantine'
      BY <2>13, Zenon DEF Disconnect
    <3>2. made' = made /\ cool' = cool
      BY <2>13 DEF Disconnect, Kept
    <3> QED
      BY <3>1, <3>2 DEF Inv, TypeOK
  <2>14. CASE Stop
    BY <2>14 DEF Inv, TypeOK, CoolIsStamped, Stop, Kept, files
  <2>15. CASE Resume
    BY <2>15 DEF Inv, TypeOK, CoolIsStamped, Resume, Calm
  <2>16. CASE Tick
    BY <2>16 DEF Inv, TypeOK, CoolIsStamped, Tick, Less
  <2>17. CASE Jump
    BY <2>17 DEF Inv, TypeOK, CoolIsStamped, Jump, Less
  <2>18. CASE Shutdown
    BY <2>18 DEF Inv, TypeOK, CoolIsStamped, Shutdown, files, history
  <2>19. CASE Crash
    BY <2>19 DEF Inv, TypeOK, CoolIsStamped, Crash, files, history
  <2> QED
    BY <2>1, <2>2, <2>3, <2>4, <2>5, <2>6, <2>7, <2>8, <2>9, <2>10, <2>11, <2>12, <2>13, <2>14, <2>15, <2>16, <2>17, <2>18, <2>19 DEF Next, Work
<1> QED
  BY <1>1, InvariantHolds, PTL DEF Spec, ReleasesArePaid

\* The epochs of established sessions grow.
THEOREM EpochsOnlyGrow == Spec => EpochsGrow
<1>1. Inv /\ [Next]_vars => [accepted' # accepted => accepted' > accepted]_vars
  <2> SUFFICES ASSUME Inv, Next
               PROVE  accepted' # accepted => accepted' > accepted
    OBVIOUS
  <2>1. CASE Connect
    BY <2>1 DEF Inv, TypeOK, EpochIsSaved, Connect
  <2>2. CASE ~Connect
    <3>1. accepted' = accepted
      BY <2>2 DEF Next, Work, Load, Refused, Admit, Wake, Reserve, ConnectedFor, Stamp, Clear,
         Release, Restart, Start, Disconnect, Stop, Resume, Tick, Jump, Shutdown, Crash, Calm,
         history
    <3> QED
      BY <3>1
  <2> QED
    BY <2>1, <2>2
<1> QED
  BY <1>1, InvariantHolds, PTL DEF Spec, EpochsGrow

===============================================================================
