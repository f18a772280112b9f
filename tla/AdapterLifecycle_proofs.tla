------------------------ MODULE AdapterLifecycle_proofs ------------------------
(***************************************************************************)
(* Proofs about AdapterLifecycle, for every set of handlers, every number  *)
(* of requests and servers and any size of the bus.                        *)
(*                                                                         *)
(* The first invariant holds until two requests, or two runs of an         *)
(* observer, overlap (crossed): until then one handler at most is at work. *)
(* The argument: the steps of a request are numbered in the order in which *)
(* the code takes them (Stage).  What is left of a request is a path       *)
(* through these stages (PlanFits), so the stage of its next step (At)     *)
(* says what has been done and what is still to come.  Every other part    *)
(* of the invariant relates At to the workers, the registry, the settings  *)
(* file and the zones.                                                     *)
(*                                                                         *)
(* The second invariant, at the end, is about the companion alone and      *)
(* holds whatever overlaps.                                                *)
(***************************************************************************)
EXTENDS AdapterLifecycle, FiniteSetTheorems, SequenceTheorems, TLAPS

(* Stages 11 to 19 stop LMS, 20 to 23 configure it, 24 to 31 start it; 43  *)
(* to 45 stop HQPlayer, 46 and 47 start it.  No other step occurs.         *)
MainStage(do) ==
    CASE do = "toggle" -> 1    [] do = "restore" -> 2    [] do = "unsave" -> 3
      [] do = "cancel" -> 11   [] do = "join" -> 12      [] do = "stopped" -> 13
      [] do = "flush" -> 17    [] do = "untrack" -> 18
      [] do = "await" -> 20    [] do = "configure" -> 21 [] do = "mark" -> 22
      [] do = "enable" -> 23
      [] do = "claim" -> 24    [] do = "token" -> 25     [] do = "spawn" -> 26
      [] do = "track" -> 27
CompanionStage(do) ==
    CASE do = "cancel" -> 14   [] do = "join" -> 15      [] do = "stopped" -> 16
      [] do = "untrack" -> 19
      [] do = "claim" -> 28    [] do = "token" -> 29     [] do = "spawn" -> 30
      [] do = "track" -> 31
      [] OTHER -> 0
HqplayerStage(do) ==
    CASE do = "toggle" -> 41   [] do = "restore" -> 42
      [] do = "stopped" -> 43  [] do = "flush" -> 44     [] do = "untrack" -> 45
      [] do = "claim" -> 46    [] do = "track" -> 47
      [] OTHER -> 0
Stage(s) ==
    CASE s.who = Main -> MainStage(s.do)
      [] s.who = Companion -> CompanionStage(s.do)
      [] s.who = "hqplayer" -> HqplayerStage(s.do)

(* The stage n may come directly after the stage m.                        *)
Leads(m, n) ==
    \/ m \in (11 .. 30) \cup {43, 44, 46} /\ n = m + 1
    \/ m \in {19, 31} /\ n \in {3, 41}
    \/ m = 1 /\ n = 41
    \/ m \in {42, 45, 47} /\ n \in {2, 3}
    \/ m = 2 /\ n = 3

(* The stages a request may end with.                                      *)
Final == {1, 3, 19, 31, 41, 45, 47}

At(h) == IF handler[h].todo = <<>> THEN 0 ELSE Stage(handler[h].todo[1])
Last(h) == IF handler[h].todo = <<>> THEN 0 ELSE Stage(handler[h].todo[Len(handler[h].todo)])

(* A request that changes toggles, or one that configures the server.      *)
Toggling(h) == handler[h].old # handler[h].new

(* What is left of a request, and what it remembers, belong together.      *)
StepFits(h, n) ==
    /\ n # 0
    /\ ~Toggling(h) => n \in 11 .. 31
    /\ n \in 20 .. 23 => ~Toggling(h)
    /\ handler[h].back => n \notin {1, 41}
    /\ n \in {2, 3, 42} => handler[h].back
    /\ n = 1 => handler[h].old["lms"] # handler[h].new["lms"]
    /\ n = 41 => handler[h].old["hqplayer"] # handler[h].new["hqplayer"]

PlanFits(h) ==
    /\ handler[h].todo = <<>> => handler[h] = Idle
    /\ \A i \in 1 .. Len(handler[h].todo) : StepFits(h, Stage(handler[h].todo[i]))
    /\ \A i \in 1 .. Len(handler[h].todo) :
          i < Len(handler[h].todo) =>
             Leads(Stage(handler[h].todo[i]), Stage(handler[h].todo[i + 1]))
    /\ At(h) # 0 => /\ Last(h) \in Final
                    /\ Last(h) = 19 => Toggling(h)
                    /\ handler[h].back => Last(h) = 3

(* What has been toggled so far, and what for.                             *)
AppliedFits(h) ==
    /\ At(h) = 1 \/ ~Toggling(h) => handler[h].applied = <<>>
    /\ At(h) = 41 => handler[h].applied \in {<<>>, <<"lms">>}
    /\ ~handler[h].back =>
          /\ At(h) \in 43 .. 47 => handler[h].applied \in {<<"hqplayer">>, <<"lms", "hqplayer">>}
          /\ Toggling(h) =>
                /\ At(h) \in 11 .. 31 => handler[h].applied = <<"lms">>
                /\ At(h) \in 11 .. 19 => handler[h].old["lms"]
                /\ At(h) \in 24 .. 31 => ~handler[h].old["lms"]

(* A server is named before an observer starts, except by a roll-back.     *)
ServerNamed(h) ==
    /\ At(h) \in {22, 23} \cup 25 .. 31 => server # NoServer
    /\ At(h) = 24 /\ ~handler[h].back => server # NoServer

(* A request starts an observer at most once.                              *)
Spent(o) == IF o = Main THEN (26 .. 31) \cup {3} ELSE {30, 31, 3}
TokensSuffice(h) ==
    \A o \in Observers :
        /\ token[o] <= requests
        /\ /\ At(h) # 0 /\ At(h) \notin Spent(o)
           /\ handler[h].old["lms"] \/ ~Toggling(h) \/ At(h) \in {1} \cup 24 .. 31
           => token[o] < requests

(* There is one worker of an observer, the one with the current token, and *)
(* none while it is being stopped or started.                              *)
JoinOf(o) == IF o = Main THEN 12 ELSE 15
NoneAt(o) == IF o = Main THEN (13 .. 23) \cup {25, 26} ELSE (16 .. 23) \cup {29, 30}
WorkersFit(h) ==
    /\ \A o \in Observers :
          /\ Live(o) \subseteq {token[o]}
          /\ Live(o) # {} => IF At(h) = JoinOf(o) THEN handler[h].join = token[o]
                                                  ELSE task[o] = token[o]
          /\ At(h) \in NoneAt(o) => Live(o) = {}
          /\ ~flag[o] => Live(o) = {} \/ o = Main
    /\ flag[Companion] => Live(Companion) # {} \/ At(h) \in {29, 30}
    /\ At(h) \in {25, 26} => flag[Main]
    /\ At(h) \in {29, 30} => flag[Companion]
    /\ At(h) = 26 => handler[h].token = token[Main] /\ handler[h].token # NoToken
    /\ At(h) = 30 => handler[h].token = token[Companion] /\ handler[h].token # NoToken

(* A provider that is off has been stopped, or its stop is still to come.  *)
OffFits(h) ==
    /\ At(h) \in 24 .. 31 => enabled["lms"]
    /\ At(h) \in {46, 47} => enabled["hqplayer"]
    /\ ~enabled["lms"] =>
          /\ running[Main] => At(h) \in 11 .. 18
          /\ running[Companion] => At(h) \in 11 .. 19
          /\ flag[Main] => At(h) \in 11 .. 13
          /\ Live(Main) # {} => At(h) \in 11 .. 12
          /\ Live(Companion) # {} => At(h) \in 11 .. 15
    /\ ~enabled["hqplayer"] =>
          /\ running["hqplayer"] => At(h) \in 43 .. 45
          /\ flag["hqplayer"] => At(h) = 43

(* The settings file and the registry agree, or a step is still to come    *)
(* that makes them agree.                                                  *)
Restores(h, n) == \E i \in 1 .. Len(handler[h].todo) : Stage(handler[h].todo[i]) = n
SavedFits(h) ==
    unsaved \/
    /\ At(h) = 0 => \A p \in Providers : disk.on[p] = enabled[p]
    /\ At(h) # 0 /\ Toggling(h) /\ ~handler[h].back =>
          /\ disk.on = handler[h].new
          /\ At(h) = 1 \/ enabled["lms"] = handler[h].new["lms"]
          /\ Last(h) = 41 \/ enabled["hqplayer"] = handler[h].new["hqplayer"]
          /\ handler[h].applied \in {<<>>, <<"hqplayer">>} =>
                enabled["lms"] = handler[h].old["lms"]
          /\ handler[h].applied \in {<<>>, <<"lms">>} =>
                enabled["hqplayer"] = handler[h].old["hqplayer"]
    /\ At(h) # 0 /\ handler[h].back =>
          /\ Restores(h, 2) \/ enabled["lms"] = handler[h].old["lms"]
          /\ Restores(h, 42) \/ enabled["hqplayer"] = handler[h].old["hqplayer"]
    /\ At(h) # 0 /\ ~Toggling(h) =>
          /\ disk.on["hqplayer"] = enabled["hqplayer"]
          /\ At(h) = 23 \/ disk.on["lms"] = enabled["lms"]
          /\ At(h) = 23 => disk.on["lms"]

(* Observers poll the server that is configured.                           *)
ObservedFits ==
    \A o \in Observers, t \in Tokens :
        /\ worker[o][t].phase = "none" => worker[o][t] = Absent
        /\ worker[o][t].poll \in {NoServer, server}
        /\ \A i \in 1 .. Len(worker[o][t].out) :
              worker[o][t].out[i].type = "zone" => worker[o][t].out[i].server = server

(* Between the flush of a stop and the next start no zone is due.          *)
Serving(h) == enabled["lms"] /\ At(h) \notin 18 .. 21
Flushed(h, n) == At(h) \in 11 .. 17 \/ \E k \in n .. Len(bus) : bus[k].type = "stopping"
Shows(h, s) == s = server /\ Serving(h)

(* What comes to be listed belongs to the configured server, or a flush    *)
(* that comes after it removes it.                                         *)
ZonesFit(h) ==
    lost \/ orphaned \/
    /\ \A i \in 1 .. Len(ingress) :
          /\ ingress[i].by[2] \in Live(ingress[i].by[1])
          /\ ingress[i].update.type = "zone" => ingress[i].update.server = server
    /\ \A s \in listed : Shows(h, s) \/ Flushed(h, 1)
    /\ \A k \in 1 .. Len(bus) : bus[k].type = "zone" => Shows(h, bus[k].server) \/ Flushed(h, k)

Worker == [phase : {"none", "first", "connecting", "up"}, poll : Servers \cup {NoServer},
           out : Seq(Update)]
Request == [todo : Seq(Steps), old : Toggles, new : Toggles, applied : Seq(Providers),
            hides : BOOLEAN, back : BOOLEAN, token : Tokens \cup {NoToken},
            join : Tokens \cup {NoToken}]
(* The types of the variables other than worker and handler.               *)
OthersTyped ==
    /\ disk \in [on : Toggles, hidden : BOOLEAN]
    /\ enabled \in [Adapters -> BOOLEAN] /\ running \in [Adapters -> BOOLEAN]
    /\ flag \in [Adapters -> BOOLEAN]
    /\ token \in [Observers -> Tokens \cup {NoToken}]
    /\ cancelled \in [Observers -> SUBSET (Tokens \cup {NoToken})]
    /\ task \in [Observers -> Tokens \cup {NoToken}]
    /\ server \in Servers \cup {NoServer} /\ known \subseteq Servers
    /\ ingress \in Seq([by : Observers \X Tokens, update : Update])
    /\ bus \in Seq(Update \cup [type : {"stopping"}, server : {NoServer}])
    /\ Len(bus) <= BusCapacity
    /\ listed \subseteq Servers
    /\ requests \in 0 .. MaxRequests
    /\ {lost, orphaned} \subseteq BOOLEAN /\ unsaved \in BOOLEAN
    /\ lags \in 0 .. MaxLags

Typed ==
    /\ OthersTyped
    /\ worker \in [Observers -> [Tokens -> Worker]]
    /\ handler \in [Handlers -> Request]

Fits(h) ==
    /\ PlanFits(h) /\ AppliedFits(h) /\ ServerNamed(h) /\ TokensSuffice(h) /\ WorkersFit(h)
    /\ OffFits(h) /\ SavedFits(h) /\ ZonesFit(h)

(* All that has to be shown of a step.                                     *)
Good(h) == Typed /\ ObservedFits /\ Fits(h)

(* No other request is being served.                                       *)
Alone(h) == \A g \in Handlers : g # h => handler[g] = Idle

IInv == crossed \/ \E h \in Handlers : Alone(h) /\ Good(h)
-------------------------------------------------------------------------------
(* Steps and their stages *)

(* The stage of each step that occurs.                                     *)
LEMMA StageValues ==
    /\ Stage(Step("toggle", "lms")) = 1 /\ Step("toggle", "lms") \in Steps
    /\ Stage(Step("restore", "lms")) = 2 /\ Step("restore", "lms") \in Steps
    /\ Stage(Step("unsave", "lms")) = 3 /\ Step("unsave", "lms") \in Steps
    /\ Stage(Step("cancel", Main)) = 11 /\ Step("cancel", Main) \in Steps
    /\ Stage(Step("join", Main)) = 12 /\ Step("join", Main) \in Steps
    /\ Stage(Step("stopped", Main)) = 13 /\ Step("stopped", Main) \in Steps
    /\ Stage(Step("cancel", Companion)) = 14 /\ Step("cancel", Companion) \in Steps
    /\ Stage(Step("join", Companion)) = 15 /\ Step("join", Companion) \in Steps
    /\ Stage(Step("stopped", Companion)) = 16 /\ Step("stopped", Companion) \in Steps
    /\ Stage(Step("flush", "lms")) = 17 /\ Step("flush", "lms") \in Steps
    /\ Stage(Step("untrack", Main)) = 18 /\ Step("untrack", Main) \in Steps
    /\ Stage(Step("untrack", Companion)) = 19 /\ Step("untrack", Companion) \in Steps
    /\ Stage(Step("await", "lms")) = 20 /\ Step("await", "lms") \in Steps
    /\ Stage(Step("configure", "lms")) = 21 /\ Step("configure", "lms") \in Steps
    /\ Stage(Step("mark", "lms")) = 22 /\ Step("mark", "lms") \in Steps
    /\ Stage(Step("enable", "lms")) = 23 /\ Step("enable", "lms") \in Steps
    /\ Stage(Step("claim", Main)) = 24 /\ Step("claim", Main) \in Steps
    /\ Stage(Step("token", Main)) = 25 /\ Step("token", Main) \in Steps
    /\ Stage(Step("spawn", Main)) = 26 /\ Step("spawn", Main) \in Steps
    /\ Stage(Step("track", Main)) = 27 /\ Step("track", Main) \in Steps
    /\ Stage(Step("claim", Companion)) = 28 /\ Step("claim", Companion) \in Steps
    /\ Stage(Step("token", Companion)) = 29 /\ Step("token", Companion) \in Steps
    /\ Stage(Step("spawn", Companion)) = 30 /\ Step("spawn", Companion) \in Steps
    /\ Stage(Step("track", Companion)) = 31 /\ Step("track", Companion) \in Steps
    /\ Stage(Step("toggle", "hqplayer")) = 41 /\ Step("toggle", "hqplayer") \in Steps
    /\ Stage(Step("restore", "hqplayer")) = 42 /\ Step("restore", "hqplayer") \in Steps
    /\ Stage(Step("stopped", "hqplayer")) = 43 /\ Step("stopped", "hqplayer") \in Steps
    /\ Stage(Step("flush", "hqplayer")) = 44 /\ Step("flush", "hqplayer") \in Steps
    /\ Stage(Step("untrack", "hqplayer")) = 45 /\ Step("untrack", "hqplayer") \in Steps
    /\ Stage(Step("claim", "hqplayer")) = 46 /\ Step("claim", "hqplayer") \in Steps
    /\ Stage(Step("track", "hqplayer")) = 47 /\ Step("track", "hqplayer") \in Steps
BY DEF Stage, MainStage, CompanionStage, HqplayerStage, Step, Steps, Adapters, Observers,
       Providers, Main, Companion

(* Every step that has a stage is one of these.                            *)
LEMMA StagesOf ==
    ASSUME NEW s \in Steps, Stage(s) # 0
    PROVE  \/ s.who = "lms" /\ <<s.do, Stage(s)>> \in
                {<<"toggle", 1>>, <<"restore", 2>>, <<"unsave", 3>>, <<"cancel", 11>>, <<"join", 12>>,
                 <<"stopped", 13>>, <<"flush", 17>>, <<"untrack", 18>>, <<"await", 20>>,
                 <<"configure", 21>>, <<"mark", 22>>, <<"enable", 23>>, <<"claim", 24>>,
                 <<"token", 25>>, <<"spawn", 26>>, <<"track", 27>>}
           \/ s.who = Companion /\ <<s.do, Stage(s)>> \in
                {<<"cancel", 14>>, <<"join", 15>>, <<"stopped", 16>>, <<"untrack", 19>>,
                 <<"claim", 28>>, <<"token", 29>>, <<"spawn", 30>>, <<"track", 31>>}
           \/ s.who = "hqplayer" /\ <<s.do, Stage(s)>> \in
                {<<"toggle", 41>>, <<"restore", 42>>, <<"stopped", 43>>, <<"flush", 44>>,
                 <<"untrack", 45>>, <<"claim", 46>>, <<"track", 47>>}
<1>1. s.who \in {Main, Companion, "hqplayer"}
    BY DEF Steps, Adapters, Observers, Providers, Main, Companion
<1>2. CASE s.who = Main
    BY <1>2 DEF Stage, MainStage, Steps, Main, Companion
<1>3. CASE s.who = Companion
    BY <1>3 DEF Stage, CompanionStage, Steps, Main, Companion
<1>4. CASE s.who = "hqplayer"
    BY <1>4 DEF Stage, HqplayerStage, Steps, Main, Companion
<1> QED BY <1>1, <1>2, <1>3, <1>4

(* Two lists in a row.                                                     *)
LEMMA Joined ==
    ASSUME NEW S, NEW a \in Seq(S), NEW b \in Seq(S)
    PROVE  /\ a \o b \in Seq(S) /\ Len(a \o b) = Len(a) + Len(b)
           /\ \A i \in 1 .. Len(a) + Len(b) :
                 (a \o b)[i] = IF i <= Len(a) THEN a[i] ELSE b[i - Len(a)]
OBVIOUS

(* A list of n steps at the stages that come after the stage c.            *)
Numbered(s, c, n) ==
    s \in Seq(Steps) /\ Len(s) = n /\ \A i \in 1 .. n : Stage(s[i]) = c + i

(* Two numbered lists, the second following the first, make one.           *)
LEMMA NumberedJoined ==
    ASSUME NEW a, NEW b, NEW c \in Nat, NEW m \in Nat, NEW n \in Nat, NEW d,
           Numbered(a, c, m), Numbered(b, d, n), d = c + m
    PROVE  Numbered(a \o b, c, m + n)
<1>1. a \in Seq(Steps) /\ b \in Seq(Steps) /\ Len(a) = m /\ Len(b) = n
    BY DEF Numbered
<1>2. /\ a \o b \in Seq(Steps) /\ Len(a \o b) = Len(a) + Len(b)
      /\ \A i \in 1 .. Len(a) + Len(b) :
            (a \o b)[i] = IF i <= Len(a) THEN a[i] ELSE b[i - Len(a)]
    BY Zenon, <1>1, Joined
<1>3. ASSUME NEW i \in 1 .. m + n
      PROVE  Stage((a \o b)[i]) = c + i
  <2>1. (a \o b)[i] = IF i <= m THEN a[i] ELSE b[i - m]
      BY Zenon, <1>1, <1>2
  <2>2. CASE i <= m
    <3>1. Stage(a[i]) = c + i
        BY <2>2 DEF Numbered
    <3> QED BY <2>1, <2>2, <3>1
  <2>3. CASE ~(i <= m)
    <3>1. i - m \in 1 .. n
        BY <2>3
    <3>2. Stage(b[i - m]) = (c + m) + (i - m)
        BY <3>1 DEF Numbered
    <3> QED BY <2>1, <2>3, <3>2
  <2> QED BY <2>2, <2>3
<1>4. Len(a \o b) = m + n
    BY <1>1, <1>2
<1> QED BY <1>2, <1>3, <1>4 DEF Numbered

(* The lists that a request is made of.                                    *)
LEMMA StartStages ==
    /\ Numbered(StartOne(Main), 23, 4) /\ Numbered(StartOne(Companion), 27, 4)
    /\ Numbered(StartGroup("hqplayer"), 45, 2)
<1> DEFINE list(o) == <<Step("claim", o), Step("token", o), Step("spawn", o), Step("track", o)>>
<1>1. StartOne(Main) = list(Main) /\ StartOne(Companion) = list(Companion)
    BY DEF StartOne, Observers
<1>2. Numbered(list(Main), 23, 4)
    BY StageValues DEF Numbered
<1>3. Numbered(list(Companion), 27, 4)
    BY StageValues DEF Numbered
<1> HIDE DEF list
<1>4. StartGroup("hqplayer") = <<Step("claim", "hqplayer"), Step("track", "hqplayer")>>
    BY DEF StartGroup, StartOne, Observers, Main, Companion
<1>5. Numbered(<<Step("claim", "hqplayer"), Step("track", "hqplayer")>>, 45, 2)
    BY StageValues DEF Numbered
<1> QED BY <1>1, <1>2, <1>3, <1>4, <1>5

(* The steps that start LMS are stages 24 to 31.                           *)
LEMMA StartLms == Numbered(StartGroup("lms"), 23, 8)
<1>1. StartGroup("lms") = StartOne(Main) \o StartOne(Companion)
    BY DEF StartGroup
<1>2. Numbered(StartOne(Main) \o StartOne(Companion), 23, 8)
    BY StartStages, NumberedJoined
<1> QED BY <1>1, <1>2

(* The stages of the steps that stop an adapter.                           *)
LEMMA StopStages ==
    /\ Numbered(StopOne(Main), 10, 3) /\ Numbered(StopOne(Companion), 13, 3)
    /\ Numbered(StopOne("hqplayer"), 42, 1)
<1> DEFINE list(o) == <<Step("cancel", o), Step("join", o), Step("stopped", o)>>
<1>1. StopOne(Main) = list(Main) /\ StopOne(Companion) = list(Companion)
    BY DEF StopOne, Observers
<1>2. Numbered(list(Main), 10, 3)
    BY StageValues DEF Numbered
<1>3. Numbered(list(Companion), 13, 3)
    BY StageValues DEF Numbered
<1> HIDE DEF list
<1>4. StopOne("hqplayer") = <<Step("stopped", "hqplayer")>>
    BY DEF StopOne, Observers, Main, Companion
<1>5. Numbered(<<Step("stopped", "hqplayer")>>, 42, 1)
    BY StageValues DEF Numbered
<1> QED BY <1>1, <1>2, <1>3, <1>4, <1>5

(* The steps that stop LMS are stages 11 to 19.                            *)
LEMMA StopLms == Numbered(StopGroup("lms"), 10, 9)
<1> DEFINE ends == <<Step("flush", "lms"), Step("untrack", Main), Step("untrack", Companion)>>
<1>1. Numbered(ends, 16, 3)
    BY StageValues DEF Numbered
<1>2. StopGroup("lms") = (StopOne(Main) \o StopOne(Companion)) \o ends
    BY DEF StopGroup
<1> HIDE DEF ends
<1>3. Numbered(StopOne(Main) \o StopOne(Companion), 10, 6)
    BY StopStages, NumberedJoined
<1>4. Numbered((StopOne(Main) \o StopOne(Companion)) \o ends, 10, 9)
    BY <1>1, <1>3, NumberedJoined
<1> QED BY <1>2, <1>4

(* The steps that stop HQPlayer are stages 43 to 45.                       *)
LEMMA StopHqplayer == Numbered(StopGroup("hqplayer"), 42, 3)
<1> DEFINE ends == <<Step("flush", "hqplayer"), Step("untrack", "hqplayer")>>
<1>1. Numbered(ends, 43, 2)
    BY StageValues DEF Numbered
<1>2. StopGroup("hqplayer") = StopOne("hqplayer") \o ends
    BY DEF StopGroup
<1> HIDE DEF ends
<1>3. Numbered(StopOne("hqplayer") \o ends, 42, 3)
    BY <1>1, StopStages, NumberedJoined
<1> QED BY <1>2, <1>3

(* The steps that configure the server are stages 11 to 31.                *)
LEMMA ConfigurationStages == Numbered(Configuration, 10, 21)
<1> DEFINE middle == <<Step("await", "lms"), Step("configure", "lms"), Step("mark", "lms"),
                       Step("enable", "lms")>>
<1>1. Numbered(middle, 19, 4)
    BY StageValues DEF Numbered
<1>2. \/ Configuration = StopGroup("lms") \o (middle \o StartGroup("lms"))
      \/ Configuration = (StopGroup("lms") \o middle) \o StartGroup("lms")
    BY DEF Configuration
<1> HIDE DEF middle
<1>3. Numbered(middle \o StartGroup("lms"), 19, 12)
    BY <1>1, StartLms, NumberedJoined
<1>4. Numbered(StopGroup("lms") \o middle, 10, 13)
    BY <1>1, StopLms, NumberedJoined
<1>5. Numbered(StopGroup("lms") \o (middle \o StartGroup("lms")), 10, 21)
    BY <1>3, StopLms, NumberedJoined
<1>6. Numbered((StopGroup("lms") \o middle) \o StartGroup("lms"), 10, 21)
    BY <1>4, StartLms, NumberedJoined
<1> QED BY <1>2, <1>5, <1>6
-------------------------------------------------------------------------------
(* How a request goes on *)

(* What a request remembers of how it began is the same.                   *)
Same(h) ==
    /\ handler'[h].old = handler[h].old /\ handler'[h].new = handler[h].new
    /\ handler'[h].hides = handler[h].hides /\ handler'[h].back = handler[h].back

(* The request goes on to the stage after m, or ends with m.               *)
Moved(h, m) ==
    \/ handler'[h] = Idle /\ At(h)' = 0 /\ m = Last(h)
    \/ /\ Same(h) /\ Leads(m, At(h)') /\ StepFits(h, At(h)') /\ Last(h)' = Last(h)
       /\ \A k \in {2, 42} : Restores(h, k) => Restores(h, k)'

(* What is left of a list.                                                 *)
LEMMA Left ==
    ASSUME NEW s \in Seq(Steps), NEW n \in 1 .. Len(s)
    PROVE  /\ SubSeq(s, n + 1, Len(s)) \in Seq(Steps)
           /\ Len(SubSeq(s, n + 1, Len(s))) = Len(s) - n
           /\ \A i \in 1 .. Len(s) - n : SubSeq(s, n + 1, Len(s))[i] = s[n + i]
OBVIOUS

(* What is left of a list after its first step.                            *)
LEMMA LeftByOne ==
    ASSUME NEW s \in Seq(Steps), s # <<>>
    PROVE  /\ Tail(s) \in Seq(Steps) /\ Len(s) \in Nat \ {0} /\ Len(Tail(s)) = Len(s) - 1
           /\ \A i \in 1 .. Len(s) - 1 : Tail(s)[i] = s[1 + i]
           /\ Tail(s) = <<>> <=> Len(s) = 1
           /\ Head(s) = s[1] /\ Head(s) \in Steps
<1>1. Len(s) \in Nat \ {0} /\ Tail(s) \in Seq(Steps) /\ Len(Tail(s)) = Len(s) - 1
    OBVIOUS
<1>2. ASSUME NEW i \in 1 .. Len(s) - 1
      PROVE  Tail(s)[i] = s[1 + i]
  <2>1. i \in 1 .. Len(Tail(s)) /\ i + 1 = 1 + i
      BY <1>1
  <2>2. Tail(s)[i] = s[i + 1]
      BY <2>1, HeadTailProperties
  <2> QED BY <2>1, <2>2
<1>3. Tail(s) = <<>> <=> Len(s) = 1
  <2>1. Tail(s) = <<>> <=> Len(Tail(s)) = 0
      BY Zenon, <1>1, EmptySeq
  <2> QED BY <1>1, <2>1
<1>4. Head(s) = s[1] /\ s[1] \in Steps
    BY <1>1
<1> QED BY <1>1, <1>2, <1>3, <1>4

(* The request drops its next n steps.                                     *)
LEMMA Advance ==
    ASSUME NEW h \in Handlers, Typed, PlanFits(h), (handler \in [Handlers -> Request])',
           NEW n \in 1 .. Len(handler[h].todo),
           \/ n = Len(handler[h].todo) /\ handler'[h] = Idle
           \/ /\ Same(h) /\ n < Len(handler[h].todo)
              /\ Len(handler'[h].todo) = Len(handler[h].todo) - n
              /\ \A i \in 1 .. Len(handler[h].todo) - n :
                    handler'[h].todo[i] = handler[h].todo[n + i],
           \A i \in 1 .. n : Stage(handler[h].todo[i]) \notin {2, 42}
    PROVE  PlanFits(h)' /\ Moved(h, Stage(handler[h].todo[n]))
<1> DEFINE s == handler[h].todo
<1> DEFINE t == handler'[h].todo
<1>1. s \in Seq(Steps) /\ t \in Seq(Steps)
    BY DEF Typed, Request
<1>2. CASE n = Len(s) /\ handler'[h] = Idle
  <2>1. t = <<>> /\ Idle.todo = <<>>
      BY <1>2 DEF Idle
  <2>2. At(h)' = 0 /\ PlanFits(h)'
      BY <1>2, <2>1 DEF At, PlanFits
  <2>3. s # <<>>
      BY <1>1, <1>2
  <2> QED BY <1>2, <2>2, <2>3 DEF Moved, Last
<1>3. CASE n < Len(s) /\ Same(h) /\ Len(t) = Len(s) - n /\ \A i \in 1 .. Len(s) - n : t[i] = s[n + i]
  <2>1. s # <<>> /\ t # <<>> /\ Len(s) \in Nat /\ Len(t) \in Nat \ {0}
      BY <1>1, <1>3
  <2>2. \A i \in 1 .. Len(t) : t[i] = s[n + i] /\ n + i \in 1 .. Len(s)
      BY <1>3, <2>1
  <2>3. \A k : StepFits(h, k) => StepFits(h, k)'
      BY <1>3 DEF StepFits, Same, Toggling
  <2>4. \A i \in 1 .. Len(t) : StepFits(h, Stage(t[i]))
      BY <2>2 DEF PlanFits
  <2>5. (\A i \in 1 .. Len(handler[h].todo) : StepFits(h, Stage(handler[h].todo[i])))'
      BY <2>3, <2>4
  <2>6. At(h)' = Stage(t[1]) /\ t[1] = s[n + 1] /\ At(h)' # 0
    <3>1. At(h)' = Stage(t[1])
        BY <2>1 DEF At
    <3>2. 1 \in 1 .. Len(t)
        BY <2>1
    <3> QED BY <2>2, <2>4, <3>1, <3>2 DEF StepFits
  <2>7. Last(h)' = Last(h)
    <3>1. t[Len(t)] = s[Len(s)]
        BY SMTT(30), <1>3, <2>1
    <3> QED BY <2>1, <3>1 DEF Last
  <2>8. Leads(Stage(s[n]), At(h)')
      BY <1>3, <2>6 DEF PlanFits
  <2>9. ASSUME NEW i \in 1 .. Len(t), i < Len(t)
        PROVE  Leads(Stage(t[i]), Stage(t[i + 1]))
    <3>1. t[i] = s[n + i] /\ t[i + 1] = s[(n + i) + 1] /\ n + i \in 1 .. Len(s) /\ n + i < Len(s)
        BY <1>3, <2>1, <2>9
    <3> QED BY <3>1 DEF PlanFits
  <2>10. At(h) # 0
    <3>1. 1 \in 1 .. Len(s)
        BY <2>1, <1>3
    <3> QED BY <2>1, <3>1 DEF At, PlanFits, StepFits
  <2>11. PlanFits(h)'
    <3>1. /\ Last(h) \in Final
          /\ Last(h) = 19 => Toggling(h)
          /\ handler[h].back => Last(h) = 3
        BY <2>10 DEF PlanFits
    <3>2. /\ (Last(h) \in Final)' /\ (Last(h) = 19 => Toggling(h))'
          /\ (handler[h].back => Last(h) = 3)'
        BY <1>3, <2>7, <3>1 DEF Same, Final, Toggling
    <3>3. (\A i \in 1 .. Len(handler[h].todo) :
              i < Len(handler[h].todo) =>
                 Leads(Stage(handler[h].todo[i]), Stage(handler[h].todo[i + 1])))'
        BY <2>9
    <3>4. (handler[h].todo = <<>> => handler[h] = Idle)'
        BY <2>1
    <3>5. (At(h) # 0 => /\ Last(h) \in Final
                        /\ Last(h) = 19 => Toggling(h)
                        /\ handler[h].back => Last(h) = 3)'
        BY <3>2
    <3> QED BY <2>5, <3>3, <3>4, <3>5 DEF PlanFits
  <2>12. ASSUME NEW k \in {2, 42}, Restores(h, k)
         PROVE  Restores(h, k)'
    <3>1. PICK i \in 1 .. Len(s) : Stage(s[i]) = k
        BY <2>12 DEF Restores
    <3>2. i > n
        BY <2>12, <3>1, <2>1
    <3>3. i - n \in 1 .. Len(t) /\ n + (i - n) = i
        BY <1>3, <2>1, <3>2
    <3>4. Stage(t[i - n]) = k
        BY <2>2, <3>1, <3>3
    <3> QED BY <3>3, <3>4 DEF Restores
  <2>13. StepFits(h, At(h)')
      BY <2>1, <2>4, <2>6
  <2> QED BY <1>3, <2>7, <2>8, <2>11, <2>12, <2>13 DEF Moved
<1> QED BY <1>2, <1>3

(* The stages of a list when m stages after c take the place of its first. *)
Splices(e, l, f, n, c, m) ==
    /\ l = m + (n - 1)
    /\ \A i \in 1 .. l : e[i] = IF i <= m THEN c + i ELSE f[(i - m) + 1]
Path(A, f, n) ==
    /\ \A i \in 1 .. n : f[i] \in A
    /\ \A i \in 1 .. n : i < n => Leads(f[i], f[i + 1])
Run(A, c, m) ==
    /\ \A i \in 1 .. m : c + i \in A
    /\ \A i \in 1 .. m : i < m => Leads(c + i, (c + i) + 1)
Enters(f, n, c, m) == n # 1 => Leads(c + m, f[2])
Spliced(e, l, f, n, c, m) ==
    /\ e[1] = c + 1 /\ l \in Nat \ {0}
    /\ e[l] = IF n = 1 THEN c + m ELSE f[n]
    /\ \A i \in 2 .. n : \E j \in 1 .. l : e[j] = f[i]

(* The stages still form a path when a run takes the place of the first.   *)
LEMMA InsertNumbers ==
    ASSUME NEW A, NEW n \in Nat \ {0}, NEW m \in Nat \ {0}, NEW c \in Nat,
           NEW f, NEW e, NEW l,
           Splices(e, l, f, n, c, m), Path(A, f, n), Run(A, c, m), Enters(f, n, c, m)
    PROVE  Path(A, e, l) /\ Spliced(e, l, f, n, c, m)
<1> USE DEF Splices, Path, Run, Enters, Spliced
<1>1. ASSUME NEW i \in 1 .. l
      PROVE  e[i] \in A
  <2>1. CASE i <= m
      BY <2>1
  <2>2. CASE ~(i <= m)
    <3>1. (i - m) + 1 \in 1 .. n
        BY <2>2
    <3> QED BY <2>2, <3>1
  <2> QED BY <2>1, <2>2
<1>2. ASSUME NEW i \in 1 .. l, i < l
      PROVE  Leads(e[i], e[i + 1])
  <2>1. i + 1 \in 1 .. l
      BY <1>2
  <2>2. CASE i < m
    <3>1. e[i] = c + i /\ e[i + 1] = (c + i) + 1
        BY <2>1, <2>2
    <3> QED BY <2>2, <3>1
  <2>3. CASE i = m
    <3>1. n # 1 /\ e[i] = c + m /\ ((i + 1) - m) + 1 = 2 /\ ~(i + 1 <= m)
        BY <1>2, <2>3
    <3>2. e[i + 1] = f[2]
        BY <2>1, <3>1
    <3> QED BY <3>1, <3>2
  <2>4. CASE i > m
    <3>1. ((i + 1) - m) + 1 = ((i - m) + 1) + 1 /\ (i - m) + 1 \in 1 .. n /\ (i - m) + 1 < n
        BY <1>2, <2>4
    <3>2. e[i] = f[(i - m) + 1] /\ e[i + 1] = f[((i - m) + 1) + 1]
        BY <2>1, <2>4, <3>1
    <3> QED BY <3>1, <3>2
  <2> QED BY <2>2, <2>3, <2>4
<1>3. e[1] = c + 1 /\ l \in 1 .. l
  <2>1. 1 \in 1 .. l /\ 1 <= m
      OBVIOUS
  <2> QED BY <2>1
<1>4. e[l] = IF n = 1 THEN c + m ELSE f[n]
  <2>1. CASE n = 1
      BY <1>3, <2>1
  <2>2. CASE n # 1
    <3>1. ~(l <= m) /\ (l - m) + 1 = n
        BY <2>2
    <3> QED BY <1>3, <2>2, <3>1
  <2> QED BY <2>1, <2>2
<1>5. ASSUME NEW i \in 2 .. n
      PROVE  \E j \in 1 .. l : e[j] = f[i]
  <2>1. (i + m) - 1 \in 1 .. l /\ ~((i + m) - 1 <= m) /\ (((i + m) - 1) - m) + 1 = i
      OBVIOUS
  <2>2. e[(i + m) - 1] = f[i]
      BY <2>1
  <2> QED BY <2>1, <2>2
<1> QED BY <1>1, <1>2, <1>3, <1>4, <1>5

(* A list of more than one step has a second.                              *)
LEMMA Second ==
    \A n \in Nat \ {0} : n # 1 => 2 \in 1 .. n /\ 1 \in 1 .. n /\ 1 < n
OBVIOUS

(* The stages of a list whose first step a numbered list replaces.         *)
LEMMA Inserted ==
    ASSUME NEW s \in Seq(Steps), s # <<>>, NEW g, NEW c \in Nat, NEW m \in Nat \ {0},
           Numbered(g, c, m)
    PROVE  /\ g \o Tail(s) \in Seq(Steps) /\ Len(g \o Tail(s)) = m + (Len(s) - 1)
           /\ \A i \in 1 .. m + (Len(s) - 1) :
                 Stage((g \o Tail(s))[i]) = IF i <= m THEN c + i ELSE Stage(s[(i - m) + 1])
<1>1. g \in Seq(Steps) /\ Len(g) = m
    BY DEF Numbered
<1>2. /\ Tail(s) \in Seq(Steps) /\ Len(s) \in Nat \ {0} /\ Len(Tail(s)) = Len(s) - 1
      /\ \A i \in 1 .. Len(s) - 1 : Tail(s)[i] = s[1 + i]
    BY LeftByOne
<1> DEFINE b == Tail(s)
<1> HIDE DEF b
<1>3. /\ g \o b \in Seq(Steps) /\ Len(g \o b) = Len(g) + Len(b)
      /\ \A i \in 1 .. Len(g) + Len(b) :
            (g \o b)[i] = IF i <= Len(g) THEN g[i] ELSE b[i - Len(g)]
  <2>1. b \in Seq(Steps)
      BY <1>2 DEF b
  <2> QED BY Zenon, <1>1, <2>1, Joined
<1>4. /\ g \o b \in Seq(Steps) /\ Len(g \o b) = m + (Len(s) - 1)
      /\ \A i \in 1 .. m + (Len(s) - 1) : (g \o b)[i] = IF i <= m THEN g[i] ELSE b[i - m]
  <2>1. Len(b) = Len(s) - 1
      BY <1>2 DEF b
  <2> QED BY Zenon, <1>1, <1>3, <2>1
<1>5. ASSUME NEW i \in 1 .. m + (Len(s) - 1)
      PROVE  Stage((g \o b)[i]) = IF i <= m THEN c + i ELSE Stage(s[(i - m) + 1])
  <2>1. (g \o b)[i] = IF i <= m THEN g[i] ELSE b[i - m]
      BY Zenon, <1>4
  <2>2. CASE i <= m
    <3>1. Stage(g[i]) = c + i
        BY <2>2 DEF Numbered
    <3> QED BY <2>1, <2>2, <3>1
  <2>3. CASE ~(i <= m)
    <3>1. i - m \in 1 .. Len(s) - 1 /\ 1 + (i - m) = (i - m) + 1
        BY <1>2, <2>3
    <3>2. b[i - m] = s[1 + (i - m)]
        BY <1>2, <3>1 DEF b
    <3>3. b[i - m] = s[(i - m) + 1]
        BY <3>1, <3>2
    <3> QED BY <2>1, <2>3, <3>3
  <2> QED BY <2>2, <2>3
<1> QED BY <1>4, <1>5 DEF b

(* A list of steps takes the place of the request's next step.             *)
Inserts(h, g) == handler[h].todo # <<>> /\ handler'[h].todo = g \o Rest(h)
Resumes(h, n) ==
    IF Len(handler[h].todo) = 1
    THEN n \in Final /\ (n = 19 => Toggling(h)) /\ ~handler[h].back
    ELSE Leads(n, Stage(handler[h].todo[2]))

Fitting(h, c, m) ==
    /\ \A i \in 1 .. m : StepFits(h, c + i)
    /\ \A i \in 1 .. m : i < m => Leads(c + i, (c + i) + 1)

(* A request whose next step is replaced by a numbered list keeps a plan.  *)
LEMMA Insert ==
    ASSUME NEW h \in Handlers, Typed, PlanFits(h), (handler \in [Handlers -> Request])',
           NEW g, NEW c \in Nat, NEW m \in Nat \ {0}, Numbered(g, c, m), Fitting(h, c, m),
           Inserts(h, g), Resumes(h, c + m), Same(h)
    PROVE  /\ PlanFits(h)' /\ At(h)' = c + 1
           /\ Last(h)' = IF Len(handler[h].todo) = 1 THEN c + m ELSE Last(h)
           /\ \A k : Restores(h, k) /\ k # At(h) => Restores(h, k)'
<1> DEFINE s == handler[h].todo
<1> DEFINE t == handler'[h].todo
<1> DEFINE A == {k \in {Stage(s[i]) : i \in 1 .. Len(s)} \cup {c + i : i \in 1 .. m} : StepFits(h, k)}
<1> DEFINE f == [i \in 1 .. Len(s) |-> Stage(s[i])]
<1> DEFINE e == [i \in 1 .. Len(t) |-> Stage(t[i])]
<1>1. s \in Seq(Steps) /\ t \in Seq(Steps) /\ Len(s) \in Nat \ {0} /\ s # <<>>
  <2>1. s \in Seq(Steps) /\ t \in Seq(Steps) /\ s # <<>>
      BY DEF Typed, Request, Inserts
  <2> QED BY Zenon, <2>1, LeftByOne
<1>2. /\ Len(t) = m + (Len(s) - 1)
      /\ \A i \in 1 .. m + (Len(s) - 1) :
            Stage(t[i]) = IF i <= m THEN c + i ELSE Stage(s[(i - m) + 1])
  <2>1. t = g \o Tail(s)
      BY Zenon DEF Rest, Inserts
  <2>2. ASSUME NEW r \in Seq(Steps), r # <<>>
        PROVE  /\ Len(g \o Tail(r)) = m + (Len(r) - 1)
               /\ \A i \in 1 .. m + (Len(r) - 1) :
                     Stage((g \o Tail(r))[i]) = IF i <= m THEN c + i ELSE Stage(r[(i - m) + 1])
      BY Inserted, <2>2
  <2> QED BY Zenon, <1>1, <2>1, <2>2
<1>3. Path(A, f, Len(s))
  <2>1. ASSUME NEW i \in 1 .. Len(s)
        PROVE  f[i] \in A
      BY DEF PlanFits
  <2>2. ASSUME NEW i \in 1 .. Len(s), i < Len(s)
        PROVE  Leads(f[i], f[i + 1])
    <3>1. i + 1 \in 1 .. Len(s)
        BY <1>1, <2>2
    <3>2. Leads(Stage(s[i]), Stage(s[i + 1]))
        BY <2>2 DEF PlanFits
    <3> QED BY <3>1, <3>2
  <2> QED BY Zenon, <2>1, <2>2 DEF Path
<1>4. Run(A, c, m)
  <2>1. ASSUME NEW i \in 1 .. m
        PROVE  c + i \in A
      BY DEF Fitting
  <2> QED BY Zenon, <2>1 DEF Run, Fitting
<1>5. Enters(f, Len(s), c, m)
  <2> SUFFICES ASSUME Len(s) # 1
               PROVE  Leads(c + m, f[2])
      BY Zenon DEF Enters
  <2>1. 2 \in 1 .. Len(s)
      BY Zenon, <1>1, Second
  <2>2. f[2] = Stage(s[2])
      BY <2>1
  <2> QED BY <2>2 DEF Resumes
<1>6. Splices(e, Len(t), f, Len(s), c, m)
  <2> SUFFICES ASSUME NEW i \in 1 .. Len(t)
               PROVE  e[i] = IF i <= m THEN c + i ELSE f[(i - m) + 1]
      BY <1>2 DEF Splices
  <2>1. e[i] = Stage(t[i]) /\ i \in 1 .. m + (Len(s) - 1)
      BY <1>2
  <2>2. CASE i <= m
      BY <1>2, <2>1, <2>2
  <2>3. CASE ~(i <= m)
    <3>1. (i - m) + 1 \in 1 .. Len(s)
        BY <1>1, <2>1, <2>3
    <3> QED BY <1>2, <2>1, <2>3, <3>1
  <2> QED BY <2>2, <2>3
<1> HIDE DEF A, f, e
<1>7. Path(A, e, Len(t)) /\ Spliced(e, Len(t), f, Len(s), c, m)
    BY Zenon, <1>1, <1>3, <1>4, <1>5, <1>6, InsertNumbers
<1>8. Len(t) \in Nat \ {0} /\ t # <<>>
    BY <1>7 DEF Spliced
<1>9. \A k : StepFits(h, k) => StepFits(h, k)'
    BY DEF StepFits, Same, Toggling
<1>10. (\A i \in 1 .. Len(handler[h].todo) : StepFits(h, Stage(handler[h].todo[i])))'
  <2> SUFFICES ASSUME NEW i \in 1 .. Len(t)
               PROVE  StepFits(h, Stage(t[i]))
      BY <1>9
  <2>1. e[i] \in A /\ e[i] = Stage(t[i])
      BY <1>7 DEF e, Path
  <2> QED BY <2>1 DEF A
<1>11. (\A i \in 1 .. Len(handler[h].todo) :
          i < Len(handler[h].todo) =>
             Leads(Stage(handler[h].todo[i]), Stage(handler[h].todo[i + 1])))'
  <2> SUFFICES ASSUME NEW i \in 1 .. Len(t), i < Len(t)
               PROVE  Leads(Stage(t[i]), Stage(t[i + 1]))
      OBVIOUS
  <2>1. i + 1 \in 1 .. Len(t)
      BY <1>8
  <2>2. e[i] = Stage(t[i]) /\ e[i + 1] = Stage(t[i + 1])
      BY <2>1 DEF e
  <2>3. Leads(e[i], e[i + 1])
      BY <1>7 DEF Path
  <2> QED BY <2>2, <2>3
<1>12. At(h)' = c + 1
  <2>1. 1 \in 1 .. Len(t)
      BY <1>8
  <2>2. e[1] = Stage(t[1])
      BY <2>1 DEF e
  <2> QED BY <1>7, <1>8, <2>2 DEF At, Spliced
<1>13. At(h) # 0
  <2>1. 1 \in 1 .. Len(s)
      BY <1>1
  <2> QED BY <2>1 DEF At, PlanFits, StepFits
<1>14. Last(h)' = IF Len(s) = 1 THEN c + m ELSE Last(h)
  <2>1. Len(t) \in 1 .. Len(t) /\ Len(s) \in 1 .. Len(s)
      BY <1>1, <1>8
  <2>2. e[Len(t)] = Stage(t[Len(t)]) /\ f[Len(s)] = Stage(s[Len(s)])
      BY <2>1 DEF e, f
  <2>3. Last(h)' = Stage(t[Len(t)]) /\ Last(h) = Stage(s[Len(s)])
      BY <1>1, <1>8 DEF Last
  <2>4. e[Len(t)] = IF Len(s) = 1 THEN c + m ELSE f[Len(s)]
      BY <1>7 DEF Spliced
  <2> QED BY <2>2, <2>3, <2>4
<1>15. (At(h) # 0 => /\ Last(h) \in Final
                     /\ Last(h) = 19 => Toggling(h)
                     /\ handler[h].back => Last(h) = 3)'
  <2>1. /\ Last(h) \in Final
        /\ Last(h) = 19 => Toggling(h)
        /\ handler[h].back => Last(h) = 3
      BY <1>13 DEF PlanFits
  <2> QED BY <1>14, <2>1 DEF Same, Final, Toggling, Resumes
<1>16. (handler[h].todo = <<>> => handler[h] = Idle)'
    BY <1>8
<1>17. PlanFits(h)'
    BY <1>10, <1>11, <1>15, <1>16 DEF PlanFits
<1>18. ASSUME NEW k, Restores(h, k), k # At(h)
       PROVE  Restores(h, k)'
  <2>1. PICK i \in 1 .. Len(s) : Stage(s[i]) = k
      BY <1>18 DEF Restores
  <2>2. i \in 2 .. Len(s) /\ f[i] = k
      BY <1>1, <1>18, <2>1 DEF At, f
  <2>3. PICK j \in 1 .. Len(t) : e[j] = k
      BY <1>7, <2>2 DEF Spliced
  <2>4. e[j] = Stage(t[j])
      BY <2>3 DEF e
  <2> QED BY <2>3, <2>4 DEF Restores
<1> QED BY <1>12, <1>14, <1>17, <1>18

(* The step that a request is at.                                          *)
LEMMA StepAt ==
    ASSUME NEW h \in Handlers, Typed, PlanFits(h), handler[h].todo # <<>>
    PROVE  /\ At(h) # 0 /\ StepFits(h, At(h))
           /\ \/ /\ Current(h).who = "lms"
                 /\ <<Current(h).do, At(h)>> \in
                       {<<"toggle", 1>>, <<"restore", 2>>, <<"unsave", 3>>, <<"cancel", 11>>,
                        <<"join", 12>>, <<"stopped", 13>>, <<"flush", 17>>, <<"untrack", 18>>,
                        <<"await", 20>>, <<"configure", 21>>, <<"mark", 22>>, <<"enable", 23>>,
                        <<"claim", 24>>, <<"token", 25>>, <<"spawn", 26>>, <<"track", 27>>}
              \/ /\ Current(h).who = Companion
                 /\ <<Current(h).do, At(h)>> \in
                       {<<"cancel", 14>>, <<"join", 15>>, <<"stopped", 16>>, <<"untrack", 19>>,
                        <<"claim", 28>>, <<"token", 29>>, <<"spawn", 30>>, <<"track", 31>>}
              \/ /\ Current(h).who = "hqplayer"
                 /\ <<Current(h).do, At(h)>> \in
                       {<<"toggle", 41>>, <<"restore", 42>>, <<"stopped", 43>>, <<"flush", 44>>,
                        <<"untrack", 45>>, <<"claim", 46>>, <<"track", 47>>}
<1>1. handler[h].todo \in Seq(Steps)
    BY DEF Typed, Request
<1>2. /\ Len(handler[h].todo) \in Nat \ {0}
      /\ Head(handler[h].todo) = handler[h].todo[1] /\ Head(handler[h].todo) \in Steps
    BY Zenon, <1>1, LeftByOne
<1>3. At(h) = Stage(Current(h)) /\ Current(h) \in Steps
    BY Zenon, <1>2 DEF At, Current
<1>4. 1 \in 1 .. Len(handler[h].todo)
    BY <1>2
<1>5. StepFits(h, At(h))
    BY <1>4 DEF At, PlanFits
<1>6. At(h) # 0
    BY <1>5 DEF StepFits
<1> QED BY <1>3, <1>5, <1>6, StagesOf

(* The stages at which a step of each kind is taken.                       *)
LEMMA StagesDiffer ==
    ASSUME NEW h \in Handlers, Typed, PlanFits(h), handler[h].todo # <<>>
    PROVE  /\ Doing(h, "toggle") => <<Current(h).who, At(h)>> \in
                 {<<Main, 1>>, <<"hqplayer", 41>>}
           /\ Doing(h, "restore") => <<Current(h).who, At(h)>> \in
                 {<<Main, 2>>, <<"hqplayer", 42>>}
           /\ Doing(h, "unsave") => <<Current(h).who, At(h)>> \in
                 {<<Main, 3>>}
           /\ Doing(h, "claim") => <<Current(h).who, At(h)>> \in
                 {<<Main, 24>>, <<Companion, 28>>, <<"hqplayer", 46>>}
           /\ Doing(h, "token") => <<Current(h).who, At(h)>> \in
                 {<<Main, 25>>, <<Companion, 29>>}
           /\ Doing(h, "spawn") => <<Current(h).who, At(h)>> \in
                 {<<Main, 26>>, <<Companion, 30>>}
           /\ Doing(h, "track") => <<Current(h).who, At(h)>> \in
                 {<<Main, 27>>, <<Companion, 31>>, <<"hqplayer", 47>>}
           /\ Doing(h, "untrack") => <<Current(h).who, At(h)>> \in
                 {<<Main, 18>>, <<Companion, 19>>, <<"hqplayer", 45>>}
           /\ Doing(h, "cancel") => <<Current(h).who, At(h)>> \in
                 {<<Main, 11>>, <<Companion, 14>>}
           /\ Doing(h, "join") => <<Current(h).who, At(h)>> \in
                 {<<Main, 12>>, <<Companion, 15>>}
           /\ Doing(h, "stopped") => <<Current(h).who, At(h)>> \in
                 {<<Main, 13>>, <<Companion, 16>>, <<"hqplayer", 43>>}
           /\ Doing(h, "flush") => <<Current(h).who, At(h)>> \in
                 {<<Main, 17>>, <<"hqplayer", 44>>}
           /\ Doing(h, "await") => <<Current(h).who, At(h)>> \in
                 {<<Main, 20>>}
           /\ Doing(h, "configure") => <<Current(h).who, At(h)>> \in
                 {<<Main, 21>>}
           /\ Doing(h, "mark") => <<Current(h).who, At(h)>> \in
                 {<<Main, 22>>}
           /\ Doing(h, "enable") => <<Current(h).who, At(h)>> \in
                 {<<Main, 23>>}
BY StepAt DEF Doing, Main, Companion

(* What a request is left with is of its type.                             *)
LEMMA ContinueTyped ==
    ASSUME NEW h \in Handlers, handler \in [Handlers -> Request], NEW s \in Seq(Steps),
           Continue(h, s)
    PROVE  /\ (handler \in [Handlers -> Request])'
           /\ s = <<>> => handler'[h] = Idle
           /\ s # <<>> => handler'[h] = [handler[h] EXCEPT !.todo = s]
<1>1. Idle \in Request
    BY DEF Idle, Request, Toggles, NoToken
<1>2. [handler[h] EXCEPT !.todo = s] \in Request
    BY DEF Request
<1> QED BY <1>1, <1>2 DEF Continue

(* The request goes on and what it has toggled is the same.                *)
Goes(h, m) ==
    /\ (handler \in [Handlers -> Request])' /\ PlanFits(h)' /\ Moved(h, m)
    /\ At(h)' # 0 => handler'[h].applied = handler[h].applied
Holds(h) == At(h)' # 0 => /\ handler'[h].token = handler[h].token
                          /\ handler'[h].join = handler[h].join

(* A request that continues with the rest goes on from its stage.          *)
LEMMA ContinueGoes ==
    ASSUME NEW h \in Handlers, Typed, PlanFits(h), handler[h].todo # <<>>,
           At(h) \notin {2, 42}, Continue(h, Rest(h))
    PROVE  Goes(h, At(h)) /\ Holds(h)
<1> DEFINE s == handler[h].todo
<1>1. s \in Seq(Steps) /\ handler \in [Handlers -> Request]
    BY DEF Typed, Request
<1>2. /\ Rest(h) \in Seq(Steps) /\ Len(s) \in Nat \ {0} /\ Len(Rest(h)) = Len(s) - 1
      /\ \A i \in 1 .. Len(s) - 1 : Rest(h)[i] = s[1 + i]
      /\ Rest(h) = <<>> <=> Len(s) = 1
    BY Zenon, <1>1, LeftByOne DEF Rest
<1>3. /\ (handler \in [Handlers -> Request])'
      /\ Rest(h) = <<>> => handler'[h] = Idle
      /\ Rest(h) # <<>> => handler'[h] = [handler[h] EXCEPT !.todo = Rest(h)]
    BY Zenon, <1>1, <1>2, ContinueTyped
<1>4. At(h) = Stage(s[1])
    BY Zenon DEF At
<1>5. Rest(h) # <<>> =>
         /\ Same(h) /\ handler'[h].todo = Rest(h) /\ handler'[h].applied = handler[h].applied
         /\ handler'[h].token = handler[h].token /\ handler'[h].join = handler[h].join
    BY <1>1, <1>3 DEF Same, Request
<1>6. Rest(h) = <<>> => At(h)' = 0
    BY <1>3 DEF At, Idle
<1>7. 1 \in 1 .. Len(s) /\ (Rest(h) # <<>> => 1 < Len(s))
    BY <1>2
<1>8. \A i \in 1 .. 1 : Stage(s[i]) \notin {2, 42}
    BY <1>4
<1>9. PlanFits(h)' /\ Moved(h, Stage(s[1]))
  <2>1. CASE Rest(h) = <<>>
    <3>1. 1 = Len(s) /\ handler'[h] = Idle
        BY Zenon, <1>2, <1>3, <2>1
    <3> QED BY Zenon, <1>3, <1>7, <1>8, <3>1, Advance
  <2>2. CASE Rest(h) # <<>>
    <3>1. /\ Same(h) /\ 1 < Len(s) /\ Len(handler'[h].todo) = Len(s) - 1
          /\ \A i \in 1 .. Len(s) - 1 : handler'[h].todo[i] = s[1 + i]
        BY Zenon, <1>2, <1>5, <1>7, <2>2
    <3> QED BY Zenon, <1>3, <1>7, <1>8, <3>1, Advance
  <2> QED BY Zenon, <2>1, <2>2
<1> QED BY Zenon, <1>3, <1>4, <1>5, <1>6, <1>9 DEF Goes, Holds
-------------------------------------------------------------------------------
(* What stays true when a request goes on and little else changes *)

(* The step m comes after the request's next, which skips what a claim or  *)
(* a failed start leaves out.                                              *)
Skips(h, m) ==
    \/ m = At(h)
    \/ At(h) = 24 /\ m = 26
    \/ At(h) = 28 /\ m = 30
    \/ handler[h].back /\ At(h) = 24 /\ m = 31
    \/ handler[h].back /\ At(h) = 46 /\ m = 47

(* A request that has not begun.                                           *)
LEMMA IdleFacts ==
    Idle.todo = <<>> /\ Idle.old = Idle.new /\ Idle.applied = <<>> /\ Idle.back = FALSE
BY DEF Idle

(* What the plan says of the next and of the last step.                    *)
LEMMA FittingStep ==
    ASSUME NEW h \in Handlers, Typed, PlanFits(h), At(h) # 0
    PROVE  /\ handler[h].todo # <<>> /\ StepFits(h, At(h)) /\ StepFits(h, Last(h))
           /\ Last(h) \in Final
           /\ Last(h) = 19 => Toggling(h)
           /\ handler[h].back => Last(h) = 3 /\ Toggling(h)
<1>1. handler[h].todo # <<>>
    BY DEF At
<1>2. StepFits(h, At(h))
    BY <1>1, StepAt
<1>3. handler[h].todo \in Seq(Steps)
    BY DEF Typed, Request
<1>4. Len(handler[h].todo) \in 1 .. Len(handler[h].todo)
  <2>1. Len(handler[h].todo) \in Nat \ {0}
      BY Zenon, <1>1, <1>3, LeftByOne
  <2> QED BY <2>1
<1>5. StepFits(h, Last(h))
    BY <1>1, <1>4 DEF PlanFits, Last
<1>6. /\ Last(h) \in Final
      /\ Last(h) = 19 => Toggling(h)
      /\ handler[h].back => Last(h) = 3
    BY DEF PlanFits
<1>7. handler[h].back => Toggling(h)
    BY <1>5, <1>6 DEF StepFits
<1> QED BY <1>1, <1>2, <1>5, <1>6, <1>7

(* Going on keeps what is known of the toggles applied.                    *)
LEMMA AppliedGoes ==
    ASSUME NEW h \in Handlers, NEW m, Typed, PlanFits(h), AppliedFits(h), Goes(h, m), Skips(h, m), At(h) # 0,
           m \notin {1, 41, 42, 2}
    PROVE  AppliedFits(h)'
<1>1. CASE handler'[h] = Idle /\ At(h)' = 0
    BY <1>1, IdleFacts DEF AppliedFits, Toggling
<1>2. CASE /\ Same(h) /\ Leads(m, At(h)') /\ StepFits(h, At(h)')
  <2>1. /\ At(h)' # 0 /\ handler'[h].applied = handler[h].applied
        /\ (Toggling(h))' = Toggling(h) /\ Same(h)
      BY <1>2 DEF Goes, StepFits, Same, Toggling
  <2>2. StepFits(h, At(h)') /\ Leads(m, At(h)') /\ StepFits(h, At(h))
      BY <1>2, FittingStep
  <2>3. At(h)' # 1
      BY <2>2 DEF Leads
  <2>4. At(h)' = 41 => /\ Toggling(h) /\ ~handler[h].back
                       /\ At(h) \in 11 .. 31
      BY <2>2 DEF Leads, Skips, StepFits, Toggling
  <2>5. At(h)' \in 43 .. 47 => At(h) \in 43 .. 47
      BY <2>2 DEF Leads, Skips
  <2>6. At(h)' \in 11 .. 31 /\ Toggling(h) =>
           /\ At(h) \in 11 .. 31
           /\ At(h)' \in 11 .. 19 => At(h) \in 11 .. 19
           /\ At(h)' \in 24 .. 31 => At(h) \in 24 .. 31
      BY <2>2 DEF Leads, Skips, StepFits
  <2>7. (At(h) = 1 \/ ~Toggling(h) => handler[h].applied = <<>>)'
      BY <2>1, <2>3 DEF AppliedFits
  <2>8. (At(h) = 41 => handler[h].applied \in {<<>>, <<"lms">>})'
      BY <2>1, <2>4 DEF AppliedFits
  <2>9. (~handler[h].back /\ At(h) \in 43 .. 47 =>
             handler[h].applied \in {<<"hqplayer">>, <<"lms", "hqplayer">>})'
      BY <2>1, <2>5 DEF AppliedFits, Same
  <2>10. (~handler[h].back /\ Toggling(h) =>
              /\ At(h) \in 11 .. 31 => handler[h].applied = <<"lms">>
              /\ At(h) \in 11 .. 19 => handler[h].old["lms"]
              /\ At(h) \in 24 .. 31 => ~handler[h].old["lms"])'
      BY SMTT(30), <2>1, <2>6 DEF AppliedFits, Same
  <2> QED BY <2>7, <2>8, <2>9, <2>10 DEF AppliedFits
<1> QED BY <1>1, <1>2 DEF Goes, Moved

(* Going on leaves tokens enough.                                          *)
LEMMA TokensGo ==
    ASSUME NEW h \in Handlers, NEW m, Typed, PlanFits(h), AppliedFits(h), TokensSuffice(h),
           Goes(h, m), Skips(h, m), At(h) # 0, m \notin {1, 41, 42, 2},
           UNCHANGED <<token, requests>>
    PROVE  TokensSuffice(h)'
<1>1. CASE handler'[h] = Idle /\ At(h)' = 0
    BY <1>1 DEF TokensSuffice
<1>2. CASE /\ Same(h) /\ Leads(m, At(h)') /\ StepFits(h, At(h)')
  <2>1. (Toggling(h))' = Toggling(h) /\ handler'[h].old = handler[h].old
      BY <1>2 DEF Same, Toggling
  <2>2. StepFits(h, At(h)') /\ Leads(m, At(h)') /\ StepFits(h, At(h))
      BY <1>2, FittingStep
  <2>3. ASSUME NEW o \in Observers, At(h)' \notin Spent(o),
               handler[h].old["lms"] \/ ~Toggling(h) \/ At(h)' \in {1} \cup 24 .. 31
        PROVE  /\ At(h) \notin Spent(o)
               /\ handler[h].old["lms"] \/ ~Toggling(h) \/ At(h) \in {1} \cup 24 .. 31
    <3>1. CASE At(h)' = 41
      <4>1. Toggling(h) /\ ~handler[h].back /\ m \in {19, 31} /\ At(h) = m
          BY <2>2, <3>1 DEF Leads, StepFits, Toggling, Skips
      <4>2. At(h) # 31
          BY <2>3, <3>1, <4>1 DEF AppliedFits
      <4> QED BY <2>3, <3>1, <4>1, <4>2 DEF Spent
    <3>2. CASE At(h)' # 41
      <4>1. At(h)' # 1 /\ At(h)' # 3
          BY <2>2, <2>3 DEF Leads, Spent
      <4>2. CASE o = Main
          BY <2>2, <2>3, <3>2, <4>1, <4>2 DEF Leads, StepFits, Skips, Spent
      <4>3. CASE o = Companion
          BY <2>2, <2>3, <3>2, <4>1, <4>3 DEF Leads, StepFits, Skips, Spent, Main, Companion
      <4> QED BY <4>2, <4>3 DEF Observers
    <3> QED BY <3>1, <3>2
  <2> QED BY <2>1, <2>3 DEF TokensSuffice
<1> QED BY <1>1, <1>2 DEF Goes, Moved

(* Going on keeps a server named.                                          *)
LEMMA ServerGoes ==
    ASSUME NEW h \in Handlers, NEW m, ServerNamed(h),
           Goes(h, m), m = At(h), At(h) # 0, At(h) \notin {1, 2, 21, 24, 41, 42},
           UNCHANGED server
    PROVE  ServerNamed(h)'
<1>1. CASE handler'[h] = Idle /\ At(h)' = 0
    BY <1>1 DEF ServerNamed
<1>2. CASE /\ Same(h) /\ Leads(m, At(h)') /\ StepFits(h, At(h)')
    BY <1>2 DEF ServerNamed, Same, Leads
<1> QED BY <1>1, <1>2 DEF Goes, Moved

(* Going on keeps the workers that nothing else disturbs.                  *)
LEMMA WorkersGo ==
    ASSUME NEW h \in Handlers, Typed, WorkersFit(h),
           Goes(h, At(h)), Holds(h), At(h) \in {3, 17, 18, 19, 20, 21, 22, 23, 27, 31, 43, 44, 45, 46, 47},
           UNCHANGED <<flag, token, task, worker>>
    PROVE  WorkersFit(h)'
<1>1. \A o \in Observers : Live(o)' = Live(o)
    BY DEF Live
<1>2. At(h)' = 0 \/ Leads(At(h), At(h)')
    BY DEF Goes, Moved
<1>3. At(h)' \notin {12, 15, 25, 26, 29, 30} /\ At(h) \notin {12, 15, 25, 26, 29, 30}
    BY <1>2 DEF Leads
<1>4. ASSUME NEW o \in Observers
      PROVE  /\ At(h) # JoinOf(o) /\ At(h)' # JoinOf(o)
             /\ At(h)' \in NoneAt(o) => At(h) \in NoneAt(o)
    BY <1>2, <1>3 DEF JoinOf, NoneAt, Leads, Observers, Main, Companion
<1>5. At(h)' # 0 => handler'[h].join = handler[h].join
    BY DEF Holds
<1>6. (\A o \in Observers :
          /\ Live(o) \subseteq {token[o]}
          /\ Live(o) # {} => IF At(h) = JoinOf(o) THEN handler[h].join = token[o]
                                                  ELSE task[o] = token[o]
          /\ At(h) \in NoneAt(o) => Live(o) = {}
          /\ ~flag[o] => Live(o) = {} \/ o = Main)'
  <2> SUFFICES ASSUME NEW o \in Observers
               PROVE  (/\ Live(o) \subseteq {token[o]}
                       /\ Live(o) # {} => IF At(h) = JoinOf(o) THEN handler[h].join = token[o]
                                                               ELSE task[o] = token[o]
                       /\ At(h) \in NoneAt(o) => Live(o) = {}
                       /\ ~flag[o] => Live(o) = {} \/ o = Main)'
      OBVIOUS
  <2>1. Live(o)' = Live(o)
      BY <1>1
  <2>2. (JoinOf(o))' = JoinOf(o) /\ (NoneAt(o))' = NoneAt(o)
      BY DEF JoinOf, NoneAt
  <2> QED BY <1>4, <2>1, <2>2 DEF WorkersFit
<1> QED BY <1>1, <1>3, <1>6 DEF WorkersFit, Observers

(* Going on keeps what is known of providers that are off.                 *)
LEMMA OffGoes ==
    ASSUME NEW h \in Handlers, Typed, PlanFits(h), OffFits(h),
           Goes(h, At(h)), At(h) # 0, At(h) \notin {1, 2, 11, 12, 13, 15, 18, 19, 23, 41, 42, 43, 45},
           UNCHANGED <<enabled, running, flag, worker>>
    PROVE  OffFits(h)'
<1>1. \A o \in Observers : Live(o)' = Live(o)
    BY DEF Live
<1>2. Leads(At(h), At(h)') \/ (At(h)' = 0 /\ At(h) \in Final)
    BY FittingStep DEF Goes, Moved
<1>3. /\ At(h)' \in 24 .. 31 => At(h) \in 24 .. 31
      /\ At(h)' \in {46, 47} => At(h) \in {46, 47}
      /\ At(h) \in 11 .. 19 => At(h)' \in 12 .. 18
      /\ At(h) \notin {11, 12, 13, 15, 18, 19, 43, 45}
      /\ At(h) = 14 => At(h)' = 15
      /\ At(h) = 44 => At(h)' = 45
    BY <1>2 DEF Leads, Final
<1> QED BY <1>1, <1>3 DEF OffFits, Observers

(* Going on keeps the file and the registry in step.                       *)
LEMMA SavedGoes ==
    ASSUME NEW h \in Handlers, NEW m, Typed, PlanFits(h), AppliedFits(h), SavedFits(h),
           Goes(h, m), Skips(h, m), At(h) # 0, m \notin {1, 2, 3, 22, 23, 41, 42},
           UNCHANGED <<disk, enabled, unsaved>>
    PROVE  SavedFits(h)'
<1>1. /\ At(h) \notin {1, 2, 3, 22, 23, 41, 42} /\ Last(h) \in Final
      /\ handler[h].back => Last(h) = 3 /\ Toggling(h)
    BY FittingStep DEF Skips
<1>2. CASE handler'[h] = Idle /\ At(h)' = 0 /\ m = Last(h)
  <2>1. ~handler[h].back /\ Last(h) # 41
      BY <1>1, <1>2
  <2>2. ASSUME ~unsaved
        PROVE  disk.on["lms"] = enabled["lms"] /\ disk.on["hqplayer"] = enabled["hqplayer"]
      BY <1>1, <2>1, <2>2 DEF SavedFits
  <2> QED BY <1>2, <2>2 DEF SavedFits, Providers
<1>3. CASE /\ Same(h) /\ Leads(m, At(h)') /\ StepFits(h, At(h)') /\ Last(h)' = Last(h)
           /\ \A k \in {2, 42} : Restores(h, k) => Restores(h, k)'
  <2>1. /\ (Toggling(h))' = Toggling(h) /\ handler'[h].old = handler[h].old
        /\ handler'[h].new = handler[h].new /\ handler'[h].back = handler[h].back
        /\ handler'[h].applied = handler[h].applied /\ At(h)' # 0
      BY <1>3 DEF Same, Toggling, Goes, StepFits
  <2>2. At(h)' \notin {1, 23}
      BY <1>3 DEF Leads
  <2> QED BY <1>1, <1>3, <2>1, <2>2 DEF SavedFits
<1> QED BY <1>2, <1>3 DEF Goes, Moved

(* Going on keeps what is known of the zones.                              *)
LEMMA ZonesGo ==
    ASSUME NEW h \in Handlers, NEW m, Typed, PlanFits(h), ZonesFit(h),
           Goes(h, m), Skips(h, m), At(h) # 0, m \notin {1, 2, 17, 41, 42},
           UNCHANGED <<ingress, bus, listed, worker, server, enabled, lost, orphaned>>
    PROVE  ZonesFit(h)'
<1>1. \A o : Live(o)' = Live(o)
    BY DEF Live
<1>2. Leads(m, At(h)') \/ (At(h)' = 0 /\ m \in Final)
    BY FittingStep DEF Goes, Moved
<1>3. /\ At(h) \in 11 .. 17 => At(h)' \in 11 .. 17
      /\ At(h) \notin 18 .. 21 /\ At(h) \notin 11 .. 17 => At(h)' \notin 18 .. 21
    BY <1>2 DEF Leads, Skips, Final
<1>4. \A n : Flushed(h, n) => Flushed(h, n)'
    BY <1>3 DEF Flushed
<1>5. \A s, n : Shows(h, s) \/ Flushed(h, n) => Shows(h, s)' \/ Flushed(h, n)'
    BY <1>3, <1>4 DEF Shows, Serving, Flushed
<1> QED BY <1>1, <1>5 DEF ZonesFit
-------------------------------------------------------------------------------
(* The steps of a request, one by one *)

(* The type of the workers and requests, and that of the rest.             *)
LEMMA TypedParts ==
    Typed <=> /\ OthersTyped
              /\ worker \in [Observers -> [Tokens -> Worker]]
              /\ handler \in [Handlers -> Request]
BY DEF Typed

(* The types after a step that changes no worker.                          *)
LEMMA TypedNext ==
    ASSUME OthersTyped', (worker \in [Observers -> [Tokens -> Worker]])',
           (handler \in [Handlers -> Request])'
    PROVE  Typed'
BY DEF Typed

(* The workers poll on when nothing about them changes.                    *)
LEMMA ObservedStays ==
    ASSUME ObservedFits, UNCHANGED <<worker, server>>
    PROVE  ObservedFits'
BY DEF ObservedFits

(* The acknowledgement of the flush, or the end of the wait for it.         *)
LEMMA AwaitStep ==
    ASSUME NEW h \in Handlers, Good(h), Await(h)
    PROVE  Good(h)'
<1>1. /\ Typed /\ ObservedFits /\ PlanFits(h) /\ AppliedFits(h) /\ ServerNamed(h)
      /\ TokensSuffice(h) /\ WorkersFit(h) /\ OffFits(h) /\ SavedFits(h) /\ ZonesFit(h)
    BY DEF Good, Fits
<1>2. At(h) = 20 /\ handler[h].todo # <<>>
    BY <1>1, StagesDiffer DEF Await, Doing
<1>3. Goes(h, At(h)) /\ Holds(h) /\ Skips(h, At(h))
    BY <1>1, <1>2, ContinueGoes DEF Await, Skips
<1>4. UNCHANGED <<disk, enabled, running, flag, token, cancelled, task, server, known, worker,
                  ingress, bus, listed, requests, lost, orphaned, unsaved, lags>>
    BY DEF Await, coordinatorVars, adapterVars, projectionVars, historyVars
<1>5. Typed'
    BY <1>1, <1>3, <1>4, TypedParts, TypedNext DEF OthersTyped, Goes
<1>6. AppliedFits(h)' /\ ServerNamed(h)' /\ TokensSuffice(h)'
    BY <1>1, <1>2, <1>3, <1>4, AppliedGoes, ServerGoes, TokensGo
<1>7. WorkersFit(h)' /\ OffFits(h)' /\ SavedFits(h)' /\ ZonesFit(h)'
    BY <1>1, <1>2, <1>3, <1>4, WorkersGo, OffGoes, SavedGoes, ZonesGo
<1> QED BY <1>1, <1>3, <1>4, <1>5, <1>6, <1>7, ObservedStays DEF Good, Fits, Goes

(* The adapter is recorded as running, or as stopped.                      *)
LEMMA TrackStep ==
    ASSUME NEW h \in Handlers, Good(h), Track(h)
    PROVE  Good(h)'
<1>1. /\ Typed /\ ObservedFits /\ PlanFits(h) /\ AppliedFits(h) /\ ServerNamed(h)
      /\ TokensSuffice(h) /\ WorkersFit(h) /\ OffFits(h) /\ SavedFits(h) /\ ZonesFit(h)
    BY DEF Good, Fits
<1>2. handler[h].todo # <<>> /\ At(h) # 0
      /\ <<Current(h).who, At(h), Current(h).do>> \in
            {<<Main, 27, "track">>, <<Companion, 31, "track">>, <<"hqplayer", 47, "track">>,
             <<Main, 18, "untrack">>, <<Companion, 19, "untrack">>, <<"hqplayer", 45, "untrack">>}
    BY <1>1, StagesDiffer, StepAt DEF Track, Doing
<1>3. Goes(h, At(h)) /\ Holds(h) /\ Skips(h, At(h))
    BY <1>1, <1>2, ContinueGoes DEF Track, Skips
<1>4. UNCHANGED <<disk, enabled, flag, token, cancelled, task, server, known, worker,
                  ingress, bus, listed, requests, lost, orphaned,
                  unsaved, lags>>
    BY DEF Track, coordinatorVars, adapterVars, projectionVars, historyVars
<1>5. Typed'
  <2>1. OthersTyped'
      BY <1>1, <1>2, <1>4, TypedParts DEF OthersTyped, Track, Adapters, Observers, Providers
  <2>2. (worker \in [Observers -> [Tokens -> Worker]])'
      BY <1>1, <1>4 DEF Typed
  <2> QED BY <1>3, <2>1, <2>2, TypedNext DEF Goes
<1>6. AppliedFits(h)' /\ ServerNamed(h)' /\ TokensSuffice(h)' /\ WorkersFit(h)'
    BY <1>1, <1>2, <1>3, <1>4, AppliedGoes, ServerGoes, TokensGo, WorkersGo
<1>7. SavedFits(h)' /\ ZonesFit(h)' /\ ObservedFits'
    BY <1>1, <1>2, <1>3, <1>4, SavedGoes, ZonesGo, ObservedStays
<1>8. OffFits(h)'
  <2>1. \A o \in Observers : Live(o)' = Live(o)
      BY <1>4 DEF Live
  <2>2. running' = [running EXCEPT ![Current(h).who] = Current(h).do = "track"]
      BY DEF Track
  <2>3. running \in [Adapters -> BOOLEAN]
      BY <1>1 DEF Typed, OthersTyped
  <2>4. At(h) \in {18, 19, 27, 31, 45, 47}
      BY <1>2
  <2>5. Leads(At(h), At(h)') \/ (At(h)' = 0 /\ At(h) \in Final)
      BY <1>1, <1>2, <1>3, FittingStep DEF Goes, Moved
  <2>6. /\ At(h)' \in 24 .. 31 => At(h) \in 24 .. 31
        /\ At(h)' \in {46, 47} => At(h) \in {46, 47}
        /\ At(h) = 18 => At(h)' = 19
      BY <2>5, <2>4 DEF Leads, Final
  <2>7. /\ At(h) = 18 => ~running'[Main]
        /\ At(h) = 19 => ~running'[Companion]
        /\ At(h) = 45 => ~running'["hqplayer"]
        /\ running'[Main] => running[Main] \/ At(h) = 27
        /\ running'[Companion] => running[Companion] \/ At(h) = 31
        /\ running'["hqplayer"] => running["hqplayer"] \/ At(h) = 47
    <3>1. \A a \in Adapters :
             running'[a] = IF a = Current(h).who THEN Current(h).do = "track" ELSE running[a]
        BY <2>2, <2>3
    <3>2. /\ At(h) = 18 => Current(h).who = Main /\ Current(h).do # "track"
          /\ At(h) = 19 => Current(h).who = Companion /\ Current(h).do # "track"
          /\ At(h) = 45 => Current(h).who = "hqplayer" /\ Current(h).do # "track"
          /\ Current(h).do = "track" /\ Current(h).who = Main => At(h) = 27
          /\ Current(h).do = "track" /\ Current(h).who = Companion => At(h) = 31
          /\ Current(h).do = "track" /\ Current(h).who = "hqplayer" => At(h) = 47
        BY <1>2 DEF Main, Companion
    <3>3. Main \in Adapters /\ Companion \in Adapters /\ "hqplayer" \in Adapters
        BY DEF Adapters, Observers, Providers
    <3>4. /\ At(h) = 18 => ~running'[Main]
          /\ At(h) = 19 => ~running'[Companion]
          /\ At(h) = 45 => ~running'["hqplayer"]
        BY <3>1, <3>2, <3>3
    <3>5. /\ running'[Main] => running[Main] \/ At(h) = 27
          /\ running'[Companion] => running[Companion] \/ At(h) = 31
          /\ running'["hqplayer"] => running["hqplayer"] \/ At(h) = 47
        BY <3>1, <3>2, <3>3
    <3> QED BY <3>4, <3>5
  <2>8. (At(h) \in 11 .. 17 => At(h) \notin {18, 19, 27, 31, 45, 47}) /\ At(h) \notin 11 .. 17
      BY <2>4
  <2> QED BY <1>1, <1>4, <2>1, <2>6, <2>4, <2>7, <2>8 DEF OffFits, Observers
<1> QED BY <1>3, <1>5, <1>6, <1>7, <1>8 DEF Good, Fits, Goes

(* The stop waits for the cancelled worker.                                *)
LEMMA JoinStep ==
    ASSUME NEW h \in Handlers, Good(h), Join(h)
    PROVE  Good(h)'
<1>1. /\ Typed /\ ObservedFits /\ PlanFits(h) /\ AppliedFits(h) /\ ServerNamed(h)
      /\ TokensSuffice(h) /\ WorkersFit(h) /\ OffFits(h) /\ SavedFits(h) /\ ZonesFit(h)
    BY DEF Good, Fits
<1>2. handler[h].todo # <<>> /\ At(h) # 0
      /\ <<Current(h).who, At(h)>> \in {<<Main, 12>>, <<Companion, 15>>}
    BY <1>1, StagesDiffer, StepAt DEF Join, Doing
<1>3. Goes(h, At(h)) /\ Holds(h) /\ Skips(h, At(h))
    BY <1>1, <1>2, ContinueGoes DEF Join, Skips
<1>4. UNCHANGED <<disk, enabled, running, flag, token, cancelled, task, server, known,
                  worker, ingress, bus, listed, requests, lost,
                  orphaned, unsaved, lags>>
    BY DEF Join, coordinatorVars, adapterVars, projectionVars, historyVars
<1>5. Typed'
    BY <1>1, <1>3, <1>4, TypedParts, TypedNext DEF OthersTyped, Goes
<1>6. AppliedFits(h)' /\ ServerNamed(h)' /\ TokensSuffice(h)' /\ SavedFits(h)'
    BY <1>1, <1>2, <1>3, <1>4, AppliedGoes, ServerGoes, TokensGo, SavedGoes
<1>7. ZonesFit(h)' /\ ObservedFits'
    BY <1>1, <1>2, <1>3, <1>4, ZonesGo, ObservedStays
<1>8. WorkersFit(h)'
  <2>1. \A o \in Observers : Live(o)' = Live(o)
      BY <1>4 DEF Live
  <2>2. At(h) \in {12, 15}
      BY <1>2
  <2>3. Leads(At(h), At(h)') \/ (At(h)' = 0 /\ At(h) \in Final)
      BY <1>1, <1>2, <1>3, FittingStep DEF Goes, Moved
  <2>4. At(h) \in {12, 15} /\ At(h)' = At(h) + 1
      BY <2>2, <2>3 DEF Leads, Final
  <2>5. ASSUME NEW o \in Observers, At(h) = JoinOf(o)
        PROVE  Live(o) = {}
    <3>1. Current(h).who = o
        BY <1>2, <2>5 DEF JoinOf, Observers, Main, Companion
    <3> QED BY <1>1, <2>5, <3>1 DEF Join, WorkersFit
  <2>6. ASSUME NEW o \in Observers
        PROVE  /\ At(h)' # JoinOf(o)
               /\ At(h)' \in NoneAt(o) => At(h) \in NoneAt(o) \/ At(h) = JoinOf(o)
      BY <2>4 DEF JoinOf, NoneAt, Observers, Main, Companion
  <2>7. (At(h) \notin {25, 26, 29, 30})'
      BY <2>4
  <2>8. At(h) \notin {29, 30}
      BY <2>4
  <2> QED BY <1>1, <1>4, <2>1, <2>5, <2>6, <2>7, <2>8 DEF WorkersFit, Observers
<1>9. OffFits(h)'
  <2>1. \A o \in Observers : Live(o)' = Live(o)
      BY <1>4 DEF Live
  <2>2. At(h) \in {12, 15}
      BY <1>2
  <2>3. Leads(At(h), At(h)') \/ (At(h)' = 0 /\ At(h) \in Final)
      BY <1>1, <1>2, <1>3, FittingStep DEF Goes, Moved
  <2>4. At(h) \in {12, 15} /\ At(h)' = At(h) + 1
      BY <2>2, <2>3 DEF Leads, Final
  <2>5. /\ At(h) = 12 => Live(Main) = {}
        /\ At(h) = 15 => Live(Companion) = {}
      BY <1>1, <1>2 DEF Join, WorkersFit, JoinOf, Observers, Main, Companion
  <2> QED BY <1>1, <1>4, <2>1, <2>4, <2>5 DEF OffFits, Observers
<1> QED BY <1>3, <1>5, <1>6, <1>7, <1>8, <1>9 DEF Good, Fits, Goes

(* The adapter is marked as stopped.                                       *)
LEMMA StoppedStep ==
    ASSUME NEW h \in Handlers, Good(h), Stopped(h)
    PROVE  Good(h)'
<1>1. /\ Typed /\ ObservedFits /\ PlanFits(h) /\ AppliedFits(h) /\ ServerNamed(h)
      /\ TokensSuffice(h) /\ WorkersFit(h) /\ OffFits(h) /\ SavedFits(h) /\ ZonesFit(h)
    BY DEF Good, Fits
<1>2. handler[h].todo # <<>> /\ At(h) # 0
      /\ <<Current(h).who, At(h)>> \in {<<Main, 13>>, <<Companion, 16>>, <<"hqplayer", 43>>}
    BY <1>1, StagesDiffer, StepAt DEF Stopped, Doing
<1>3. Goes(h, At(h)) /\ Holds(h) /\ Skips(h, At(h))
    BY <1>1, <1>2, ContinueGoes DEF Stopped, Skips
<1>4. UNCHANGED <<disk, enabled, running, token, cancelled, task, server, known, worker,
                  ingress, bus, listed, requests, lost, orphaned,
                  unsaved, lags>>
    BY DEF Stopped, coordinatorVars, adapterVars, projectionVars, historyVars
<1>5. Typed'
  <2>1. OthersTyped'
      BY <1>1, <1>2, <1>4, TypedParts DEF OthersTyped, Stopped, Adapters, Observers, Providers
  <2>2. (worker \in [Observers -> [Tokens -> Worker]])'
      BY <1>1, <1>4 DEF Typed
  <2> QED BY <1>3, <2>1, <2>2, TypedNext DEF Goes
<1>6. AppliedFits(h)' /\ ServerNamed(h)' /\ TokensSuffice(h)' /\ SavedFits(h)'
    BY <1>1, <1>2, <1>3, <1>4, AppliedGoes, ServerGoes, TokensGo, SavedGoes
<1>7. ZonesFit(h)' /\ ObservedFits'
    BY <1>1, <1>2, <1>3, <1>4, ZonesGo, ObservedStays
<1>8. WorkersFit(h)'
  <2>1. \A o \in Observers : Live(o)' = Live(o)
      BY <1>4 DEF Live
  <2>2. At(h) \in {13, 16, 43}
      BY <1>2
  <2>3. Leads(At(h), At(h)') \/ (At(h)' = 0 /\ At(h) \in Final)
      BY <1>1, <1>2, <1>3, FittingStep DEF Goes, Moved
  <2>4. At(h) \in {13, 16, 43} /\ At(h)' = At(h) + 1
      BY <2>2, <2>3 DEF Leads, Final
  <2>5. At(h)' # 0 => handler'[h].join = handler[h].join
      BY <1>3 DEF Holds
  <2>6. flag'[Companion] = flag[Companion]
        /\ flag'[Main] = (flag[Main] /\ At(h) # 13)
    <3>1. flag \in [Adapters -> BOOLEAN] /\ flag' = [flag EXCEPT ![Current(h).who] = @ /\ Current(h).who = Companion]
        BY <1>1 DEF Typed, OthersTyped, Stopped
    <3>2. \A a \in Adapters : flag'[a] = IF a = Current(h).who THEN flag[a] /\ a = Companion
                                                               ELSE flag[a]
        BY <3>1
    <3>3. Main \in Adapters /\ Companion \in Adapters
        BY DEF Adapters, Observers
    <3>4. (Current(h).who = Main) = (At(h) = 13) /\ Main # Companion
        BY <1>2 DEF Main, Companion
    <3>5. flag[Companion] \in BOOLEAN /\ flag[Main] \in BOOLEAN
        BY <3>1, <3>3
    <3>6. flag'[Companion] = flag[Companion]
        BY <3>2, <3>3, <3>5
    <3>7. flag'[Main] = (flag[Main] /\ At(h) # 13)
        BY <3>2, <3>3, <3>4, <3>5
    <3> QED BY <3>6, <3>7
  <2>7. ASSUME NEW o \in Observers
        PROVE  /\ At(h)' # JoinOf(o) /\ At(h) # JoinOf(o)
               /\ At(h)' \in NoneAt(o) => At(h) \in NoneAt(o)
               /\ o = Main /\ At(h) = 13 => At(h) \in NoneAt(o)
      BY <2>4 DEF JoinOf, NoneAt, Observers, Main, Companion
  <2>8. At(h)' \notin {25, 26, 29, 30} /\ At(h) \notin {29, 30}
      BY <2>4
  <2>9. ASSUME NEW o \in Observers, ~flag'[o]
        PROVE  Live(o) = {} \/ o = Main
      BY <1>1, <2>6, <2>7, <2>9 DEF WorkersFit, Observers
  <2> QED BY <1>1, <1>4, <2>1, <2>4, <2>5, <2>6, <2>7, <2>8, <2>9 DEF WorkersFit, Observers
<1>9. OffFits(h)'
  <2>1. \A o \in Observers : Live(o)' = Live(o)
      BY <1>4 DEF Live
  <2>2. At(h) \in {13, 16, 43}
      BY <1>2
  <2>3. Leads(At(h), At(h)') \/ (At(h)' = 0 /\ At(h) \in Final)
      BY <1>1, <1>2, <1>3, FittingStep DEF Goes, Moved
  <2>4. At(h) \in {13, 16, 43} /\ At(h)' = At(h) + 1
      BY <2>2, <2>3 DEF Leads, Final
  <2>5. /\ flag'[Main] => flag[Main] /\ At(h) # 13
        /\ flag'["hqplayer"] => flag["hqplayer"] /\ At(h) # 43
    <3>1. flag \in [Adapters -> BOOLEAN] /\ flag' = [flag EXCEPT ![Current(h).who] = @ /\ Current(h).who = Companion]
        BY <1>1 DEF Typed, OthersTyped, Stopped
    <3>2. \A a \in Adapters : flag'[a] = IF a = Current(h).who THEN flag[a] /\ a = Companion
                                                               ELSE flag[a]
        BY <3>1
    <3>3. Main \in Adapters /\ "hqplayer" \in Adapters
        BY DEF Adapters, Observers, Providers
    <3>4. /\ At(h) = 13 => Current(h).who = Main
          /\ At(h) = 43 => Current(h).who = "hqplayer"
          /\ Main # Companion /\ "hqplayer" # Companion
        BY <1>2 DEF Main, Companion
    <3>5. flag'[Main] => flag[Main] /\ At(h) # 13
        BY <3>2, <3>3, <3>4
    <3>6. flag'["hqplayer"] => flag["hqplayer"] /\ At(h) # 43
        BY <3>2, <3>3, <3>4
    <3> QED BY <3>5, <3>6
  <2> QED BY <1>1, <1>4, <2>1, <2>4, <2>5 DEF OffFits, Observers
<1> QED BY <1>3, <1>5, <1>6, <1>7, <1>8, <1>9 DEF Good, Fits, Goes

(* The registry enables LMS.                                               *)
LEMMA EnableStep ==
    ASSUME NEW h \in Handlers, Good(h), Enable(h)
    PROVE  Good(h)'
<1>1. /\ Typed /\ ObservedFits /\ PlanFits(h) /\ AppliedFits(h) /\ ServerNamed(h)
      /\ TokensSuffice(h) /\ WorkersFit(h) /\ OffFits(h) /\ SavedFits(h) /\ ZonesFit(h)
    BY DEF Good, Fits
<1>2. handler[h].todo # <<>> /\ At(h) # 0
      /\ At(h) = 23 /\ ~Toggling(h) /\ ~handler[h].back
    BY <1>1, StagesDiffer, StepAt, FittingStep DEF Enable, Doing, StepFits
<1>3. Goes(h, At(h)) /\ Holds(h) /\ Skips(h, At(h))
    BY <1>1, <1>2, ContinueGoes DEF Enable, Skips
<1>4. UNCHANGED <<disk, running, flag, token, cancelled, task, server, known, worker,
                  ingress, bus, listed, requests, lost, orphaned,
                  unsaved, lags>>
    BY DEF Enable, coordinatorVars, adapterVars, projectionVars, historyVars
<1>5. Typed'
  <2>1. OthersTyped'
      BY <1>1, <1>2, <1>4, TypedParts DEF OthersTyped, Enable, Adapters, Observers
  <2>2. (worker \in [Observers -> [Tokens -> Worker]])'
      BY <1>1, <1>4 DEF Typed
  <2> QED BY <1>3, <2>1, <2>2, TypedNext DEF Goes
<1>6. AppliedFits(h)' /\ ServerNamed(h)' /\ TokensSuffice(h)' /\ WorkersFit(h)'
    BY <1>1, <1>2, <1>3, <1>4, AppliedGoes, ServerGoes, TokensGo, WorkersGo
<1>7. ObservedFits'
    BY <1>1, <1>2, <1>3, <1>4, ObservedStays
<1>8. OffFits(h)'
  <2>1. \A o \in Observers : Live(o)' = Live(o)
      BY <1>4 DEF Live
  <2>2. At(h) \in {23}
      BY <1>2
  <2>3. Leads(At(h), At(h)') \/ (At(h)' = 0 /\ At(h) \in Final)
      BY <1>1, <1>2, <1>3, FittingStep DEF Goes, Moved
  <2>4. At(h)' = 24
      BY <2>2, <2>3 DEF Leads, Final
  <2>5. enabled'[Main] /\ enabled'["hqplayer"] = enabled["hqplayer"]
      BY <1>1 DEF Typed, OthersTyped, Enable, Adapters, Observers, Providers, Main, Companion
  <2> QED BY <1>1, <1>4, <2>1, <2>2, <2>4, <2>5 DEF OffFits, Observers, Main
<1>9. SavedFits(h)'
  <2>1. \A o \in Observers : Live(o)' = Live(o)
      BY <1>4 DEF Live
  <2>2. At(h) \in {23}
      BY <1>2
  <2>3. Leads(At(h), At(h)') \/ (At(h)' = 0 /\ At(h) \in Final)
      BY <1>1, <1>2, <1>3, FittingStep DEF Goes, Moved
  <2>4. At(h)' = 24
      BY <2>2, <2>3 DEF Leads, Final
  <2>5. enabled'[Main] /\ enabled'["hqplayer"] = enabled["hqplayer"]
      BY <1>1 DEF Typed, OthersTyped, Enable, Adapters, Observers, Providers, Main, Companion
  <2>6. ~(Toggling(h)') /\ ~handler'[h].back
      BY <1>2, <1>3, <2>4 DEF Goes, Moved, Same, Toggling
  <2>7. disk.on["lms"] \in BOOLEAN /\ (unsaved \/ disk.on["lms"])
      BY <1>1, <1>2, <2>2 DEF SavedFits, Typed, OthersTyped, Toggles, Providers
  <2>8. unsaved \/ disk.on["hqplayer"] = enabled["hqplayer"]
      BY <1>1, <1>2 DEF SavedFits
  <2>9. enabled' \in [Adapters -> BOOLEAN]
      BY <1>1 DEF Typed, OthersTyped, Enable
  <2>10. enabled'["lms"] = TRUE
      BY <2>5, <2>9 DEF Main, Adapters, Observers
  <2>11. unsaved \/ disk.on["lms"] = enabled'["lms"]
      BY <2>7, <2>10
  <2> QED BY <1>4, <2>4, <2>5, <2>6, <2>8, <2>11 DEF SavedFits
<1>10. ZonesFit(h)'
  <2>1. \A o \in Observers : Live(o)' = Live(o)
      BY <1>4 DEF Live
  <2>2. At(h) \in {23}
      BY <1>2
  <2>3. Leads(At(h), At(h)') \/ (At(h)' = 0 /\ At(h) \in Final)
      BY <1>1, <1>2, <1>3, FittingStep DEF Goes, Moved
  <2>4. At(h)' = 24
      BY <2>2, <2>3 DEF Leads, Final
  <2>5. enabled'["lms"]
      BY <1>1 DEF Typed, OthersTyped, Enable, Adapters, Observers, Providers, Main, Companion
  <2>6. \A n : Flushed(h, n) => Flushed(h, n)'
      BY <1>4, <2>2, <2>4 DEF Flushed
  <2>7. \A s : Shows(h, s) => Shows(h, s)'
      BY <1>4, <2>4, <2>5 DEF Shows, Serving
  <2>8. \A o : Live(o)' = Live(o)
      BY <1>4 DEF Live
  <2> QED BY <1>1, <1>4, <2>6, <2>7, <2>8 DEF ZonesFit
<1> QED BY <1>3, <1>5, <1>6, <1>7, <1>8, <1>9, <1>10 DEF Good, Fits, Goes

(* What is in the reliable lane.                                           *)
LEMMA LaneTyped ==
    ASSUME Typed
    PROVE  \A i \in 1 .. Len(ingress) : /\ ingress[i].by[1] \in Observers /\ ingress[i].by[2] \in Tokens
                                        /\ ingress[i].update \in Update
<1> DEFINE U == [by : Observers \X Tokens, update : Update]
<1>1. ingress \in Seq(U)
    BY TypedParts DEF OthersTyped
<1>2. \A u \in U : u.by[1] \in Observers /\ u.by[2] \in Tokens /\ u.update \in Update
    OBVIOUS
<1> HIDE DEF U
<1>3. \A i \in 1 .. Len(ingress) : ingress[i] \in U
    BY <1>1, ElementOfSeq
<1> QED BY <1>2, <1>3

(* Publishing keeps the bus within its bounds, and appends unless an event *)
(* is lost.                                                                *)
Hint == Update \cup [type : {"stopping"}, server : {NoServer}]

(* What a bus that has room for the hint becomes.                          *)
LEMMA Publishes ==
    ASSUME bus \in Seq(Hint), Len(bus) <= BusCapacity, lost \in BOOLEAN,
           NEW e \in Hint, Publish(e)
    PROVE  /\ bus' \in Seq(Hint) /\ Len(bus') <= BusCapacity /\ lost' \in BOOLEAN
           /\ ~lost' => /\ ~lost /\ Len(bus') = Len(bus) + 1
                        /\ \A k \in 1 .. Len(bus) : bus'[k] = bus[k]
                        /\ bus'[Len(bus) + 1] = e
<1>1. Len(bus) \in Nat /\ BusCapacity \in Nat \ {0}
    BY LifecycleAssumption
<1>2. CASE Len(bus) < BusCapacity
  <2>1. bus' = Append(bus, e)
      BY <1>2 DEF Publish
  <2>2. /\ bus' \in Seq(Hint) /\ Len(bus') = Len(bus) + 1
        /\ \A k \in 1 .. Len(bus) : bus'[k] = bus[k]
        /\ bus'[Len(bus) + 1] = e
      BY <2>1, AppendProperties
  <2> QED BY <1>1, <1>2, <2>2 DEF Publish
<1>3. CASE ~(Len(bus) < BusCapacity)
  <2>1. Len(bus) = BusCapacity /\ bus # <<>>
      BY <1>1, <1>3
  <2>2. lost' = TRUE
      BY <2>1 DEF Publish
  <2>3. Tail(bus) \in Seq(Hint) /\ Len(Tail(bus)) = Len(bus) - 1
      BY <2>1, HeadTailProperties
  <2>4. bus' = Append(Tail(bus), e)
      BY <1>3 DEF Publish
  <2>5. bus' \in Seq(Hint) /\ Len(bus') = Len(Tail(bus)) + 1
      BY <2>3, <2>4, AppendProperties
  <2> QED BY <1>1, <2>1, <2>2, <2>3, <2>5
<1> QED BY <1>2, <1>3

(* The file gets its old toggles back.                                     *)
LEMMA UnsaveStep ==
    ASSUME NEW h \in Handlers, Good(h), Unsave(h)
    PROVE  Good(h)'
<1>1. /\ Typed /\ ObservedFits /\ PlanFits(h) /\ AppliedFits(h) /\ ServerNamed(h)
      /\ TokensSuffice(h) /\ WorkersFit(h) /\ OffFits(h) /\ SavedFits(h) /\ ZonesFit(h)
    BY DEF Good, Fits
<1>2. handler[h].todo # <<>> /\ At(h) # 0
      /\ At(h) = 3 /\ Toggling(h) /\ handler[h].back
    BY <1>1, StagesDiffer, StepAt, FittingStep DEF Unsave, Doing, StepFits
<1>3. Goes(h, At(h)) /\ Holds(h) /\ Skips(h, At(h))
    BY <1>1, <1>2, ContinueGoes DEF Unsave, Skips
<1>4. UNCHANGED <<enabled, running, flag, token, cancelled, task, server, known, worker,
                  ingress, bus, listed, requests, lost, orphaned, lags>>
    BY DEF Unsave, coordinatorVars, adapterVars, projectionVars, historyVars
<1>5. Typed'
  <2>1. (disk \in [on : Toggles, hidden : BOOLEAN])' /\ unsaved' \in BOOLEAN
    <3>1. /\ handler[h].old \in Toggles /\ handler[h].hides \in BOOLEAN
          /\ disk \in [on : Toggles, hidden : BOOLEAN] /\ unsaved \in BOOLEAN
        BY <1>1 DEF Typed, OthersTyped, Request
    <3>2. \/ disk' = [on |-> handler[h].old, hidden |-> handler[h].hides] /\ unsaved' = unsaved
          \/ disk' = disk /\ unsaved' = TRUE
        BY DEF Unsave
    <3>3. [on |-> handler[h].old, hidden |-> handler[h].hides] \in [on : Toggles, hidden : BOOLEAN]
        BY <3>1
    <3>4. (disk \in [on : Toggles, hidden : BOOLEAN])'
        BY Zenon, <3>1, <3>2, <3>3
    <3>5. unsaved' \in BOOLEAN
        BY Zenon, <3>1, <3>2
    <3> QED BY <3>4, <3>5
  <2>2. OthersTyped'
      BY <1>1, <1>4, <2>1, TypedParts DEF OthersTyped
  <2>3. (worker \in [Observers -> [Tokens -> Worker]])'
      BY <1>1, <1>4 DEF Typed
  <2> QED BY <1>3, <2>2, <2>3, TypedNext DEF Goes
<1>6. AppliedFits(h)' /\ ServerNamed(h)' /\ TokensSuffice(h)' /\ WorkersFit(h)'
    BY <1>1, <1>2, <1>3, <1>4, AppliedGoes, ServerGoes, TokensGo, WorkersGo
<1>7. OffFits(h)' /\ ZonesFit(h)' /\ ObservedFits'
    BY <1>1, <1>2, <1>3, <1>4, OffGoes, ZonesGo, ObservedStays
<1>8. SavedFits(h)'
  <2>1. At(h)' = 0
      BY <1>2, <1>3 DEF Goes, Moved, Leads
  <2>2. ~Restores(h, 2) /\ ~Restores(h, 42)
    <3>1. handler[h].todo \in Seq(Steps)
        BY <1>1 DEF Typed, Request
    <3>2. Len(handler[h].todo) \in Nat \ {0} /\ Stage(handler[h].todo[1]) = 3
        BY <1>2, <3>1, LeftByOne DEF At
    <3>3. ASSUME Len(handler[h].todo) # 1
          PROVE  FALSE
      <4>1. 1 \in 1 .. Len(handler[h].todo) /\ 1 < Len(handler[h].todo)
          BY Zenon, <3>2, <3>3, Second
      <4>2. Leads(3, Stage(handler[h].todo[1 + 1]))
          BY <1>1, <3>2, <4>1 DEF PlanFits
      <4> QED BY <4>2 DEF Leads
    <3> QED BY <3>2, <3>3 DEF Restores
  <2>3. CASE disk' = [on |-> handler[h].old, hidden |-> handler[h].hides] /\ unsaved' = unsaved
    <3>1. unsaved \/ \A p \in Providers : enabled[p] = handler[h].old[p]
        BY <1>1, <1>2, <2>2 DEF SavedFits, Providers
    <3>2. disk'.on = handler[h].old
        BY <2>3
    <3> QED BY <1>4, <2>1, <2>3, <3>1, <3>2 DEF SavedFits
  <2>4. CASE unsaved'
      BY <2>4 DEF SavedFits
  <2> QED BY <2>3, <2>4 DEF Unsave
<1> QED BY <1>3, <1>5, <1>6, <1>7, <1>8 DEF Good, Fits, Goes

(* The server is replaced.                                                 *)
LEMMA ConfigureStep ==
    ASSUME NEW h \in Handlers, Good(h), Configure(h)
    PROVE  Good(h)'
<1>1. /\ Typed /\ ObservedFits /\ PlanFits(h) /\ AppliedFits(h) /\ ServerNamed(h)
      /\ TokensSuffice(h) /\ WorkersFit(h) /\ OffFits(h) /\ SavedFits(h) /\ ZonesFit(h)
    BY DEF Good, Fits
<1>2. handler[h].todo # <<>> /\ At(h) # 0
      /\ At(h) = 21
    BY <1>1, StagesDiffer, StepAt DEF Configure, Doing
<1>3. Goes(h, At(h)) /\ Holds(h) /\ Skips(h, At(h))
    BY <1>1, <1>2, ContinueGoes DEF Configure, Skips
<1>4. UNCHANGED <<disk, enabled, running, flag, token, cancelled, task, known, worker,
                  ingress, bus, listed, requests, lost, orphaned,
                  unsaved, lags>>
    BY DEF Configure, coordinatorVars, adapterVars, projectionVars, historyVars
<1>5. Typed'
  <2>1. OthersTyped'
      BY <1>1, <1>2, <1>4, TypedParts DEF OthersTyped, Configure
  <2>2. (worker \in [Observers -> [Tokens -> Worker]])'
      BY <1>1, <1>4 DEF Typed
  <2> QED BY <1>3, <2>1, <2>2, TypedNext DEF Goes
<1>6. AppliedFits(h)' /\ TokensSuffice(h)' /\ WorkersFit(h)' /\ OffFits(h)'
    BY <1>1, <1>2, <1>3, <1>4, AppliedGoes, TokensGo, WorkersGo, OffGoes
<1>7. SavedFits(h)'
    BY <1>1, <1>2, <1>3, <1>4, SavedGoes
<1>8. ServerNamed(h)'
  <2>1. server' # NoServer
      BY DEF Configure, Servers, NoServer
  <2> QED BY <2>1 DEF ServerNamed
<1>9. ObservedFits'
  <2>1. \A o \in Observers : Live(o) = {}
      BY <1>1, <1>2 DEF WorkersFit, NoneAt
  <2>2. \A o \in Observers, t \in Tokens : worker[o][t].phase = "none"
      BY <2>1 DEF Live
  <2>3. \A o \in Observers, t \in Tokens : worker[o][t] = Absent
      BY <1>1, <2>2 DEF ObservedFits
  <2>4. Absent.poll = NoServer /\ Absent.out = <<>> /\ Len(Absent.out) = 0
      BY DEF Absent
  <2> QED BY <1>4, <2>3, <2>4 DEF ObservedFits
<1>10. ZonesFit(h)'
  <2>1. \A o \in Observers : Live(o) = {}
      BY <1>1, <1>2 DEF WorkersFit, NoneAt
  <2>2. \A i \in 1 .. Len(ingress) : ingress[i].by[1] \in Observers
      BY <1>1, LaneTyped
  <2>3. \A s : ~Shows(h, s)
      BY <1>2 DEF Shows, Serving
  <2>4. \A n : Flushed(h, n) => Flushed(h, n)'
      BY <1>2, <1>4 DEF Flushed
  <2>5. ASSUME ~lost, ~orphaned
        PROVE  /\ \A i \in 1 .. Len(ingress) : FALSE
               /\ \A s \in listed : Flushed(h, 1)
               /\ \A k \in 1 .. Len(bus) : bus[k].type = "zone" => Flushed(h, k)
    <3>1. \A i \in 1 .. Len(ingress) : FALSE
        BY <1>1, <2>1, <2>2, <2>5 DEF ZonesFit
    <3> QED BY <1>1, <2>3, <2>5, <3>1 DEF ZonesFit
  <2> QED BY <1>4, <2>4, <2>5 DEF ZonesFit
<1> QED BY <1>3, <1>5, <1>6, <1>7, <1>8, <1>9, <1>10 DEF Good, Fits, Goes

(* The request takes a step that is not its last, and remembers something. *)
LEMMA TailGoes ==
    ASSUME NEW h \in Handlers, Typed, PlanFits(h), handler[h].todo # <<>>,
           At(h) \notin Final \cup {2, 42}, (handler \in [Handlers -> Request])',
           Same(h), handler'[h].todo = Rest(h), handler'[h].applied = handler[h].applied
    PROVE  Goes(h, At(h))
<1> DEFINE s == handler[h].todo
<1>1. s \in Seq(Steps)
    BY DEF Typed, Request
<1>2. /\ Rest(h) \in Seq(Steps) /\ Len(s) \in Nat \ {0} /\ Len(Rest(h)) = Len(s) - 1
      /\ \A i \in 1 .. Len(s) - 1 : Rest(h)[i] = s[1 + i]
    BY Zenon, <1>1, LeftByOne DEF Rest
<1>3. At(h) = Stage(s[1])
    BY Zenon DEF At
<1>4. ASSUME Len(s) = 1
      PROVE  FALSE
  <2>1. Last(h) = At(h)
      BY <1>4 DEF Last, At
  <2>2. At(h) # 0
      BY StepAt
  <2> QED BY <2>1, <2>2, FittingStep
<1>5. Len(s) # 1
    BY Zenon, <1>4
<1>6. 1 \in 1 .. Len(s) /\ 1 < Len(s)
    BY Zenon, <1>2, <1>5, Second
<1>7. \A i \in 1 .. 1 : Stage(s[i]) \notin {2, 42}
    BY <1>3
<1>8. /\ Len(handler'[h].todo) = Len(s) - 1
      /\ \A i \in 1 .. Len(s) - 1 : handler'[h].todo[i] = s[1 + i]
    BY Zenon, <1>2
<1>9. PlanFits(h)' /\ Moved(h, Stage(s[1]))
    BY Zenon, <1>6, <1>7, <1>8, Advance
<1> QED BY Zenon, <1>3, <1>9 DEF Goes

(* The zones of the adapter are retired.                                   *)
LEMMA FlushStep ==
    ASSUME NEW h \in Handlers, Good(h), Flush(h)
    PROVE  Good(h)'
<1>1. /\ Typed /\ ObservedFits /\ PlanFits(h) /\ AppliedFits(h) /\ ServerNamed(h)
      /\ TokensSuffice(h) /\ WorkersFit(h) /\ OffFits(h) /\ SavedFits(h) /\ ZonesFit(h)
    BY DEF Good, Fits
<1>2. handler[h].todo # <<>> /\ At(h) # 0
      /\ <<Current(h).who, At(h)>> \in {<<"lms", 17>>, <<"hqplayer", 44>>}
    BY <1>1, StagesDiffer, StepAt DEF Flush, Doing
<1>3. Goes(h, At(h)) /\ Holds(h) /\ Skips(h, At(h))
    BY <1>1, <1>2, ContinueGoes DEF Flush, Skips
<1>4. UNCHANGED <<disk, enabled, running, flag, token, cancelled, task, server, known,
                  worker, ingress, listed, requests, orphaned,
                  unsaved, lags>>
    BY DEF Flush, coordinatorVars, adapterVars, projectionVars, historyVars
<1>5. /\ bus' \in Seq(Hint) /\ Len(bus') <= BusCapacity /\ lost' \in BOOLEAN
      /\ At(h) = 17 /\ ~lost' =>
            /\ ~lost /\ Len(bus') = Len(bus) + 1 /\ Len(bus) \in Nat
            /\ \A k \in 1 .. Len(bus) : bus'[k] = bus[k]
            /\ bus'[Len(bus) + 1].type = "stopping"
  <2>1. bus \in Seq(Hint) /\ Len(bus) <= BusCapacity /\ lost \in BOOLEAN /\ Len(bus) \in Nat
      BY <1>1, TypedParts DEF OthersTyped, Hint
  <2>2. CASE At(h) = 17
    <3> DEFINE e == [type |-> "stopping", server |-> NoServer]
    <3>1. Publish(e)
        BY <1>2, <2>2 DEF Flush
    <3>2. e \in Hint /\ e.type = "stopping"
        BY DEF Hint
    <3> HIDE DEF e
    <3>3. /\ bus' \in Seq(Hint) /\ Len(bus') <= BusCapacity /\ lost' \in BOOLEAN
          /\ ~lost' => /\ ~lost /\ Len(bus') = Len(bus) + 1
                       /\ \A k \in 1 .. Len(bus) : bus'[k] = bus[k]
                       /\ bus'[Len(bus) + 1] = e
        BY Zenon, <2>1, <3>1, <3>2, Publishes
    <3> QED BY Zenon, <2>1, <3>2, <3>3
  <2>3. CASE At(h) # 17
    <3>1. UNCHANGED <<bus, lost>>
        BY <1>2, <2>3 DEF Flush
    <3> QED BY <2>1, <2>3, <3>1
  <2> QED BY <2>2, <2>3
<1>6. Typed'
  <2>1. OthersTyped'
      BY <1>1, <1>4, <1>5, TypedParts DEF OthersTyped, Hint
  <2>2. (worker \in [Observers -> [Tokens -> Worker]])'
      BY <1>1, <1>4 DEF Typed
  <2> QED BY <1>3, <2>1, <2>2, TypedNext DEF Goes
<1>7. AppliedFits(h)' /\ ServerNamed(h)' /\ TokensSuffice(h)' /\ WorkersFit(h)'
    BY <1>1, <1>2, <1>3, <1>4, AppliedGoes, ServerGoes, TokensGo, WorkersGo
<1>8. OffFits(h)' /\ SavedFits(h)' /\ ObservedFits'
    BY <1>1, <1>2, <1>3, <1>4, OffGoes, SavedGoes, ObservedStays
<1>9. ZonesFit(h)'
  <2>1. CASE At(h) = 44
    <3>1. UNCHANGED <<bus, lost>>
        BY <1>2, <2>1 DEF Flush
    <3> QED BY <1>1, <1>2, <1>3, <1>4, <2>1, <3>1, ZonesGo
  <2>2. CASE At(h) = 17 /\ ~lost'
    <3>1. Leads(At(h), At(h)') \/ (At(h)' = 0 /\ At(h) \in Final)
        BY <1>1, <1>2, <1>3, FittingStep DEF Goes, Moved
    <3>2. At(h)' = 18
        BY <2>2, <3>1 DEF Leads, Final
    <3>3. /\ ~lost /\ Len(bus') = Len(bus) + 1 /\ Len(bus) \in Nat
          /\ \A k \in 1 .. Len(bus) : bus'[k] = bus[k]
          /\ bus'[Len(bus) + 1].type = "stopping"
        BY <1>5, <2>2
    <3>4. \A n \in 1 .. Len(bus) + 1 : Flushed(h, n)'
        BY <3>3 DEF Flushed
    <3>5. Flushed(h, 1)' /\ \A k \in 1 .. Len(bus') : Flushed(h, k)'
        BY <3>3, <3>4
    <3>6. \A o : Live(o)' = Live(o)
        BY <1>4 DEF Live
    <3> QED BY <1>1, <1>4, <3>3, <3>5, <3>6 DEF ZonesFit
  <2>3. CASE lost'
      BY <2>3 DEF ZonesFit
  <2> QED BY <1>2, <2>1, <2>2, <2>3
<1> QED BY <1>3, <1>6, <1>7, <1>8, <1>9 DEF Good, Fits, Goes

(* One worker changes.                                                     *)
LEMMA OneWorker ==
    ASSUME worker \in [Observers -> [Tokens -> Worker]],
           NEW o \in Observers, NEW t \in Tokens, NEW w \in Worker,
           worker' = [worker EXCEPT ![o] = [worker[o] EXCEPT ![t] = w]]
    PROVE  /\ (worker \in [Observers -> [Tokens -> Worker]])' /\ worker'[o][t] = w
           /\ \A u \in Observers, v \in Tokens : u # o \/ v # t => worker'[u][v] = worker[u][v]
           /\ Live(o)' = IF w.phase = "none" THEN Live(o) \ {t} ELSE Live(o) \cup {t}
           /\ \A u \in Observers : u # o => Live(u)' = Live(u)
<1>1. worker' \in [Observers -> [Tokens -> Worker]] /\ worker'[o][t] = w
    OBVIOUS
<1>2. \A u \in Observers, v \in Tokens : u # o \/ v # t => worker'[u][v] = worker[u][v]
    OBVIOUS
<1>3. ASSUME NEW u \in Observers, u # o
      PROVE  Live(u)' = Live(u)
    BY <1>2, <1>3 DEF Live
<1>4. \A v : v \in Live(o)' <=> IF v = t THEN w.phase # "none" ELSE v \in Live(o)
    BY <1>1, <1>2 DEF Live
<1>5. Live(o)' = IF w.phase = "none" THEN Live(o) \ {t} ELSE Live(o) \cup {t}
    BY <1>4
<1> QED BY <1>1, <1>2, <1>3, <1>5

(* The worker is spawned.                                                  *)
LEMMA SpawnStep ==
    ASSUME NEW h \in Handlers, Good(h), Spawn(h)
    PROVE  Good(h)'
<1>1. /\ Typed /\ ObservedFits /\ PlanFits(h) /\ AppliedFits(h) /\ ServerNamed(h)
      /\ TokensSuffice(h) /\ WorkersFit(h) /\ OffFits(h) /\ SavedFits(h) /\ ZonesFit(h)
    BY DEF Good, Fits
<1>2. handler[h].todo # <<>> /\ At(h) # 0
      /\ <<Current(h).who, At(h)>> \in {<<Main, 26>>, <<Companion, 30>>}
    BY <1>1, StagesDiffer, StepAt DEF Spawn, Doing
<1>3. Goes(h, At(h)) /\ Holds(h) /\ Skips(h, At(h))
    BY <1>1, <1>2, ContinueGoes DEF Spawn, Skips
<1>4. UNCHANGED <<disk, enabled, running, flag, token, cancelled, server, known,
                  ingress, bus, listed, requests, lost, orphaned,
                  unsaved, lags>>
    BY DEF Spawn, coordinatorVars, adapterVars, projectionVars, historyVars
<1>5. PICK o \in Observers, t \in Tokens :
           /\ o = Current(h).who /\ t = handler[h].token
           /\ t = token[o] /\ Live(o) = {} /\ flag[o]
           /\ o = Main <=> At(h) = 26
           /\ task' = [task EXCEPT ![o] = t]
           /\ worker' = [worker EXCEPT ![o][t].phase = IF o = Main THEN "first" ELSE "up"]
  <2>1. Current(h).who \in Observers
      BY <1>2 DEF Observers
  <2>2. handler[h].token \in Tokens \cup {NoToken}
      BY <1>1 DEF Typed, Request
  <2>3. handler[h].token = token[Current(h).who] /\ handler[h].token # NoToken
      BY <1>1, <1>2 DEF WorkersFit
  <2>4. Live(Current(h).who) = {}
      BY <1>1, <1>2, <2>1 DEF WorkersFit, NoneAt, Main, Companion
  <2>5. /\ flag[Current(h).who]
        /\ Current(h).who = Main <=> At(h) = 26
      BY <1>1, <1>2 DEF WorkersFit, Main, Companion
  <2> QED BY <2>1, <2>2, <2>3, <2>4, <2>5 DEF Spawn
<1>6. PICK w \in Worker :
           /\ w.phase # "none" /\ w.poll = NoServer /\ w.out = <<>>
           /\ worker' = [worker EXCEPT ![o] = [worker[o] EXCEPT ![t] = w]]
  <2> DEFINE w == [phase |-> IF o = Main THEN "first" ELSE "up", poll |-> NoServer, out |-> <<>>]
  <2>1. worker[o][t] = Absent
    <3>1. worker[o][t].phase = "none"
        BY <1>5 DEF Live
    <3> QED BY <1>1, <1>5, <3>1 DEF ObservedFits
  <2>2. [worker[o][t] EXCEPT !.phase = IF o = Main THEN "first" ELSE "up"] = w
      BY <2>1 DEF Absent
  <2>3. worker' = [worker EXCEPT ![o] = [worker[o] EXCEPT ![t] = w]]
      BY <1>5, <2>2
  <2>4. w \in Worker /\ w.phase # "none" /\ w.poll = NoServer /\ w.out = <<>>
      BY DEF Worker
  <2> QED BY Zenon, <2>3, <2>4
<1>7. /\ (worker \in [Observers -> [Tokens -> Worker]])' /\ worker'[o][t] = w
      /\ \A u \in Observers, v \in Tokens : u # o \/ v # t => worker'[u][v] = worker[u][v]
      /\ Live(o)' = {t}
      /\ \A u \in Observers : u # o => Live(u)' = Live(u)
  <2>1. worker \in [Observers -> [Tokens -> Worker]]
      BY <1>1 DEF Typed
  <2>2. /\ (worker \in [Observers -> [Tokens -> Worker]])' /\ worker'[o][t] = w
        /\ \A u \in Observers, v \in Tokens : u # o \/ v # t => worker'[u][v] = worker[u][v]
        /\ Live(o)' = IF w.phase = "none" THEN Live(o) \ {t} ELSE Live(o) \cup {t}
        /\ \A u \in Observers : u # o => Live(u)' = Live(u)
      BY Zenon, <1>6, <2>1, OneWorker
  <2>3. Live(o)' = {t}
      BY <1>5, <1>6, <2>2
  <2> QED BY Zenon, <2>2, <2>3
<1>8. Typed'
  <2>1. OthersTyped'
    <3>1. (task \in [Observers -> Tokens \cup {NoToken}])'
        BY <1>1, <1>5, TypedParts DEF OthersTyped
    <3> QED BY <1>1, <1>4, <3>1, TypedParts DEF OthersTyped
  <2> QED BY <1>3, <1>7, <2>1, TypedNext DEF Goes
<1>9. At(h) \in {26, 30} /\ At(h)' = At(h) + 1
  <2>1. Leads(At(h), At(h)') \/ (At(h)' = 0 /\ At(h) \in Final)
      BY <1>1, <1>2, <1>3, FittingStep DEF Goes, Moved
  <2>2. At(h) \in {26, 30}
      BY <1>2
  <2> QED BY <2>1, <2>2 DEF Leads, Final
<1>10. AppliedFits(h)' /\ ServerNamed(h)' /\ TokensSuffice(h)' /\ SavedFits(h)'
    BY <1>1, <1>2, <1>3, <1>4, AppliedGoes, ServerGoes, TokensGo, SavedGoes
<1>11. WorkersFit(h)'
  <2>1. ASSUME NEW u \in Observers
        PROVE  /\ At(h)' \notin NoneAt(u) /\ At(h) # JoinOf(u) /\ At(h)' # JoinOf(u)
      BY <1>9 DEF JoinOf, NoneAt, Observers, Main, Companion
  <2>2. ASSUME NEW u \in Observers
        PROVE  /\ Live(u)' \subseteq {token[u]}
               /\ Live(u)' # {} => task'[u] = token[u]
               /\ ~flag[u] => Live(u)' = {} \/ u = Main
    <3>1. task \in [Observers -> Tokens \cup {NoToken}]
        BY <1>1 DEF Typed, OthersTyped
    <3>2. task'[u] = IF u = o THEN t ELSE task[u]
        BY <1>5, <3>1
    <3>3. CASE u = o
        BY <1>5, <1>7, <3>2, <3>3
    <3>4. CASE u # o
      <4>1. Live(u)' = Live(u) /\ task'[u] = task[u]
          BY <1>7, <3>2, <3>4
      <4> QED BY <1>1, <2>1, <4>1 DEF WorkersFit
    <3> QED BY <3>3, <3>4
  <2>3. flag[Companion] => Live(Companion)' # {}
    <3>1. CASE At(h) = 30
      <4>1. o = Companion
          BY <1>2, <1>5, <3>1 DEF Main, Companion
      <4> QED BY <1>7, <4>1
    <3>2. CASE At(h) = 26
      <4>1. Live(Companion)' = Live(Companion)
          BY <1>5, <1>7, <3>2 DEF Main, Companion, Observers
      <4> QED BY <1>1, <3>2, <4>1 DEF WorkersFit
    <3> QED BY <1>9, <3>1, <3>2
  <2>4. At(h)' \notin {25, 26, 29, 30}
      BY <1>9
  <2> QED BY <1>4, <2>1, <2>2, <2>3, <2>4 DEF WorkersFit
<1>12. OffFits(h)'
    BY <1>1, <1>4, <1>9 DEF OffFits
<1>13. ObservedFits'
  <2> SUFFICES ASSUME NEW u \in Observers, NEW v \in Tokens
               PROVE  (/\ worker[u][v].phase = "none" => worker[u][v] = Absent
                       /\ worker[u][v].poll \in {NoServer, server}
                       /\ \A i \in 1 .. Len(worker[u][v].out) :
                             worker[u][v].out[i].type = "zone" => worker[u][v].out[i].server = server)'
      BY DEF ObservedFits
  <2>1. CASE u = o /\ v = t
      BY <1>4, <1>6, <1>7, <2>1
  <2>2. CASE u # o \/ v # t
      BY <1>1, <1>4, <1>7, <2>2 DEF ObservedFits
  <2> QED BY <2>1, <2>2
<1>14. ZonesFit(h)'
  <2>1. \A n : Flushed(h, n) => Flushed(h, n)'
      BY <1>4, <1>9 DEF Flushed
  <2>2. \A s : Shows(h, s) => Shows(h, s)'
      BY <1>4, <1>9 DEF Shows, Serving
  <2>3. \A u \in Observers : Live(u) \subseteq Live(u)'
      BY <1>5, <1>7
  <2>4. \A i \in 1 .. Len(ingress) : ingress[i].by[1] \in Observers
      BY <1>1, LaneTyped
  <2> QED BY <1>1, <1>4, <2>1, <2>2, <2>3, <2>4 DEF ZonesFit
<1> QED BY <1>3, <1>8, <1>10, <1>11, <1>12, <1>13, <1>14 DEF Good, Fits, Goes

(* A fresh cancellation token.                                             *)
LEMMA FreshTokenStep ==
    ASSUME NEW h \in Handlers, Good(h), FreshToken(h)
    PROVE  Good(h)'
<1>1. /\ Typed /\ ObservedFits /\ PlanFits(h) /\ AppliedFits(h) /\ ServerNamed(h)
      /\ TokensSuffice(h) /\ WorkersFit(h) /\ OffFits(h) /\ SavedFits(h) /\ ZonesFit(h)
    BY DEF Good, Fits
<1>2. handler[h].todo # <<>> /\ At(h) # 0
      /\ <<Current(h).who, At(h)>> \in {<<Main, 25>>, <<Companion, 29>>}
    BY <1>1, StagesDiffer, StepAt DEF FreshToken, Doing
<1>3. UNCHANGED <<disk, enabled, running, flag, cancelled, task, server, known, worker,
                  ingress, bus, listed, requests, lost, orphaned, unsaved, lags>>
    BY DEF FreshToken, coordinatorVars, adapterVars, projectionVars, historyVars
<1>4. PICK o \in Observers :
           /\ o = Current(h).who
           /\ o = Main <=> At(h) = 25
           /\ o = Companion <=> At(h) = 29
           /\ token' = [token EXCEPT ![o] = @ + 1]
           /\ handler' = [handler EXCEPT ![h].token = token[o] + 1, ![h].todo = Rest(h)]
  <2>1. Current(h).who \in Observers
      BY <1>2 DEF Observers
  <2>2. /\ Current(h).who = Main <=> At(h) = 25
        /\ Current(h).who = Companion <=> At(h) = 29
      BY <1>2 DEF Main, Companion
  <2> QED BY <2>1, <2>2 DEF FreshToken
<1>5. token[o] \in Nat /\ token[o] < requests /\ requests \in 0 .. MaxRequests
  <2>1. token[o] \in Tokens \cup {NoToken} /\ requests \in 0 .. MaxRequests
      BY <1>1 DEF Typed, OthersTyped
  <2>2. StepFits(h, At(h))
      BY <1>1, <1>2, StepAt
  <2>3. At(h) # 0 /\ At(h) \notin Spent(o) /\ At(h) \in {1} \cup 24 .. 31
      BY <1>2, <1>4 DEF Spent, Main, Companion
  <2>4. token[o] < requests
      BY <1>1, <2>3 DEF TokensSuffice
  <2> QED BY <2>1, <2>4, LifecycleAssumption DEF Tokens, NoToken
<1>6. token[o] + 1 \in Tokens /\ token[o] + 1 # NoToken
    BY <1>5, LifecycleAssumption DEF Tokens, NoToken
<1>7. token \in [Observers -> Tokens \cup {NoToken}] /\ handler \in [Handlers -> Request]
    BY <1>1 DEF Typed, OthersTyped
<1>8. /\ (token \in [Observers -> Tokens \cup {NoToken}])'
      /\ token'[o] = token[o] + 1 /\ \A u \in Observers : u # o => token'[u] = token[u]
    BY <1>4, <1>6, <1>7
<1>9. /\ (handler \in [Handlers -> Request])' /\ Same(h) /\ handler'[h].todo = Rest(h)
      /\ handler'[h].applied = handler[h].applied /\ handler'[h].token = token[o] + 1
      /\ handler'[h].join = handler[h].join
  <2>1. handler' = [handler EXCEPT ![h] = [@ EXCEPT !.token = token[o] + 1, !.todo = Rest(h)]]
      BY <1>4
  <2>2. Rest(h) \in Seq(Steps)
      BY <1>2, <1>7, LeftByOne DEF Rest, Request
  <2> QED BY <1>6, <1>7, <2>1, <2>2 DEF Request, Same
<1>10. Goes(h, At(h)) /\ Skips(h, At(h))
  <2>1. At(h) \notin Final \cup {2, 42}
      BY <1>2 DEF Final
  <2> QED BY <1>1, <1>2, <1>9, <2>1, TailGoes DEF Skips
<1>11. At(h) \in {25, 29} /\ At(h)' = At(h) + 1
  <2>1. Leads(At(h), At(h)') \/ (At(h)' = 0 /\ At(h) \in Final)
      BY <1>1, <1>2, <1>10, FittingStep DEF Goes, Moved
  <2>2. At(h) \in {25, 29}
      BY <1>2
  <2> QED BY <2>1, <2>2 DEF Leads, Final
<1>12. Typed'
  <2>1. OthersTyped'
      BY <1>1, <1>3, <1>8, TypedParts DEF OthersTyped
  <2>2. (worker \in [Observers -> [Tokens -> Worker]])'
      BY <1>1, <1>3 DEF Typed
  <2> QED BY <1>9, <2>1, <2>2, TypedNext
<1>13. AppliedFits(h)' /\ ServerNamed(h)' /\ ObservedFits'
    BY <1>1, <1>2, <1>3, <1>10, AppliedGoes, ServerGoes, ObservedStays
<1>14. OffFits(h)' /\ SavedFits(h)' /\ ZonesFit(h)'
    BY <1>1, <1>2, <1>3, <1>10, OffGoes, SavedGoes, ZonesGo
<1>15. TokensSuffice(h)'
  <2>1. ASSUME NEW u \in Observers
        PROVE  /\ token'[u] <= requests
               /\ At(h)' \notin Spent(u) => token'[u] < requests
    <3>1. CASE u = o
      <4>1. At(h)' \in Spent(u)
          BY <1>4, <1>11, <3>1 DEF Spent, Main, Companion
      <4> QED BY <1>5, <1>8, <3>1, <4>1
    <3>2. CASE u # o
      <4>1. token'[u] = token[u]
          BY <1>8, <3>2
      <4>2. At(h)' \notin Spent(u) => At(h) \notin Spent(u) /\ At(h) \in 24 .. 31 /\ At(h) # 0
          BY <1>11 DEF Spent
      <4> QED BY <1>1, <4>1, <4>2 DEF TokensSuffice
    <3> QED BY <3>1, <3>2
  <2> QED BY <1>3, <2>1 DEF TokensSuffice
<1>16. WorkersFit(h)'
  <2>1. \A u \in Observers : Live(u)' = Live(u)
      BY <1>3 DEF Live
  <2>2. Live(o) = {}
      BY <1>1, <1>2, <1>4 DEF WorkersFit, NoneAt, Main, Companion
  <2>3. ASSUME NEW u \in Observers
        PROVE  /\ At(h)' \in NoneAt(u) => At(h) \in NoneAt(u)
               /\ At(h) # JoinOf(u) /\ At(h)' # JoinOf(u)
      BY <1>11 DEF JoinOf, NoneAt, Observers, Main, Companion
  <2>4. ASSUME NEW u \in Observers
        PROVE  /\ Live(u)' \subseteq {token'[u]}
               /\ Live(u)' # {} => task'[u] = token'[u]
               /\ At(h)' \in NoneAt(u) => Live(u)' = {}
               /\ ~flag'[u] => Live(u)' = {} \/ u = Main
    <3>1. CASE u = o
        BY <2>1, <2>2, <3>1
    <3>2. CASE u # o
      <4>1. Live(u)' = Live(u) /\ task'[u] = task[u] /\ token'[u] = token[u] /\ flag'[u] = flag[u]
          BY <1>3, <1>8, <2>1, <3>2
      <4> QED BY <1>1, <2>3, <4>1 DEF WorkersFit
    <3> QED BY <3>1, <3>2
  <2>5. /\ At(h)' = 26 => flag[Main] /\ handler'[h].token = token'[Main] /\ handler'[h].token # NoToken
        /\ At(h)' = 30 => flag[Companion] /\ handler'[h].token = token'[Companion]
                          /\ handler'[h].token # NoToken
      BY <1>1, <1>4, <1>6, <1>8, <1>9, <1>11 DEF WorkersFit
  <2>6. flag[Companion] => Live(Companion) # {} \/ At(h)' \in {29, 30}
      BY <1>1, <1>11 DEF WorkersFit
  <2>7. At(h)' \in {26, 30}
      BY <1>11
  <2>8. Live(Companion)' = Live(Companion)
      BY <2>1 DEF Observers
  <2> QED BY <1>3, <2>3, <2>4, <2>5, <2>6, <2>7, <2>8 DEF WorkersFit
<1> QED BY <1>10, <1>12, <1>13, <1>14, <1>15, <1>16 DEF Good, Fits, Goes

(* The worker is cancelled and its task taken.                             *)
LEMMA CancelStep ==
    ASSUME NEW h \in Handlers, Good(h), Cancel(h)
    PROVE  Good(h)'
<1>1. /\ Typed /\ ObservedFits /\ PlanFits(h) /\ AppliedFits(h) /\ ServerNamed(h)
      /\ TokensSuffice(h) /\ WorkersFit(h) /\ OffFits(h) /\ SavedFits(h) /\ ZonesFit(h)
    BY DEF Good, Fits
<1>2. handler[h].todo # <<>> /\ At(h) # 0
      /\ <<Current(h).who, At(h)>> \in {<<Main, 11>>, <<Companion, 14>>}
    BY <1>1, StagesDiffer, StepAt DEF Cancel, Doing
<1>3. UNCHANGED <<disk, enabled, running, flag, token, server, known, worker,
                  ingress, bus, listed, requests, lost, orphaned, unsaved, lags>>
    BY DEF Cancel, coordinatorVars, adapterVars, projectionVars, historyVars
<1>4. PICK o \in Observers :
           /\ o = Current(h).who
           /\ At(h) = JoinOf(o) - 1
           /\ cancelled' = [cancelled EXCEPT ![o] = @ \cup {token[o]}]
           /\ task' = [task EXCEPT ![o] = NoToken]
           /\ handler' = [handler EXCEPT ![h].join = task[o], ![h].todo = Rest(h)]
  <2>1. Current(h).who \in Observers
      BY <1>2 DEF Observers
  <2>2. At(h) = JoinOf(Current(h).who) - 1
      BY <1>2 DEF JoinOf, Main, Companion
  <2> QED BY <2>1, <2>2 DEF Cancel
<1>5. /\ token[o] \in Tokens \cup {NoToken} /\ task \in [Observers -> Tokens \cup {NoToken}]
      /\ cancelled \in [Observers -> SUBSET (Tokens \cup {NoToken})]
      /\ handler \in [Handlers -> Request]
    BY <1>1 DEF Typed, OthersTyped
<1>6. /\ (task \in [Observers -> Tokens \cup {NoToken}])'
      /\ \A u \in Observers : u # o => task'[u] = task[u]
    BY <1>4, <1>5
<1>7. (cancelled \in [Observers -> SUBSET (Tokens \cup {NoToken})])'
    BY <1>4, <1>5
<1>8. /\ (handler \in [Handlers -> Request])' /\ Same(h) /\ handler'[h].todo = Rest(h)
      /\ handler'[h].applied = handler[h].applied /\ handler'[h].join = task[o]
  <2>1. handler' = [handler EXCEPT ![h] = [@ EXCEPT !.join = task[o], !.todo = Rest(h)]]
      BY <1>4
  <2>2. Rest(h) \in Seq(Steps)
      BY <1>2, <1>5, LeftByOne DEF Rest, Request
  <2>3. task[o] \in Tokens \cup {NoToken}
      BY <1>5
  <2> QED BY <1>5, <2>1, <2>2, <2>3 DEF Request, Same
<1>9. Goes(h, At(h)) /\ Skips(h, At(h))
  <2>1. At(h) \notin Final \cup {2, 42}
      BY <1>2 DEF Final
  <2> QED BY <1>1, <1>2, <1>8, <2>1, TailGoes DEF Skips
<1>10. At(h) \in {11, 14} /\ At(h)' = At(h) + 1
  <2>1. Leads(At(h), At(h)') \/ (At(h)' = 0 /\ At(h) \in Final)
      BY <1>1, <1>2, <1>9, FittingStep DEF Goes, Moved
  <2>2. At(h) \in {11, 14}
      BY <1>2
  <2> QED BY <2>1, <2>2 DEF Leads, Final
<1>11. Typed'
  <2>1. OthersTyped'
      BY <1>1, <1>3, <1>6, <1>7, TypedParts DEF OthersTyped
  <2>2. (worker \in [Observers -> [Tokens -> Worker]])'
      BY <1>1, <1>3 DEF Typed
  <2> QED BY <1>8, <2>1, <2>2, TypedNext
<1>12. AppliedFits(h)' /\ ServerNamed(h)' /\ TokensSuffice(h)' /\ ObservedFits'
    BY <1>1, <1>2, <1>3, <1>9, AppliedGoes, ServerGoes, TokensGo, ObservedStays
<1>13. SavedFits(h)' /\ ZonesFit(h)'
    BY <1>1, <1>2, <1>3, <1>9, SavedGoes, ZonesGo
<1>14. \A u \in Observers : Live(u)' = Live(u)
    BY <1>3 DEF Live
<1>15. OffFits(h)'
    BY <1>1, <1>3, <1>10, <1>14 DEF OffFits, Observers
<1>16. WorkersFit(h)'
  <2>1. ASSUME NEW u \in Observers
        PROVE  /\ At(h)' \in NoneAt(u) => At(h) \in NoneAt(u)
               /\ At(h) # JoinOf(u)
               /\ At(h)' = JoinOf(u) <=> u = o
      BY <1>4, <1>10 DEF JoinOf, NoneAt, Observers, Main, Companion
  <2>2. ASSUME NEW u \in Observers
        PROVE  /\ Live(u)' \subseteq {token'[u]}
               /\ Live(u)' # {} => IF At(h)' = JoinOf(u) THEN handler'[h].join = token'[u]
                                                         ELSE task'[u] = token'[u]
               /\ At(h)' \in NoneAt(u) => Live(u)' = {}
               /\ ~flag'[u] => Live(u)' = {} \/ u = Main
    <3>1. Live(u)' = Live(u) /\ token'[u] = token[u] /\ flag'[u] = flag[u]
        BY <1>3, <1>14
    <3>2. CASE u = o
        BY <1>1, <1>8, <2>1, <3>1, <3>2 DEF WorkersFit
    <3>3. CASE u # o
      <4>1. task'[u] = task[u]
          BY <1>6, <3>3
      <4> QED BY <1>1, <2>1, <3>1, <3>3, <4>1 DEF WorkersFit
    <3> QED BY <3>2, <3>3
  <2>3. At(h)' \notin {25, 26, 29, 30} /\ At(h) \notin {29, 30}
      BY <1>10
  <2>4. Live(Companion)' = Live(Companion)
      BY <1>14 DEF Observers
  <2>5. \A u \in Observers : (JoinOf(u))' = JoinOf(u) /\ (NoneAt(u))' = NoneAt(u)
      BY DEF JoinOf, NoneAt
  <2> QED BY <1>1, <1>3, <2>2, <2>3, <2>4, <2>5 DEF WorkersFit
<1> QED BY <1>9, <1>11, <1>12, <1>13, <1>15, <1>16 DEF Good, Fits, Goes

(* The steps that follow each other without a choice.                      *)
LEMMA Ahead ==
    ASSUME NEW h \in Handlers, Typed, PlanFits(h), NEW i \in 1 .. Len(handler[h].todo),
           NEW n, Stage(handler[h].todo[i]) = n,
           n \in ((11 .. 30) \ {19}) \cup {43, 44, 46}
    PROVE  /\ i + 1 \in 1 .. Len(handler[h].todo)
           /\ Stage(handler[h].todo[i + 1]) = n + 1
<1> DEFINE l == Len(handler[h].todo)
<1>1. l \in Nat
    BY DEF Typed, Request
<1>2. At(h) # 0
  <2>1. handler[h].todo # <<>>
      BY <1>1
  <2> QED BY <2>1, StepAt
<1>3. Last(h) \in Final
    BY <1>2 DEF PlanFits
<1>4. ASSUME i = l
      PROVE  FALSE
  <2>1. Last(h) = n
      BY <1>2, <1>4 DEF At, Last
  <2> QED BY SMTT(30), <1>3, <2>1 DEF Final
<1>5. i < l /\ i + 1 \in 1 .. l
    BY <1>1, <1>4
<1>6. Leads(n, Stage(handler[h].todo[i + 1]))
    BY <1>5 DEF PlanFits
<1> QED BY <1>5, <1>6 DEF Leads

(* The request drops its next n steps and goes on.                         *)
LEMMA DropGoes ==
    ASSUME NEW h \in Handlers, Typed, PlanFits(h), NEW n \in 1 .. Len(handler[h].todo),
           \A i \in 1 .. n : Stage(handler[h].todo[i]) \notin {2, 42},
           Continue(h, Drop(n, handler[h].todo))
    PROVE  Goes(h, Stage(handler[h].todo[n])) /\ Holds(h)
<1> DEFINE s == handler[h].todo
<1> DEFINE r == SubSeq(s, n + 1, Len(s))
<1>1. s \in Seq(Steps) /\ handler \in [Handlers -> Request] /\ Len(s) \in Nat
    BY DEF Typed, Request
<1>2. /\ r \in Seq(Steps) /\ Len(r) = Len(s) - n
      /\ \A i \in 1 .. Len(s) - n : r[i] = s[n + i]
    BY <1>1, Left
<1> HIDE DEF r
<1>3. /\ (handler \in [Handlers -> Request])'
      /\ r = <<>> => handler'[h] = Idle
      /\ r # <<>> => handler'[h] = [handler[h] EXCEPT !.todo = r]
    BY <1>1, <1>2, ContinueTyped DEF Drop, r
<1>4. r # <<>> =>
         /\ Same(h) /\ handler'[h].todo = r /\ handler'[h].applied = handler[h].applied
         /\ handler'[h].token = handler[h].token /\ handler'[h].join = handler[h].join
    BY <1>1, <1>3 DEF Same, Request
<1>5. r = <<>> => At(h)' = 0
    BY <1>3 DEF At, Idle
<1>6. IF r = <<>> THEN n = Len(s) ELSE n < Len(s)
  <2>1. r = <<>> <=> Len(r) = 0
      BY Zenon, <1>2, EmptySeq
  <2> QED BY <1>1, <1>2, <2>1
<1>7. PlanFits(h)' /\ Moved(h, Stage(s[n]))
  <2>1. CASE r = <<>>
      BY Zenon, <1>3, <1>6, <2>1, Advance
  <2>2. CASE r # <<>>
    <3>1. /\ Same(h) /\ n < Len(s) /\ Len(handler'[h].todo) = Len(s) - n
          /\ \A i \in 1 .. Len(s) - n : handler'[h].todo[i] = s[n + i]
        BY Zenon, <1>2, <1>4, <1>6, <2>2
    <3> QED BY Zenon, <1>3, <3>1, Advance
  <2> QED BY Zenon, <2>1, <2>2
<1> QED BY Zenon, <1>3, <1>4, <1>5, <1>7 DEF Goes, Holds

(* The workers are as they were, and nothing is expected of them.          *)
LEMMA WorkersKeep ==
    ASSUME NEW h \in Handlers, Typed, WorkersFit(h), UNCHANGED <<flag, token, task, worker>>,
           At(h) \notin {12, 15, 29, 30}, At(h)' \notin {12, 15, 25, 26, 29, 30},
           \A o \in Observers : At(h)' \in NoneAt(o) => At(h) \in NoneAt(o)
    PROVE  WorkersFit(h)'
<1>1. \A o \in Observers : Live(o)' = Live(o)
    BY DEF Live
<1>2. \A o \in Observers : At(h) # JoinOf(o) /\ At(h)' # JoinOf(o)
    BY DEF JoinOf
<1>3. \A o \in Observers : (JoinOf(o))' = JoinOf(o) /\ (NoneAt(o))' = NoneAt(o)
    BY DEF JoinOf, NoneAt
<1>4. (\A o \in Observers :
          /\ Live(o) \subseteq {token[o]}
          /\ Live(o) # {} => IF At(h) = JoinOf(o) THEN handler[h].join = token[o]
                                                  ELSE task[o] = token[o]
          /\ At(h) \in NoneAt(o) => Live(o) = {}
          /\ ~flag[o] => Live(o) = {} \/ o = Main)'
  <2> SUFFICES ASSUME NEW o \in Observers
               PROVE  /\ Live(o)' \subseteq {token'[o]}
                      /\ Live(o)' # {} => task'[o] = token'[o]
                      /\ At(h)' \in NoneAt(o) => Live(o)' = {}
                      /\ ~flag'[o] => Live(o)' = {} \/ o = Main
      BY <1>2, <1>3
  <2> QED BY <1>1, <1>2 DEF WorkersFit
<1>5. Live(Companion)' = Live(Companion)
    BY <1>1 DEF Observers
<1> QED BY <1>4, <1>5 DEF WorkersFit

(* The toggle of LMS is saved.                                             *)
LEMMA MarkStep ==
    ASSUME NEW h \in Handlers, Good(h), Mark(h)
    PROVE  Good(h)'
<1>1. /\ Typed /\ ObservedFits /\ PlanFits(h) /\ AppliedFits(h) /\ ServerNamed(h)
      /\ TokensSuffice(h) /\ WorkersFit(h) /\ OffFits(h) /\ SavedFits(h) /\ ZonesFit(h)
    BY DEF Good, Fits
<1>2. handler[h].todo # <<>> /\ At(h) # 0
      /\ At(h) = 22 /\ ~Toggling(h) /\ ~handler[h].back
    BY <1>1, StagesDiffer, StepAt, FittingStep DEF Mark, Doing, StepFits
<1>3. UNCHANGED <<enabled, running, flag, token, cancelled, task, server, known, worker,
                  ingress, bus, listed, requests, lost, orphaned, unsaved, lags>>
    BY DEF Mark, coordinatorVars, adapterVars, projectionVars, historyVars
<1>4. /\ disk \in [on : Toggles, hidden : BOOLEAN] /\ enabled \in [Adapters -> BOOLEAN]
      /\ worker \in [Observers -> [Tokens -> Worker]]
    BY <1>1 DEF Typed, OthersTyped
<1>5. \A o : Live(o)' = Live(o)
    BY <1>3 DEF Live
<1>6. CASE disk' = [disk EXCEPT !.on["lms"] = TRUE] /\ Continue(h, Rest(h))
  <2>1. Goes(h, At(h)) /\ Holds(h) /\ Skips(h, At(h))
      BY <1>1, <1>2, <1>6, ContinueGoes DEF Skips
  <2>2. /\ disk' \in [on : Toggles, hidden : BOOLEAN]
        /\ disk'.on["lms"] = TRUE /\ disk'.on["hqplayer"] = disk.on["hqplayer"]
      BY <1>4, <1>6 DEF Toggles, Providers
  <2>3. Typed'
    <3>1. OthersTyped'
        BY <1>1, <1>3, <2>2, TypedParts DEF OthersTyped
    <3> QED BY <1>3, <1>4, <2>1, <3>1, TypedNext DEF Goes
  <2>4. AppliedFits(h)' /\ ServerNamed(h)' /\ TokensSuffice(h)' /\ WorkersFit(h)'
      BY <1>1, <1>2, <1>3, <2>1, AppliedGoes, ServerGoes, TokensGo, WorkersGo
  <2>5. OffFits(h)' /\ ZonesFit(h)' /\ ObservedFits'
      BY <1>1, <1>2, <1>3, <2>1, OffGoes, ZonesGo, ObservedStays
  <2>6. SavedFits(h)'
    <3>1. Leads(At(h), At(h)') \/ (At(h)' = 0 /\ At(h) \in Final)
        BY <1>1, <1>2, <2>1, FittingStep DEF Goes, Moved
    <3>2. At(h)' = 23
        BY <1>2, <3>1 DEF Leads, Final
    <3>3. ~(Toggling(h)') /\ ~handler'[h].back
        BY <1>2, <2>1, <3>2 DEF Goes, Moved, Same, Toggling
    <3>4. unsaved \/ disk.on["hqplayer"] = enabled["hqplayer"]
        BY <1>1, <1>2 DEF SavedFits
    <3> QED BY <1>3, <2>2, <3>2, <3>3, <3>4 DEF SavedFits
  <2> QED BY <2>1, <2>3, <2>4, <2>5, <2>6 DEF Good, Fits, Goes
<1>7. CASE handler' = [handler EXCEPT ![h] = Idle] /\ UNCHANGED disk
  <2>1. handler'[h] = Idle /\ (handler \in [Handlers -> Request])'
    <3>1. Idle \in Request
        BY DEF Idle, Request, Toggles, NoToken
    <3> QED BY <1>1, <1>7, <3>1 DEF Typed
  <2>2. At(h)' = 0 /\ (Toggling(h))' = FALSE
      BY <2>1, IdleFacts DEF At, Toggling
  <2>3. Typed'
    <3>1. OthersTyped'
        BY <1>1, <1>3, <1>7, TypedParts DEF OthersTyped
    <3> QED BY <1>3, <1>4, <2>1, <3>1, TypedNext
  <2>4. PlanFits(h)'
      BY <2>1, <2>2, IdleFacts DEF PlanFits
  <2>5. AppliedFits(h)' /\ ServerNamed(h)' /\ TokensSuffice(h)'
    <3>1. AppliedFits(h)'
        BY <2>1, <2>2, IdleFacts DEF AppliedFits
    <3>2. ServerNamed(h)'
        BY <2>2 DEF ServerNamed
    <3>3. TokensSuffice(h)'
        BY <1>1, <1>3, <2>2 DEF TokensSuffice
    <3> QED BY <3>1, <3>2, <3>3
  <2>6. WorkersFit(h)'
    <3>1. /\ At(h) \notin {12, 15, 29, 30} /\ At(h)' \notin {12, 15, 25, 26, 29, 30}
          /\ \A o \in Observers : At(h)' \notin NoneAt(o)
        BY <1>2, <2>2 DEF NoneAt
    <3> QED BY <1>1, <1>3, <3>1, WorkersKeep
  <2>7. OffFits(h)'
      BY <1>1, <1>2, <1>3, <1>5, <2>2 DEF OffFits
  <2>8. SavedFits(h)'
    <3>1. unsaved \/ \A p \in Providers : disk.on[p] = enabled[p]
        BY <1>1, <1>2 DEF SavedFits, Providers
    <3> QED BY <1>3, <1>7, <2>2, <3>1 DEF SavedFits
  <2>9. ZonesFit(h)'
    <3>1. \A n : Flushed(h, n) => Flushed(h, n)'
        BY <1>2, <1>3, <2>2 DEF Flushed
    <3>2. \A s : Shows(h, s) => Shows(h, s)'
        BY <1>2, <1>3, <2>2 DEF Shows, Serving
    <3> QED BY <1>1, <1>3, <1>5, <3>1, <3>2 DEF ZonesFit
  <2> QED BY <1>1, <1>3, <2>3, <2>4, <2>5, <2>6, <2>7, <2>8, <2>9, ObservedStays DEF Good, Fits
<1> QED BY <1>6, <1>7 DEF Mark

(* The next steps of a request that starts an observer, or HQPlayer.       *)
LEMMA StartAhead ==
    ASSUME NEW h \in Handlers, Typed, PlanFits(h), handler[h].todo # <<>>
    PROVE  /\ At(h) \in {24, 28} =>
                 /\ 3 \in 1 .. Len(handler[h].todo) /\ Stage(handler[h].todo[3]) = At(h) + 2
                 /\ \A i \in 1 .. 3 : Stage(handler[h].todo[i]) \notin {2, 42}
           /\ At(h) = 24 =>
                 /\ 8 \in 1 .. Len(handler[h].todo) /\ Stage(handler[h].todo[8]) = 31
                 /\ \A i \in 1 .. 8 : Stage(handler[h].todo[i]) \notin {2, 42}
           /\ At(h) = 46 =>
                 /\ 2 \in 1 .. Len(handler[h].todo) /\ Stage(handler[h].todo[2]) = 47
                 /\ \A i \in 1 .. 2 : Stage(handler[h].todo[i]) \notin {2, 42}
<1> DEFINE s == handler[h].todo
<1> DEFINE P(i, n) == i \in 1 .. Len(s) /\ Stage(s[i]) = n
<1>1. P(1, At(h))
  <2>1. s \in Seq(Steps)
      BY DEF Typed, Request
  <2>2. Len(s) \in Nat \ {0}
      BY Zenon, <2>1, LeftByOne
  <2> QED BY <2>2 DEF At
<1>2. \A i, n : P(i, n) /\ n \in ((11 .. 30) \ {19}) \cup {43, 44, 46} => P(i + 1, n + 1)
    BY ZenonT(40), Ahead
<1> HIDE DEF P
<1>3. \A n : n \in ((11 .. 30) \ {19}) \cup {43, 44, 46} =>
         /\ P(1, n) => P(2, n + 1)
         /\ P(2, n) => P(3, n + 1)
         /\ P(3, n) => P(4, n + 1)
         /\ P(4, n) => P(5, n + 1)
         /\ P(5, n) => P(6, n + 1)
         /\ P(6, n) => P(7, n + 1)
         /\ P(7, n) => P(8, n + 1)
  <2>1. 1 + 1 = 2 /\ 2 + 1 = 3 /\ 3 + 1 = 4 /\ 4 + 1 = 5 /\ 5 + 1 = 6 /\ 6 + 1 = 7 /\ 7 + 1 = 8
      OBVIOUS
  <2> QED BY ZenonT(40), <1>2, <2>1
<1>4. CASE At(h) = 24
  <2>1. P(1, 24)
      BY <1>1, <1>4
  <2>2. P(2, 25)
    <3>1. 24 + 1 = 25 /\ 24 \in ((11 .. 30) \ {19}) \cup {43, 44, 46}
        OBVIOUS
    <3> QED BY Zenon, <1>3, <2>1, <3>1
  <2>3. P(3, 26)
    <3>1. 25 + 1 = 26 /\ 25 \in ((11 .. 30) \ {19}) \cup {43, 44, 46}
        OBVIOUS
    <3> QED BY Zenon, <1>3, <2>2, <3>1
  <2>4. P(4, 27)
    <3>1. 26 + 1 = 27 /\ 26 \in ((11 .. 30) \ {19}) \cup {43, 44, 46}
        OBVIOUS
    <3> QED BY Zenon, <1>3, <2>3, <3>1
  <2>5. P(5, 28)
    <3>1. 27 + 1 = 28 /\ 27 \in ((11 .. 30) \ {19}) \cup {43, 44, 46}
        OBVIOUS
    <3> QED BY Zenon, <1>3, <2>4, <3>1
  <2>6. P(6, 29)
    <3>1. 28 + 1 = 29 /\ 28 \in ((11 .. 30) \ {19}) \cup {43, 44, 46}
        OBVIOUS
    <3> QED BY Zenon, <1>3, <2>5, <3>1
  <2>7. P(7, 30)
    <3>1. 29 + 1 = 30 /\ 29 \in ((11 .. 30) \ {19}) \cup {43, 44, 46}
        OBVIOUS
    <3> QED BY Zenon, <1>3, <2>6, <3>1
  <2>8. P(8, 31)
    <3>1. 30 + 1 = 31 /\ 30 \in ((11 .. 30) \ {19}) \cup {43, 44, 46}
        OBVIOUS
    <3> QED BY Zenon, <1>3, <2>7, <3>1
  <2>9. \A i \in 1 .. 8 : Stage(s[i]) \notin {2, 42}
    <3>1. \A i \in 1 .. 8 : i = 1 \/ i = 2 \/ i = 3 \/ i = 4 \/ i = 5 \/ i = 6 \/ i = 7 \/ i = 8
        OBVIOUS
    <3>2. /\ Stage(s[1]) \notin {2, 42} /\ Stage(s[2]) \notin {2, 42}
          /\ Stage(s[3]) \notin {2, 42} /\ Stage(s[4]) \notin {2, 42}
        BY <2>1, <2>2, <2>3, <2>4 DEF P
    <3>3. /\ Stage(s[5]) \notin {2, 42} /\ Stage(s[6]) \notin {2, 42}
          /\ Stage(s[7]) \notin {2, 42} /\ Stage(s[8]) \notin {2, 42}
        BY <2>5, <2>6, <2>7, <2>8 DEF P
    <3> QED BY Zenon, <3>1, <3>2, <3>3
  <2>10. \A i \in 1 .. 3 : i \in 1 .. 8
      OBVIOUS
  <2>11. 3 \in 1 .. Len(s) /\ Stage(s[3]) = 26 /\ 8 \in 1 .. Len(s) /\ Stage(s[8]) = 31
      BY <2>3, <2>8 DEF P
  <2>12. 26 = 24 + 2 /\ 24 # 28 /\ 24 # 46
      OBVIOUS
  <2> QED BY Zenon, <1>4, <2>9, <2>10, <2>11, <2>12
<1>5. CASE At(h) = 28
  <2>1. P(1, 28)
      BY <1>1, <1>5
  <2>2. P(2, 29)
    <3>1. 28 + 1 = 29 /\ 28 \in ((11 .. 30) \ {19}) \cup {43, 44, 46}
        OBVIOUS
    <3> QED BY Zenon, <1>3, <2>1, <3>1
  <2>3. P(3, 30)
    <3>1. 29 + 1 = 30 /\ 29 \in ((11 .. 30) \ {19}) \cup {43, 44, 46}
        OBVIOUS
    <3> QED BY Zenon, <1>3, <2>2, <3>1
  <2> QED BY <1>5, <2>1, <2>2, <2>3 DEF P
<1>6. CASE At(h) = 46
  <2>1. P(1, 46)
      BY <1>1, <1>6
  <2>2. P(2, 47)
    <3>1. 46 + 1 = 47 /\ 46 \in ((11 .. 30) \ {19}) \cup {43, 44, 46}
        OBVIOUS
    <3> QED BY Zenon, <1>3, <2>1, <3>1
  <2> QED BY <1>6, <2>1, <2>2 DEF P
<1> QED BY <1>4, <1>5, <1>6

(* A start that fails during a roll-back is skipped.                       *)
LEMMA FailedGoes ==
    ASSUME NEW h \in Handlers, Typed, PlanFits(h), handler[h].todo # <<>>,
           handler[h].back, <<Current(h).who, At(h)>> \in {<<Main, 24>>, <<"hqplayer", 46>>},
           Failed(h)
    PROVE  Goes(h, IF At(h) = 24 THEN 31 ELSE 47) /\ Holds(h)
<1>1. Continue(h, Drop(Len(StartGroup(Current(h).who)), handler[h].todo))
    BY DEF Failed
<1>2. Len(StartGroup("lms")) = 8 /\ Len(StartGroup("hqplayer")) = 2
    BY StartLms, StartStages DEF Numbered
<1>3. CASE At(h) = 24
  <2>1. Current(h).who = "lms"
      BY <1>3 DEF Main
  <2>2. Continue(h, Drop(8, handler[h].todo))
      BY Zenon, <1>1, <1>2, <2>1
  <2>3. /\ 8 \in 1 .. Len(handler[h].todo) /\ Stage(handler[h].todo[8]) = 31
        /\ \A i \in 1 .. 8 : Stage(handler[h].todo[i]) \notin {2, 42}
      BY Zenon, <1>3, StartAhead
  <2> QED BY Zenon, <1>3, <2>2, <2>3, DropGoes
<1>4. CASE At(h) = 46
  <2>1. Current(h).who = "hqplayer" /\ At(h) # 24
      BY <1>4 DEF Main
  <2>2. Continue(h, Drop(2, handler[h].todo))
      BY Zenon, <1>1, <1>2, <2>1
  <2>3. /\ 2 \in 1 .. Len(handler[h].todo) /\ Stage(handler[h].todo[2]) = 47
        /\ \A i \in 1 .. 2 : Stage(handler[h].todo[i]) \notin {2, 42}
      BY Zenon, <1>4, StartAhead
  <2> QED BY ZenonT(40), <2>1, <2>2, <2>3, DropGoes
<1> QED BY <1>3, <1>4

(* What a claim leaves alone.                                              *)
ClaimKeeps == UNCHANGED <<disk, enabled, running, token, cancelled, task, server, known, worker,
                          ingress, bus, listed, requests, lost, orphaned, unsaved, lags>>

SkipFrom(a, m) == <<a, m>> \in {<<24, 26>>, <<28, 30>>, <<46, 46>>, <<46, 47>>, <<24, 31>>}
SkipTo(a, b) == <<a, b>> \in {<<24, 27>>, <<28, 31>>, <<46, 47>>, <<46, 2>>, <<46, 3>>, <<46, 0>>,
                              <<24, 3>>, <<24, 41>>, <<24, 0>>}

(* The stages that a claim may lead to.                                    *)
LEMMA SkippedTo ==
    ASSUME NEW a, NEW b, NEW m, SkipFrom(a, m), Leads(m, b) \/ (b = 0 /\ m \in Final)
    PROVE  SkipTo(a, b)
<1>1. CASE a = 24 /\ m = 26
    BY <1>1 DEF Leads, Final, SkipTo
<1>2. CASE a = 28 /\ m = 30
    BY <1>2 DEF Leads, Final, SkipTo
<1>3. CASE a = 46 /\ m \in {46, 47}
    BY <1>3 DEF Leads, Final, SkipTo
<1>4. CASE a = 24 /\ m = 31
    BY <1>4 DEF Leads, Final, SkipTo
<1> QED BY <1>1, <1>2, <1>3, <1>4 DEF SkipFrom

(* Where no join or start is under way.                                    *)
LEMMA BusyAt ==
    ASSUME NEW n \in {0, 2, 3, 27, 31, 41, 47}, NEW o
    PROVE  n \notin NoneAt(o) /\ n \notin {12, 15, 25, 26, 29, 30}
BY DEF NoneAt

(* The claim skips the start, which has been made or has failed.           *)
SkipsStart(h, m) ==
    \/ At(h) = 24 /\ m = 26 /\ server # NoServer
    \/ At(h) = 28 /\ m = 30
    \/ At(h) = 46 /\ m \in {46, 47}
    \/ At(h) = 24 /\ m = 31 /\ handler[h].back

(* A claim that skips the start.                                           *)
LEMMA ClaimSkips ==
    ASSUME NEW h \in Handlers, Good(h), handler[h].todo # <<>>, NEW m,
           Goes(h, m), Holds(h), Skips(h, m), ClaimKeeps, UNCHANGED flag,
           SkipsStart(h, m)
    PROVE  Good(h)'
<1>1. /\ Typed /\ ObservedFits /\ PlanFits(h) /\ AppliedFits(h) /\ ServerNamed(h)
      /\ TokensSuffice(h) /\ WorkersFit(h) /\ OffFits(h) /\ SavedFits(h) /\ ZonesFit(h)
    BY DEF Good, Fits
<1>2. /\ At(h) \in {24, 28, 46} /\ At(h) # 0 /\ m \notin {1, 2, 3, 17, 22, 23, 41, 42}
      /\ <<At(h), m>> \in {<<24, 26>>, <<28, 30>>, <<46, 46>>, <<46, 47>>, <<24, 31>>}
    BY DEF SkipsStart
<1>3. UNCHANGED <<disk, enabled, running, flag, token, cancelled, task, server, known, worker,
                  ingress, bus, listed, requests, lost, orphaned, unsaved, lags>>
    BY DEF ClaimKeeps
<1>4. Leads(m, At(h)') \/ (At(h)' = 0 /\ m \in Final)
    BY <1>1, <1>2, FittingStep DEF Goes, Moved
<1>5. /\ At(h)' \in {0, 2, 3, 27, 31, 41, 47}
      /\ At(h)' \in {27, 31} => At(h) \in {24, 28}
      /\ At(h)' = 47 => At(h) = 46
      /\ At(h)' = 31 => At(h) = 28
  <2>1. SkipFrom(At(h), m)
      BY <1>2 DEF SkipFrom
  <2>2. SkipTo(At(h), At(h)')
      BY Zenon, <1>4, <2>1, SkippedTo
  <2> QED BY <2>2 DEF SkipTo
<1>6. At(h)' = 27 => At(h) = 24 /\ server # NoServer
    BY <1>2, <1>4 DEF Leads, Final, SkipsStart
<1>7. Typed'
  <2>1. OthersTyped'
      BY <1>1, <1>3, TypedParts DEF OthersTyped
  <2>2. (worker \in [Observers -> [Tokens -> Worker]])'
      BY <1>1, <1>3 DEF Typed
  <2> QED BY <2>1, <2>2, TypedNext DEF Goes
<1>8. AppliedFits(h)' /\ TokensSuffice(h)' /\ SavedFits(h)' /\ ZonesFit(h)'
    BY <1>1, <1>2, <1>3, AppliedGoes, TokensGo, SavedGoes, ZonesGo
<1>9. ServerNamed(h)'
    BY <1>1, <1>3, <1>5, <1>6 DEF ServerNamed
<1>10. WorkersFit(h)'
  <2>1. At(h)' \notin {12, 15, 25, 26, 29, 30} /\ \A o \in Observers : At(h)' \notin NoneAt(o)
      BY Zenon, <1>5, BusyAt
  <2>2. At(h) \notin {12, 15, 29, 30}
      BY <1>2
  <2> QED BY <1>1, <1>3, <2>1, <2>2, WorkersKeep
<1>11. OffFits(h)'
  <2>1. \A o \in Observers : Live(o)' = Live(o)
      BY <1>3 DEF Live
  <2>2. At(h) \notin 11 .. 19 /\ At(h) \notin 43 .. 45
      BY SMTT(30), <1>2
  <2>3. /\ At(h)' \in 24 .. 31 => At(h) \in 24 .. 31
        /\ At(h)' \in {46, 47} => At(h) \in {46, 47}
      BY <1>5
  <2>4. /\ At(h) \in 11 .. 18 => At(h) \in 11 .. 19
        /\ At(h) \in 11 .. 15 => At(h) \in 11 .. 19
        /\ At(h) \in 11 .. 13 => At(h) \in 11 .. 19
        /\ At(h) \in 11 .. 12 => At(h) \in 11 .. 19
        /\ At(h) = 43 => At(h) \in 43 .. 45
      OBVIOUS
  <2>5. Main \in Observers /\ Companion \in Observers
      BY DEF Observers
  <2>6. /\ (At(h) \in 24 .. 31 => enabled["lms"]) /\ (At(h) \in {46, 47} => enabled["hqplayer"])
        /\ ~enabled["lms"] => ~running[Main] /\ ~running[Companion] /\ ~flag[Main]
                              /\ Live(Main) = {} /\ Live(Companion) = {}
        /\ ~enabled["hqplayer"] => ~running["hqplayer"] /\ ~flag["hqplayer"]
      BY <1>1, <2>2, <2>4 DEF OffFits
  <2> QED BY <1>3, <2>1, <2>3, <2>5, <2>6 DEF OffFits
<1> QED BY <1>1, <1>3, <1>7, <1>8, <1>9, <1>10, <1>11, ObservedStays DEF Good, Fits, Goes

(* The claim marks the adapter as running.                                 *)
Marks(h, a) ==
    /\ <<a, At(h)>> \in {<<Main, 24>>, <<Companion, 28>>, <<"hqplayer", 46>>}
    /\ a \in Observers => server # NoServer
    /\ ~flag[a] /\ flag' = [flag EXCEPT ![a] = TRUE]
    /\ a \in Observers => Live(a) = {}
    /\ Continue(h, Rest(h))

(* A claim that marks the adapter.                                         *)
LEMMA ClaimMarks ==
    ASSUME NEW h \in Handlers, Good(h), handler[h].todo # <<>>, ClaimKeeps,
           NEW a \in Adapters, Marks(h, a)
    PROVE  Good(h)'
<1>1. /\ Typed /\ ObservedFits /\ PlanFits(h) /\ AppliedFits(h) /\ ServerNamed(h)
      /\ TokensSuffice(h) /\ WorkersFit(h) /\ OffFits(h) /\ SavedFits(h) /\ ZonesFit(h)
    BY DEF Good, Fits
<1>2. /\ At(h) \in {24, 28, 46} /\ At(h) # 0 /\ Continue(h, Rest(h))
      /\ ~flag[a] /\ flag' = [flag EXCEPT ![a] = TRUE]
    BY DEF Marks
<1>3. Goes(h, At(h)) /\ Holds(h) /\ Skips(h, At(h))
    BY <1>1, <1>2, ContinueGoes DEF Skips
<1>4. UNCHANGED <<disk, enabled, running, token, cancelled, task, server, known, worker,
                  ingress, bus, listed, requests, lost, orphaned, unsaved, lags>>
    BY DEF ClaimKeeps
<1>5. At(h)' = At(h) + 1
  <2>1. Leads(At(h), At(h)') \/ (At(h)' = 0 /\ At(h) \in Final)
      BY <1>1, <1>2, <1>3, FittingStep DEF Goes, Moved
  <2> QED BY <1>2, <2>1 DEF Leads, Final
<1>6. flag \in [Adapters -> BOOLEAN]
    BY <1>1 DEF Typed, OthersTyped
<1>7. flag' \in [Adapters -> BOOLEAN] /\ flag'[a] /\ \A b \in Adapters : b # a => flag'[b] = flag[b]
    BY <1>2, <1>6
<1>8. Typed'
  <2>1. OthersTyped'
      BY <1>1, <1>4, <1>7, TypedParts DEF OthersTyped
  <2>2. (worker \in [Observers -> [Tokens -> Worker]])'
      BY <1>1, <1>4 DEF Typed
  <2> QED BY <1>3, <2>1, <2>2, TypedNext DEF Goes
<1>9. AppliedFits(h)' /\ TokensSuffice(h)' /\ SavedFits(h)'
    BY <1>1, <1>2, <1>3, <1>4, AppliedGoes, TokensGo, SavedGoes
<1>10. ZonesFit(h)' /\ ObservedFits'
    BY <1>1, <1>2, <1>3, <1>4, ZonesGo, ObservedStays
<1>11. /\ a = Main <=> At(h) = 24
       /\ a = Companion <=> At(h) = 28
       /\ a = "hqplayer" <=> At(h) = 46
       /\ Main \in Observers /\ Companion \in Observers
       /\ Main \in Adapters /\ Companion \in Adapters /\ "hqplayer" \in Adapters
    BY DEF Marks, Main, Companion, Observers, Adapters, Providers
<1>12. ServerNamed(h)'
    BY <1>2, <1>4, <1>5, <1>11 DEF ServerNamed, Marks
<1>13. \A o \in Observers : Live(o)' = Live(o)
    BY <1>4 DEF Live
<1>14. WorkersFit(h)'
  <2>1. ASSUME NEW o \in Observers
        PROVE  /\ At(h)' \in NoneAt(o) => o = a
               /\ At(h) # JoinOf(o) /\ At(h)' # JoinOf(o)
               /\ o = a => Live(o) = {}
               /\ ~flag'[o] => ~flag[o]
    <3>1. At(h)' \in NoneAt(o) => o = a
        BY <1>2, <1>5, <1>11 DEF NoneAt, Observers, Main, Companion
    <3>2. At(h) # JoinOf(o) /\ At(h)' # JoinOf(o)
        BY <1>2, <1>5 DEF JoinOf
    <3>3. o = a => Live(o) = {}
        BY DEF Marks
    <3>4. ~flag'[o] => ~flag[o]
      <4>1. o \in Adapters
          BY DEF Adapters
      <4> QED BY <1>7, <4>1
    <3> QED BY <3>1, <3>2, <3>3, <3>4
  <2>2. ASSUME NEW o \in Observers
        PROVE  /\ Live(o)' \subseteq {token'[o]}
               /\ Live(o)' # {} => task'[o] = token'[o]
               /\ At(h)' \in NoneAt(o) => Live(o)' = {}
               /\ ~flag'[o] => Live(o)' = {} \/ o = Main
      BY <1>1, <1>4, <1>13, <2>1 DEF WorkersFit
  <2>3. At(h)' \in {25, 29, 47}
      BY <1>2, <1>5
  <2>4. /\ At(h)' = 25 => flag'[Main]
        /\ At(h)' = 29 => flag'[Companion]
      BY <1>2, <1>5, <1>7, <1>11
  <2>5. flag'[Companion] => Live(Companion)' # {} \/ At(h)' = 29
    <3>1. CASE At(h) = 28
        BY <1>5, <3>1
    <3>2. CASE At(h) # 28
      <4>1. flag'[Companion] = flag[Companion]
          BY <1>7, <1>11, <3>2
      <4> QED BY <1>1, <1>2, <1>11, <1>13, <4>1 DEF WorkersFit
    <3> QED BY <3>1, <3>2
  <2>6. \A o \in Observers : (JoinOf(o))' = JoinOf(o) /\ (NoneAt(o))' = NoneAt(o)
      BY DEF JoinOf, NoneAt
  <2> QED BY <2>1, <2>2, <2>3, <2>4, <2>5, <2>6 DEF WorkersFit
<1>15. OffFits(h)'
  <2>1. /\ At(h) \in {24, 28} => enabled["lms"]
        /\ At(h) = 46 => enabled["hqplayer"]
      BY <1>1 DEF OffFits
  <2>2. At(h) \in {24, 28} => enabled["lms"] /\ flag'["hqplayer"] = flag["hqplayer"]
      BY <1>7, <1>11, <2>1
  <2>3. At(h) = 46 => enabled["hqplayer"] /\ flag'[Main] = flag[Main]
      BY <1>7, <1>11, <2>1
  <2> QED BY SMTT(30), <1>1, <1>2, <1>4, <1>5, <1>11, <1>13, <2>2, <2>3 DEF OffFits
<1> QED BY <1>3, <1>8, <1>9, <1>10, <1>12, <1>14, <1>15 DEF Good, Fits, Goes

(* The steps of a roll-back.                                               *)
LEMMA RollbackOf ==
    ASSUME NEW a, a \in {<<"hqplayer">>, <<"lms", "hqplayer">>}
    PROVE  \/ /\ a = <<"hqplayer">>
              /\ Rollback(a) = <<Step("restore", "hqplayer"), Step("unsave", "lms")>>
           \/ /\ a = <<"lms", "hqplayer">>
              /\ Rollback(a) = <<Step("restore", "hqplayer"), Step("restore", "lms"),
                                 Step("unsave", "lms")>>
<1> DEFINE back == [i \in 1 .. Len(a) |-> Step("restore", a[Len(a) + 1 - i])]
<1>1. CASE a = <<"hqplayer">>
  <2>1. back = <<Step("restore", "hqplayer")>>
      BY <1>1
  <2> HIDE DEF back
  <2>2. Rollback(a) = back \o <<Step("unsave", "lms")>>
      BY DEF Rollback, back
  <2> QED BY <1>1, <2>1, <2>2
<1>2. CASE a = <<"lms", "hqplayer">>
  <2>1. back = <<Step("restore", "hqplayer"), Step("restore", "lms")>>
      BY <1>2
  <2> HIDE DEF back
  <2>2. Rollback(a) = back \o <<Step("unsave", "lms")>>
      BY DEF Rollback, back
  <2> QED BY <1>2, <2>1, <2>2
<1> QED BY <1>1, <1>2

(* HQPlayer does not start, and the request takes back what it has done.   *)
LEMMA RollsBack ==
    ASSUME NEW h \in Handlers, Good(h), handler[h].todo # <<>>, ClaimKeeps, UNCHANGED flag,
           At(h) = 46, ~handler[h].back,
           handler' = [handler EXCEPT ![h].todo = Rollback(handler[h].applied), ![h].back = TRUE]
    PROVE  Good(h)'
<1>1. /\ Typed /\ ObservedFits /\ PlanFits(h) /\ AppliedFits(h) /\ ServerNamed(h)
      /\ TokensSuffice(h) /\ WorkersFit(h) /\ OffFits(h) /\ SavedFits(h) /\ ZonesFit(h)
    BY DEF Good, Fits
<1>2. UNCHANGED <<disk, enabled, running, flag, token, cancelled, task, server, known, worker,
                  ingress, bus, listed, requests, lost, orphaned, unsaved, lags>>
    BY DEF ClaimKeeps
<1>3. Toggling(h) /\ At(h) # 0
  <2>1. StepFits(h, At(h)) /\ At(h) # 0
      BY <1>1, StepAt
  <2> QED BY <2>1 DEF StepFits
<1>4. handler[h].applied \in {<<"hqplayer">>, <<"lms", "hqplayer">>}
    BY <1>1 DEF AppliedFits
<1> DEFINE r == Rollback(handler[h].applied)
<1>5. \/ /\ handler[h].applied = <<"hqplayer">>
         /\ r = <<Step("restore", "hqplayer"), Step("unsave", "lms")>>
      \/ /\ handler[h].applied = <<"lms", "hqplayer">>
         /\ r = <<Step("restore", "hqplayer"), Step("restore", "lms"), Step("unsave", "lms")>>
    BY <1>4, RollbackOf
<1> HIDE DEF r
<1>6. /\ r \in Seq(Steps) /\ r # <<>> /\ Stage(r[1]) = 42 /\ Stage(r[Len(r)]) = 3
      /\ \A i \in 1 .. Len(r) : Stage(r[i]) \in {42, 2, 3}
      /\ \A i \in 1 .. Len(r) : i < Len(r) => Leads(Stage(r[i]), Stage(r[i + 1]))
      /\ 1 \in 1 .. Len(r)
      /\ handler[h].applied = <<"hqplayer">>
            \/ (2 \in 1 .. Len(r) /\ Stage(r[2]) = 2)
  <2>1. CASE r = <<Step("restore", "hqplayer"), Step("unsave", "lms")>>
            /\ handler[h].applied = <<"hqplayer">>
    <3>1. /\ r[1] = Step("restore", "hqplayer") /\ r[2] = Step("unsave", "lms")
          /\ Len(r) = 2 /\ r \in Seq(Steps)
        BY <2>1, StageValues
    <3>2. Stage(r[1]) = 42 /\ Stage(r[2]) = 3
        BY <3>1, StageValues
    <3> QED BY <2>1, <3>1, <3>2 DEF Leads
  <2>2. CASE r = <<Step("restore", "hqplayer"), Step("restore", "lms"), Step("unsave", "lms")>>
    <3>1. /\ r[1] = Step("restore", "hqplayer") /\ r[2] = Step("restore", "lms")
          /\ r[3] = Step("unsave", "lms") /\ Len(r) = 3 /\ r \in Seq(Steps)
        BY <2>2, StageValues
    <3>2. Stage(r[1]) = 42 /\ Stage(r[2]) = 2 /\ Stage(r[3]) = 3
        BY <3>1, StageValues
    <3> QED BY <2>2, <3>1, <3>2 DEF Leads
  <2> QED BY <1>5, <2>1, <2>2
<1>7. /\ handler' \in [Handlers -> Request]
      /\ handler'[h].todo = r /\ handler'[h].back = TRUE
      /\ handler'[h].old = handler[h].old /\ handler'[h].new = handler[h].new
      /\ handler'[h].applied = handler[h].applied
  <2>1. handler \in [Handlers -> Request] /\ r \in Seq(Steps)
      BY <1>1, <1>6 DEF Typed
  <2>2. handler' = [handler EXCEPT ![h] = [@ EXCEPT !.todo = r, !.back = TRUE]]
      BY DEF r
  <2> QED BY <2>1, <2>2 DEF Request
<1>8. At(h)' = 42 /\ Last(h)' = 3 /\ (Toggling(h))' = TRUE
    BY <1>3, <1>6, <1>7 DEF At, Last, Toggling
<1>9. Typed'
  <2>1. OthersTyped'
      BY <1>1, <1>2, TypedParts DEF OthersTyped
  <2>2. (worker \in [Observers -> [Tokens -> Worker]])'
      BY <1>1, <1>2 DEF Typed
  <2> QED BY <1>7, <2>1, <2>2, TypedNext
<1>10. PlanFits(h)'
  <2>1. \A n \in {42, 2, 3} : StepFits(h, n)'
      BY <1>7, <1>8 DEF StepFits
  <2>2. (\A i \in 1 .. Len(handler[h].todo) : StepFits(h, Stage(handler[h].todo[i])))'
      BY <1>6, <1>7, <2>1
  <2>3. (\A i \in 1 .. Len(handler[h].todo) :
            i < Len(handler[h].todo) =>
               Leads(Stage(handler[h].todo[i]), Stage(handler[h].todo[i + 1])))'
      BY <1>6, <1>7
  <2> QED BY <1>6, <1>7, <1>8, <2>2, <2>3 DEF PlanFits, Final
<1>11. AppliedFits(h)' /\ ServerNamed(h)'
    BY <1>7, <1>8 DEF AppliedFits, ServerNamed
<1>12. TokensSuffice(h)'
  <2>1. \A o \in Observers : At(h) \notin Spent(o)
      BY DEF Spent
  <2> QED BY <1>1, <1>2, <1>3, <1>7, <1>8, <2>1 DEF TokensSuffice
<1>13. WorkersFit(h)'
  <2>1. At(h) \notin {12, 15, 29, 30} /\ \A n \in {42} : n \notin {12, 15, 25, 26, 29, 30}
      OBVIOUS
  <2>2. \A o \in Observers : At(h)' \notin NoneAt(o)
      BY <1>8 DEF NoneAt
  <2> QED BY <1>1, <1>2, <1>8, <2>1, <2>2, WorkersKeep
<1>14. \A o : Live(o)' = Live(o)
    BY <1>2 DEF Live
<1>15. OffFits(h)'
    BY <1>1, <1>2, <1>8, <1>14 DEF OffFits
<1>16. SavedFits(h)'
  <2>1. Restores(h, 42)'
      BY <1>6, <1>7 DEF Restores
  <2>2. Restores(h, 2)' \/ handler[h].applied = <<"hqplayer">>
      BY <1>6, <1>7 DEF Restores
  <2>3. handler[h].applied = <<"hqplayer">> /\ ~unsaved => enabled["lms"] = handler[h].old["lms"]
      BY <1>1, <1>3 DEF SavedFits
  <2> QED BY <1>2, <1>7, <1>8, <2>1, <2>2, <2>3 DEF SavedFits
<1>17. ZonesFit(h)'
  <2>1. \A n : Flushed(h, n) => Flushed(h, n)'
      BY <1>2 DEF Flushed
  <2>2. \A s : Shows(h, s) => Shows(h, s)'
      BY <1>2, <1>8 DEF Shows, Serving
  <2> QED BY <1>1, <1>2, <1>14, <2>1, <2>2 DEF ZonesFit
<1> QED BY <1>1, <1>2, <1>9, <1>10, <1>11, <1>12, <1>13, <1>15, <1>16, <1>17, ObservedStays
        DEF Good, Fits

(* The start claims the adapter, or finds it claimed.                      *)
LEMMA ClaimStep ==
    ASSUME NEW h \in Handlers, Good(h), Claim(h), ~crossed'
    PROVE  Good(h)'
<1>1. Typed /\ PlanFits(h) /\ ServerNamed(h) /\ AppliedFits(h)
    BY DEF Good, Fits
<1>2. handler[h].todo # <<>> /\ At(h) # 0
    BY <1>1, StepAt DEF Claim, Doing
<1>3. <<Current(h).who, At(h)>> \in {<<Main, 24>>, <<Companion, 28>>, <<"hqplayer", 46>>}
    BY <1>1, <1>2, StagesDiffer DEF Claim
<1>4. ClaimKeeps
    BY DEF Claim, ClaimKeeps, coordinatorVars, adapterVars, projectionVars, historyVars
<1> DEFINE a == Current(h).who
<1>5. /\ a = Main => At(h) = 24
      /\ a = Companion => At(h) = 28
      /\ a = "hqplayer" => At(h) = 46
      /\ a \in Adapters /\ (a \in Observers <=> a # "hqplayer")
    BY <1>3 DEF Main, Companion, Observers, Adapters, Providers
<1>6. CASE a \in Observers /\ server = NoServer /\ Failed(h) /\ UNCHANGED flag
  <2>1. At(h) = 24 /\ handler[h].back
    <3>1. At(h) # 28
        BY <1>1, <1>6 DEF ServerNamed
    <3>2. At(h) = 24
        BY <1>3, <1>5, <1>6, <3>1
    <3> QED BY <1>1, <1>6, <3>2 DEF ServerNamed
  <2>2. Goes(h, IF At(h) = 24 THEN 31 ELSE 47) /\ Holds(h)
    <3>1. <<Current(h).who, At(h)>> \in {<<Main, 24>>, <<"hqplayer", 46>>}
        BY <1>3, <2>1
    <3> QED BY <1>1, <1>2, <1>6, <2>1, <3>1, FailedGoes
  <2>3. Goes(h, 31) /\ Skips(h, 31) /\ SkipsStart(h, 31)
      BY <2>1, <2>2 DEF Skips, SkipsStart
  <2> QED BY Zenon, <1>2, <1>4, <1>6, <2>2, <2>3, ClaimSkips
<1>7. CASE /\ a \in Observers => server # NoServer
           /\ Continue(h, Drop(IF a \in Observers THEN 3 ELSE 1, handler[h].todo))
           /\ UNCHANGED flag
  <2>1. CASE a \in Observers
    <3>1. At(h) \in {24, 28} /\ At(h) + 2 \in {26, 30}
        BY <1>3, <1>5, <2>1
    <3>2. /\ 3 \in 1 .. Len(handler[h].todo) /\ Stage(handler[h].todo[3]) = At(h) + 2
          /\ \A i \in 1 .. 3 : Stage(handler[h].todo[i]) \notin {2, 42}
        BY Zenon, <1>1, <1>2, <3>1, StartAhead
    <3>3. Goes(h, At(h) + 2) /\ Holds(h)
      <4>1. Continue(h, Drop(3, handler[h].todo))
          BY Zenon, <1>7, <2>1
      <4> QED BY Zenon, <1>1, <3>2, <4>1, DropGoes
    <3>4. Skips(h, At(h) + 2) /\ SkipsStart(h, At(h) + 2)
        BY <1>7, <2>1, <3>1 DEF Skips, SkipsStart
    <3> QED BY Zenon, <1>2, <1>4, <1>7, <3>3, <3>4, ClaimSkips
  <2>2. CASE a \notin Observers
    <3>1. At(h) = 46
        BY <1>3, <1>5, <2>2
    <3>2. /\ 1 \in 1 .. Len(handler[h].todo) /\ Stage(handler[h].todo[1]) = 46
          /\ \A i \in 1 .. 1 : Stage(handler[h].todo[i]) \notin {2, 42}
      <4>1. handler[h].todo \in Seq(Steps)
          BY <1>1 DEF Typed, Request
      <4>2. Len(handler[h].todo) \in Nat \ {0}
          BY Zenon, <1>2, <4>1, LeftByOne
      <4>3. Stage(handler[h].todo[1]) = 46
          BY <1>2, <3>1 DEF At
      <4> QED BY <4>2, <4>3
    <3>3. Goes(h, 46) /\ Holds(h)
      <4>1. Continue(h, Drop(1, handler[h].todo))
          BY Zenon, <1>7, <2>2
      <4> QED BY Zenon, <1>1, <3>2, <4>1, DropGoes
    <3>4. Skips(h, 46) /\ SkipsStart(h, 46)
        BY <3>1 DEF Skips, SkipsStart
    <3> QED BY Zenon, <1>2, <1>4, <1>7, <3>3, <3>4, ClaimSkips
  <2> QED BY <2>1, <2>2
<1>8. CASE /\ a \in Observers => server # NoServer
           /\ ~flag[a]
           /\ flag' = [flag EXCEPT ![a] = TRUE]
           /\ a \in Observers => Live(a) = {}
           /\ Continue(h, Rest(h))
  <2>1. Marks(h, a) /\ a \in Adapters
      BY <1>3, <1>5, <1>8 DEF Marks
  <2> HIDE DEF a
  <2> QED BY <1>2, <1>4, <2>1, ClaimMarks
<1>9. CASE a \notin Observers /\ Failed(h) /\ UNCHANGED flag
  <2>1. At(h) = 46
      BY <1>3, <1>5, <1>9
  <2>2. CASE handler[h].back
    <3>1. Goes(h, IF At(h) = 24 THEN 31 ELSE 47) /\ Holds(h)
      <4>1. <<Current(h).who, At(h)>> \in {<<Main, 24>>, <<"hqplayer", 46>>}
          BY <1>3, <2>1
      <4> QED BY <1>1, <1>2, <1>9, <2>2, <4>1, FailedGoes
    <3>2. Goes(h, 47) /\ Skips(h, 47) /\ SkipsStart(h, 47)
        BY <2>1, <2>2, <3>1 DEF Skips, SkipsStart
    <3> QED BY Zenon, <1>2, <1>4, <1>9, <3>1, <3>2, ClaimSkips
  <2>3. CASE ~handler[h].back
    <3>1. handler[h].applied # <<>>
        BY SMTT(30), <1>1, <2>1, <2>3 DEF AppliedFits
    <3>2. handler' = [handler EXCEPT ![h].todo = Rollback(handler[h].applied), ![h].back = TRUE]
        BY Zenon, <1>9, <2>3, <3>1 DEF Failed
    <3> QED BY Zenon, <1>2, <1>4, <1>9, <2>1, <2>3, <3>2, RollsBack
  <2> QED BY <2>2, <2>3
<1> QED
  <2>1. \/ a \in Observers /\ server = NoServer /\ Failed(h) /\ UNCHANGED flag
        \/ /\ a \in Observers => server # NoServer
           /\ Continue(h, Drop(IF a \in Observers THEN 3 ELSE 1, handler[h].todo))
           /\ UNCHANGED flag
        \/ /\ a \in Observers => server # NoServer
           /\ ~flag[a]
           /\ flag' = [flag EXCEPT ![a] = TRUE]
           /\ a \in Observers => Live(a) = {}
           /\ Continue(h, Rest(h))
        \/ a \notin Observers /\ Failed(h) /\ UNCHANGED flag
      BY Zenon DEF Claim
  <2> QED BY <1>6, <1>7, <1>8, <1>9, <2>1

(* A transition of the provider p: it is enabled or disabled, and the      *)
(* steps of its start or stop take the place of the request's next step.   *)
GroupOf(p, on) == IF on THEN StartGroup(p) ELSE StopGroup(p)
Before(p, on) == IF p = "lms" THEN IF on THEN 23 ELSE 10 ELSE IF on THEN 45 ELSE 42
Length(p, on) == IF p = "lms" THEN IF on THEN 8 ELSE 9 ELSE IF on THEN 2 ELSE 3

(* The steps of a transition are numbered.                                 *)
LEMMA Groups ==
    ASSUME NEW p \in {"lms", "hqplayer"}, NEW on \in BOOLEAN
    PROVE  /\ Numbered(GroupOf(p, on), Before(p, on), Length(p, on))
           /\ Before(p, on) \in Nat /\ Length(p, on) \in Nat \ {0}
           /\ <<p, on, Before(p, on) + 1, Before(p, on) + Length(p, on)>> \in
                 {<<"lms", TRUE, 24, 31>>, <<"lms", FALSE, 11, 19>>,
                  <<"hqplayer", TRUE, 46, 47>>, <<"hqplayer", FALSE, 43, 45>>}
<1>1. CASE p = "lms" /\ on = TRUE
  <2>1. GroupOf(p, on) = StartGroup("lms") /\ Before(p, on) = 23 /\ Length(p, on) = 8
      BY <1>1 DEF GroupOf, Before, Length
  <2>2. Numbered(GroupOf(p, on), Before(p, on), Length(p, on))
      BY Zenon, <2>1, StartLms
  <2>3. <<p, on, Before(p, on) + 1, Before(p, on) + Length(p, on)>> \in
           {<<"lms", TRUE, 24, 31>>, <<"lms", FALSE, 11, 19>>,
            <<"hqplayer", TRUE, 46, 47>>, <<"hqplayer", FALSE, 43, 45>>}
    <3>1. Before(p, on) + 1 = 24 /\ Before(p, on) + Length(p, on) = 31
        BY <2>1
    <3> QED BY Zenon, <1>1, <3>1
  <2>4. Before(p, on) \in Nat /\ Length(p, on) \in Nat \ {0}
      BY <2>1
  <2> QED BY Zenon, <2>2, <2>3, <2>4
<1>2. CASE p = "lms" /\ on = FALSE
  <2>1. GroupOf(p, on) = StopGroup("lms") /\ Before(p, on) = 10 /\ Length(p, on) = 9
      BY <1>2 DEF GroupOf, Before, Length
  <2>2. Numbered(GroupOf(p, on), Before(p, on), Length(p, on))
      BY Zenon, <2>1, StopLms
  <2>3. <<p, on, Before(p, on) + 1, Before(p, on) + Length(p, on)>> \in
           {<<"lms", TRUE, 24, 31>>, <<"lms", FALSE, 11, 19>>,
            <<"hqplayer", TRUE, 46, 47>>, <<"hqplayer", FALSE, 43, 45>>}
    <3>1. Before(p, on) + 1 = 11 /\ Before(p, on) + Length(p, on) = 19
        BY <2>1
    <3> QED BY Zenon, <1>2, <3>1
  <2>4. Before(p, on) \in Nat /\ Length(p, on) \in Nat \ {0}
      BY <2>1
  <2> QED BY Zenon, <2>2, <2>3, <2>4
<1>3. CASE p = "hqplayer" /\ on = TRUE
  <2>1. GroupOf(p, on) = StartGroup("hqplayer") /\ Before(p, on) = 45 /\ Length(p, on) = 2
      BY <1>3 DEF GroupOf, Before, Length
  <2>2. Numbered(GroupOf(p, on), Before(p, on), Length(p, on))
      BY Zenon, <2>1, StartStages
  <2>3. <<p, on, Before(p, on) + 1, Before(p, on) + Length(p, on)>> \in
           {<<"lms", TRUE, 24, 31>>, <<"lms", FALSE, 11, 19>>,
            <<"hqplayer", TRUE, 46, 47>>, <<"hqplayer", FALSE, 43, 45>>}
    <3>1. Before(p, on) + 1 = 46 /\ Before(p, on) + Length(p, on) = 47
        BY <2>1
    <3> QED BY Zenon, <1>3, <3>1
  <2>4. Before(p, on) \in Nat /\ Length(p, on) \in Nat \ {0}
      BY <2>1
  <2> QED BY Zenon, <2>2, <2>3, <2>4
<1>4. CASE p = "hqplayer" /\ on = FALSE
  <2>1. GroupOf(p, on) = StopGroup("hqplayer") /\ Before(p, on) = 42 /\ Length(p, on) = 3
      BY <1>4 DEF GroupOf, Before, Length
  <2>2. Numbered(GroupOf(p, on), Before(p, on), Length(p, on))
      BY Zenon, <2>1, StopHqplayer
  <2>3. <<p, on, Before(p, on) + 1, Before(p, on) + Length(p, on)>> \in
           {<<"lms", TRUE, 24, 31>>, <<"lms", FALSE, 11, 19>>,
            <<"hqplayer", TRUE, 46, 47>>, <<"hqplayer", FALSE, 43, 45>>}
    <3>1. Before(p, on) + 1 = 43 /\ Before(p, on) + Length(p, on) = 45
        BY <2>1
    <3> QED BY Zenon, <1>4, <3>1
  <2>4. Before(p, on) \in Nat /\ Length(p, on) \in Nat \ {0}
      BY <2>1
  <2> QED BY Zenon, <2>2, <2>3, <2>4
<1> QED BY <1>1, <1>2, <1>3, <1>4

Transition(h, p, on) ==
    /\ p \in {"lms", "hqplayer"} /\ on \in BOOLEAN
    /\ <<p, At(h)>> \in {<<"lms", 1>>, <<"lms", 2>>, <<"hqplayer", 41>>, <<"hqplayer", 42>>}
    /\ enabled' = [enabled EXCEPT ![p] = on]
    /\ UNCHANGED <<disk, running, flag, token, cancelled, task, server, known, worker,
                   ingress, bus, listed, requests, lost, orphaned, unsaved, lags>>

Enabling(h, p, on) ==
    /\ Transition(h, p, on)
    /\ (handler \in [Handlers -> Request])' /\ Same(h)
    /\ Inserts(h, GroupOf(p, on))

(* The steps of a transition belong to a request that changes toggles.     *)
LEMMA StagesFit ==
    ASSUME NEW h \in Handlers, Toggling(h), NEW n \in (11 .. 19) \cup (24 .. 31) \cup (43 .. 47)
    PROVE  StepFits(h, n)
BY DEF StepFits

(* The steps of a transition follow one another.                           *)
LEMMA GroupFits ==
    ASSUME NEW h \in Handlers, Toggling(h), NEW p \in {"lms", "hqplayer"}, NEW on \in BOOLEAN
    PROVE  Fitting(h, Before(p, on), Length(p, on))
<1>1. ASSUME NEW n \in (11 .. 19) \cup (24 .. 31) \cup (43 .. 47)
      PROVE  StepFits(h, n)
    BY StagesFit
<1>2. \A n \in (11 .. 18) \cup (24 .. 30) \cup {43, 44, 46} : Leads(n, n + 1)
    BY DEF Leads
<1>3. \A i \in 1 .. Length(p, on) :
         /\ Before(p, on) + i \in (11 .. 19) \cup (24 .. 31) \cup (43 .. 47)
         /\ i < Length(p, on) => Before(p, on) + i \in (11 .. 18) \cup (24 .. 30) \cup {43, 44, 46}
    BY DEF Before, Length
<1> QED BY <1>1, <1>2, <1>3 DEF Fitting

(* What comes after a toggle or a restored toggle.                         *)
LEMMA AfterToggles ==
    ASSUME NEW a, NEW b, Leads(a, b)
    PROVE  /\ a \in {1, 2} => b \in {3, 41}
           /\ a \in {41, 42} => b \in {2, 3}
BY DEF Leads

(* Where the request goes on after the group.                              *)
LEMMA GroupResumes ==
    ASSUME NEW h \in Handlers, Typed, PlanFits(h), handler[h].todo # <<>>, Toggling(h),
           NEW p, NEW on, Transition(h, p, on)
    PROVE  Resumes(h, Before(p, on) + Length(p, on))
<1> DEFINE s == handler[h].todo
<1> DEFINE n == Before(p, on) + Length(p, on)
<1>1. /\ s \in Seq(Steps) /\ Len(s) \in Nat \ {0}
      /\ At(h) # 0 /\ Last(h) \in Final /\ (handler[h].back => Last(h) = 3) /\ StepFits(h, At(h))
  <2>1. s \in Seq(Steps)
      BY DEF Typed, Request
  <2>2. Len(s) \in Nat \ {0}
      BY Zenon, <2>1, LeftByOne
  <2>3. At(h) # 0
      BY StepAt
  <2> QED BY <2>1, <2>2, <2>3, FittingStep
<1>2. \/ p = "lms" /\ n \in {19, 31}
      \/ p = "hqplayer" /\ n \in {45, 47}
  <2>1. p \in {"lms", "hqplayer"} /\ on \in BOOLEAN
      BY DEF Transition
  <2> QED BY <2>1 DEF Before, Length
<1>3. <<p, At(h)>> \in {<<"lms", 1>>, <<"lms", 2>>, <<"hqplayer", 41>>, <<"hqplayer", 42>>}
    BY DEF Transition
<1> HIDE DEF n
<1>4. CASE Len(s) = 1
  <2>1. Last(h) = At(h)
      BY <1>4 DEF Last, At
  <2>2. n \in Final /\ At(h) \notin {2, 42} /\ ~handler[h].back
      BY <1>1, <1>2, <1>3, <2>1 DEF Final
  <2> QED BY <1>4, <2>2 DEF Resumes, n
<1>5. CASE Len(s) # 1
  <2>1. 2 \in 1 .. Len(s) /\ 1 \in 1 .. Len(s) /\ 1 < Len(s)
      BY Zenon, <1>1, <1>5, Second
  <2>2. Leads(Stage(s[1]), Stage(s[1 + 1])) /\ At(h) = Stage(s[1])
      BY <2>1 DEF PlanFits, At
  <2>3. Leads(At(h), Stage(s[2]))
      BY <2>2
  <2>4. Leads(n, Stage(s[2]))
    <3>1. CASE p = "lms"
      <4>1. n \in {19, 31} /\ At(h) \in {1, 2}
          BY <1>2, <1>3, <3>1
      <4>2. Stage(s[2]) \in {3, 41}
          BY Zenon, <2>3, <4>1, AfterToggles
      <4> QED BY <4>1, <4>2 DEF Leads
    <3>2. CASE p = "hqplayer"
      <4>1. n \in {45, 47} /\ At(h) \in {41, 42}
          BY <1>2, <1>3, <3>2
      <4>2. Stage(s[2]) \in {2, 3}
          BY Zenon, <2>3, <4>1, AfterToggles
      <4> QED BY <4>1, <4>2 DEF Leads
    <3> QED BY <1>2, <3>1, <3>2
  <2> QED BY <1>5, <2>4 DEF Resumes, n
<1> QED BY <1>4, <1>5

(* The parts of the invariant that do not depend on why.                   *)
LEMMA EnablingKeeps ==
    ASSUME NEW h \in Handlers, Good(h), handler[h].todo # <<>>, Toggling(h),
           NEW p, NEW on, Enabling(h, p, on)
    PROVE  /\ Typed' /\ ObservedFits' /\ PlanFits(h)' /\ WorkersFit(h)' /\ OffFits(h)' /\ ZonesFit(h)'
           /\ At(h)' = Before(p, on) + 1
           /\ Last(h)' = IF Len(handler[h].todo) = 1 THEN Before(p, on) + Length(p, on) ELSE Last(h)
           /\ \A k : Restores(h, k) /\ k # At(h) => Restores(h, k)'
<1>1. /\ Typed /\ ObservedFits /\ PlanFits(h) /\ AppliedFits(h) /\ ServerNamed(h)
      /\ TokensSuffice(h) /\ WorkersFit(h) /\ OffFits(h) /\ SavedFits(h) /\ ZonesFit(h)
    BY DEF Good, Fits
<1>2. /\ Transition(h, p, on) /\ (handler \in [Handlers -> Request])' /\ Same(h)
      /\ Inserts(h, GroupOf(p, on))
    BY DEF Enabling
<1>3. p \in {"lms", "hqplayer"} /\ on \in BOOLEAN
    BY <1>2 DEF Transition
<1>4. /\ PlanFits(h)' /\ At(h)' = Before(p, on) + 1
      /\ Last(h)' = IF Len(handler[h].todo) = 1 THEN Before(p, on) + Length(p, on) ELSE Last(h)
      /\ \A k : Restores(h, k) /\ k # At(h) => Restores(h, k)'
  <2>1. /\ Numbered(GroupOf(p, on), Before(p, on), Length(p, on))
        /\ Before(p, on) \in Nat /\ Length(p, on) \in Nat \ {0}
      BY Zenon, <1>3, Groups
  <2>2. Fitting(h, Before(p, on), Length(p, on))
      BY Zenon, <1>3, GroupFits
  <2>3. Resumes(h, Before(p, on) + Length(p, on))
      BY Zenon, <1>1, <1>2, GroupResumes
  <2> QED BY Zenon, <1>1, <1>2, <2>1, <2>2, <2>3, Insert
<1>5. <<p, on, At(h)'>> \in {<<"lms", TRUE, 24>>, <<"lms", FALSE, 11>>,
                             <<"hqplayer", TRUE, 46>>, <<"hqplayer", FALSE, 43>>}
  <2>1. <<p, on, Before(p, on) + 1, Before(p, on) + Length(p, on)>> \in
           {<<"lms", TRUE, 24, 31>>, <<"lms", FALSE, 11, 19>>,
            <<"hqplayer", TRUE, 46, 47>>, <<"hqplayer", FALSE, 43, 45>>}
      BY Zenon, <1>3, Groups
  <2>2. \/ p = "lms" /\ on = TRUE /\ At(h)' = 24
        \/ p = "lms" /\ on = FALSE /\ At(h)' = 11
        \/ p = "hqplayer" /\ on = TRUE /\ At(h)' = 46
        \/ p = "hqplayer" /\ on = FALSE /\ At(h)' = 43
      BY Zenon, <1>4, <2>1
  <2> QED BY Zenon, <2>2
<1>6. <<p, At(h)>> \in {<<"lms", 1>>, <<"lms", 2>>, <<"hqplayer", 41>>, <<"hqplayer", 42>>}
    BY <1>2 DEF Transition
<1>7. UNCHANGED <<disk, running, flag, token, cancelled, task, server, known, worker,
                  ingress, bus, listed, requests, lost, orphaned, unsaved, lags>>
    BY <1>2 DEF Transition
<1>8. /\ enabled' \in [Adapters -> BOOLEAN] /\ enabled \in [Adapters -> BOOLEAN]
      /\ enabled'[p] = on /\ \A q \in {"lms", "hqplayer"} : q # p => enabled'[q] = enabled[q]
  <2>1. enabled \in [Adapters -> BOOLEAN] /\ enabled' = [enabled EXCEPT ![p] = on]
      BY <1>1, <1>2 DEF Typed, OthersTyped, Transition
  <2>2. "lms" \in Adapters /\ "hqplayer" \in Adapters
      BY DEF Adapters, Providers
  <2> QED BY <1>3, <2>1, <2>2
<1>9. Typed'
  <2>1. OthersTyped'
      BY <1>1, <1>7, <1>8, TypedParts DEF OthersTyped
  <2>2. (worker \in [Observers -> [Tokens -> Worker]])'
      BY <1>1, <1>7 DEF Typed
  <2> QED BY <1>2, <2>1, <2>2, TypedNext
<1>10. \A o : Live(o)' = Live(o)
    BY <1>7 DEF Live
<1>11. At(h) \in {1, 2, 41, 42} /\ At(h)' \in {11, 24, 43, 46}
    BY <1>5, <1>6
<1>12. WorkersFit(h)'
  <2>1. /\ At(h) \notin {12, 15, 29, 30} /\ At(h)' \notin {12, 15, 25, 26, 29, 30}
      BY <1>11
  <2>2. ASSUME NEW n \in {11, 24, 43, 46}, NEW o
        PROVE  n \notin NoneAt(o)
      BY DEF NoneAt
  <2>3. \A o \in Observers : At(h)' \notin NoneAt(o)
      BY Zenon, <1>11, <2>2
  <2> QED BY <1>1, <1>7, <2>1, <2>3, WorkersKeep
<1>13. OffFits(h)'
  <2>1. /\ ~enabled["lms"] => ~running[Main] /\ ~running[Companion] /\ ~flag[Main]
                              /\ Live(Main) = {} /\ Live(Companion) = {}
        /\ ~enabled["hqplayer"] => ~running["hqplayer"] /\ ~flag["hqplayer"]
      BY SMTT(30), <1>1, <1>11 DEF OffFits
  <2>2. /\ p = "lms" => At(h)' = IF on THEN 24 ELSE 11
        /\ p = "hqplayer" => At(h)' = IF on THEN 46 ELSE 43
      BY <1>5
  <2>3. CASE p = "lms"
    <3>1. CASE on
      <4>1. enabled'["lms"] /\ enabled'["hqplayer"] = enabled["hqplayer"] /\ At(h)' = 24
          BY <1>8, <2>2, <2>3, <3>1
      <4> QED BY <1>7, <2>1, <4>1 DEF OffFits
    <3>2. CASE ~on
      <4>1. enabled'["hqplayer"] = enabled["hqplayer"] /\ At(h)' = 11
          BY <1>8, <2>2, <2>3, <3>2
      <4> QED BY <1>7, <2>1, <4>1 DEF OffFits
    <3> QED BY <3>1, <3>2
  <2>4. CASE p = "hqplayer"
    <3>1. CASE on
      <4>1. enabled'["hqplayer"] /\ enabled'["lms"] = enabled["lms"] /\ At(h)' = 46
          BY <1>8, <2>2, <2>4, <3>1
      <4> QED BY <1>7, <1>10, <2>1, <4>1 DEF OffFits
    <3>2. CASE ~on
      <4>1. enabled'["lms"] = enabled["lms"] /\ At(h)' = 43
          BY <1>8, <2>2, <2>4, <3>2
      <4> QED BY <1>7, <1>10, <2>1, <4>1 DEF OffFits
    <3> QED BY <3>1, <3>2
  <2> QED BY <1>3, <2>3, <2>4
<1>14. ZonesFit(h)'
  <2>1. CASE p = "lms" /\ on = FALSE
    <3>1. At(h)' = 11
        BY <1>5, <2>1
    <3>2. At(h)' \in 11 .. 17
        BY <3>1
    <3>3. \A n : Flushed(h, n)'
        BY <3>2 DEF Flushed
    <3> QED BY <1>1, <1>7, <1>10, <3>3 DEF ZonesFit
  <2>2. CASE ~(p = "lms" /\ on = FALSE)
    <3>1. enabled["lms"] => enabled'["lms"]
        BY <1>3, <1>8, <2>2
    <3>2. At(h)' \notin 18 .. 21 /\ At(h) \notin 11 .. 17
        BY <1>11
    <3>3. \A n : Flushed(h, n) => Flushed(h, n)'
        BY <1>7, <3>2 DEF Flushed
    <3>4. \A s : Shows(h, s) => Shows(h, s)'
        BY <1>7, <3>1, <3>2 DEF Shows, Serving
    <3> QED BY <1>1, <1>7, <1>10, <3>3, <3>4 DEF ZonesFit
  <2> QED BY <2>1, <2>2
<1> QED BY <1>1, <1>4, <1>7, <1>9, <1>12, <1>13, <1>14, ObservedStays

(* A toggle is restored.                                                   *)
LEMMA RestoreStep ==
    ASSUME NEW h \in Handlers, Good(h), Restore(h)
    PROVE  Good(h)'
<1>1. /\ Typed /\ ObservedFits /\ PlanFits(h) /\ AppliedFits(h) /\ ServerNamed(h)
      /\ TokensSuffice(h) /\ WorkersFit(h) /\ OffFits(h) /\ SavedFits(h) /\ ZonesFit(h)
    BY DEF Good, Fits
<1>2. handler[h].todo # <<>> /\ At(h) # 0
    BY <1>1, StepAt DEF Restore, Doing
<1> DEFINE p == Current(h).who
<1> DEFINE on == handler[h].old[p]
<1>3. <<p, At(h)>> \in {<<"lms", 2>>, <<"hqplayer", 42>>}
    BY <1>1, <1>2, StagesDiffer DEF Restore, Main
<1>4. Toggling(h) /\ handler[h].back
  <2>1. At(h) \in {2, 42} /\ StepFits(h, At(h))
      BY <1>1, <1>2, <1>3, StepAt
  <2>2. handler[h].back
      BY <2>1 DEF StepFits
  <2> QED BY <1>1, <1>2, <2>2, FittingStep
<1>5. /\ handler \in [Handlers -> Request] /\ handler[h].old \in Toggles
      /\ handler[h].todo \in Seq(Steps)
    BY <1>1 DEF Typed, Request
<1>6. p \in {"lms", "hqplayer"} /\ on \in BOOLEAN
    BY <1>3, <1>5 DEF Toggles, Providers
<1>7. Continue(h, GroupOf(p, on) \o Rest(h))
    BY DEF Restore, GroupOf
<1>8. Transition(h, p, on)
    BY <1>3, <1>6 DEF Restore, Transition, adapterVars, projectionVars, historyVars
<1>9. GroupOf(p, on) \o Rest(h) \in Seq(Steps) /\ GroupOf(p, on) \o Rest(h) # <<>>
  <2>1. Numbered(GroupOf(p, on), Before(p, on), Length(p, on)) /\ Length(p, on) \in Nat \ {0}
      BY Zenon, <1>6, Groups
  <2>2. GroupOf(p, on) \in Seq(Steps) /\ Len(GroupOf(p, on)) # 0
      BY <2>1 DEF Numbered
  <2>3. Rest(h) \in Seq(Steps) /\ Len(Rest(h)) \in Nat
      BY <1>2, <1>5, LeftByOne DEF Rest
  <2> HIDE DEF p, on
  <2>4. GroupOf(p, on) \o Rest(h) \in Seq(Steps)
        /\ Len(GroupOf(p, on) \o Rest(h)) = Len(GroupOf(p, on)) + Len(Rest(h))
      BY Zenon, <2>2, <2>3, Joined
  <2>5. Len(GroupOf(p, on)) \in Nat
      BY <2>2
  <2>6. Len(GroupOf(p, on) \o Rest(h)) # 0
      BY <2>2, <2>3, <2>4, <2>5
  <2> QED BY Zenon, <2>4, <2>6, EmptySeq
<1>10. /\ (handler \in [Handlers -> Request])'
       /\ handler'[h] = [handler[h] EXCEPT !.todo = GroupOf(p, on) \o Rest(h)]
    BY Zenon, <1>5, <1>7, <1>9, ContinueTyped
<1>11. /\ Same(h) /\ handler'[h].applied = handler[h].applied
       /\ handler'[h].todo = GroupOf(p, on) \o Rest(h)
  <2> HIDE DEF p, on
  <2> QED BY <1>5, <1>10 DEF Same, Request
<1>12. Enabling(h, p, on)
    BY Zenon, <1>2, <1>8, <1>10, <1>11 DEF Enabling, Inserts
<1>13. /\ Typed' /\ ObservedFits' /\ PlanFits(h)' /\ WorkersFit(h)' /\ OffFits(h)' /\ ZonesFit(h)'
       /\ At(h)' = Before(p, on) + 1
       /\ \A k : Restores(h, k) /\ k # At(h) => Restores(h, k)'
    BY Zenon, <1>2, <1>4, <1>12, EnablingKeeps DEF Good
<1>14. UNCHANGED <<disk, token, server, requests, unsaved>>
    BY <1>8 DEF Transition
<1>15. /\ p = "lms" => At(h) = 2 /\ At(h)' = IF on THEN 24 ELSE 11
       /\ p = "hqplayer" => At(h) = 42 /\ At(h)' = IF on THEN 46 ELSE 43
  <2>1. <<p, on, Before(p, on) + 1, Before(p, on) + Length(p, on)>> \in
           {<<"lms", TRUE, 24, 31>>, <<"lms", FALSE, 11, 19>>,
            <<"hqplayer", TRUE, 46, 47>>, <<"hqplayer", FALSE, 43, 45>>}
      BY Zenon, <1>6, Groups
  <2> HIDE DEF p, on
  <2> QED BY <1>3, <1>13, <2>1
<1>16. /\ At(h)' \in {11, 24, 43, 46} /\ (Toggling(h))' = TRUE /\ handler'[h].back
       /\ handler'[h].old = handler[h].old
  <2>1. At(h)' \in {11, 24, 43, 46}
      BY <1>6, <1>15
  <2> QED BY <1>4, <1>11, <2>1 DEF Same, Toggling
<1>17. AppliedFits(h)' /\ ServerNamed(h)'
    BY <1>16 DEF AppliedFits, ServerNamed
<1>18. TokensSuffice(h)'
  <2>1. At(h) \in {2, 42}
      BY <1>3
  <2>2. \A o \in Observers : At(h) \notin Spent(o)
      BY <2>1 DEF Spent
  <2>3. At(h)' = 24 => handler[h].old["lms"]
      BY <1>6, <1>15
  <2>4. At(h)' \in {1} \cup 24 .. 31 => At(h)' = 24
      BY <1>16
  <2>5. \A o \in Observers : token[o] <= requests /\ (handler[h].old["lms"] => token[o] < requests)
      BY <1>1, <1>2, <2>2 DEF TokensSuffice
  <2> QED BY <1>14, <1>16, <2>3, <2>4, <2>5 DEF TokensSuffice
<1>19. SavedFits(h)'
  <2>1. /\ enabled \in [Adapters -> BOOLEAN] /\ enabled' = [enabled EXCEPT ![p] = on]
      BY <1>1, <1>8 DEF Typed, OthersTyped, Transition
  <2>2. "lms" \in Adapters /\ "hqplayer" \in Adapters
      BY DEF Adapters, Providers
  <2>3. ~unsaved => /\ Restores(h, 2) \/ enabled["lms"] = handler[h].old["lms"]
                    /\ Restores(h, 42) \/ enabled["hqplayer"] = handler[h].old["hqplayer"]
      BY <1>1, <1>2, <1>4 DEF SavedFits
  <2>4. ~unsaved => /\ Restores(h, 2)' \/ enabled'["lms"] = handler[h].old["lms"]
                    /\ Restores(h, 42)' \/ enabled'["hqplayer"] = handler[h].old["hqplayer"]
    <3>1. CASE p = "lms"
      <4>1. enabled'["lms"] = handler[h].old["lms"] /\ enabled'["hqplayer"] = enabled["hqplayer"]
          BY <2>1, <2>2, <3>1
      <4>2. Restores(h, 42) => Restores(h, 42)'
          BY <1>13, <1>15, <3>1
      <4> QED BY <2>3, <4>1, <4>2
    <3>2. CASE p = "hqplayer"
      <4>1. enabled'["hqplayer"] = handler[h].old["hqplayer"] /\ enabled'["lms"] = enabled["lms"]
          BY <2>1, <2>2, <3>2
      <4>2. Restores(h, 2) => Restores(h, 2)'
          BY <1>13, <1>15, <3>2
      <4> QED BY <2>3, <4>1, <4>2
    <3> QED BY <1>6, <3>1, <3>2
  <2>5. At(h)' # 0
      BY <1>16
  <2> QED BY <1>14, <1>16, <2>4, <2>5 DEF SavedFits
<1> QED BY <1>13, <1>17, <1>18, <1>19 DEF Good, Fits

(* The lists of what has been toggled.                                     *)
LEMMA Appends ==
    /\ Append(<<>>, "lms") = <<"lms">> /\ Append(<<>>, "hqplayer") = <<"hqplayer">>
    /\ Append(<<"lms">>, "hqplayer") = <<"lms", "hqplayer">>
    /\ <<"lms">> \notin {<<>>, <<"hqplayer">>}
    /\ <<"hqplayer">> \notin {<<>>, <<"lms">>}
    /\ <<"lms", "hqplayer">> \notin {<<>>, <<"lms">>, <<"hqplayer">>}
<1>1. Append(<<>>, "lms") = <<"lms">> /\ Append(<<>>, "hqplayer") = <<"hqplayer">>
    OBVIOUS
<1>2. Append(<<"lms">>, "hqplayer") = <<"lms", "hqplayer">>
  <2> DEFINE s == Append(<<"lms">>, "hqplayer")
  <2> DEFINE t == <<"lms", "hqplayer">>
  <2>1. /\ s \in Seq({"lms", "hqplayer"}) /\ t \in Seq({"lms", "hqplayer"})
        /\ Len(s) = 2 /\ Len(t) = 2
      OBVIOUS
  <2>2. s[1] = "lms" /\ s[2] = "hqplayer" /\ t[1] = "lms" /\ t[2] = "hqplayer"
      OBVIOUS
  <2> HIDE DEF s, t
  <2>3. \A i \in 1 .. Len(s) : s[i] = t[i]
    <3>1. \A i \in 1 .. Len(s) : i = 1 \/ i = 2
        BY <2>1
    <3> QED BY Zenon, <2>2, <3>1
  <2>4. s = t
      BY <2>1, <2>3, SeqEqual
  <2> QED BY <2>4 DEF s, t
<1>3. Len(<<>>) = 0 /\ Len(<<"lms">>) = 1 /\ Len(<<"hqplayer">>) = 1 /\ Len(<<"lms", "hqplayer">>) = 2
    OBVIOUS
<1>4. <<"lms">>[1] = "lms" /\ <<"hqplayer">>[1] = "hqplayer"
    OBVIOUS
<1>5. <<"lms">> \notin {<<>>, <<"hqplayer">>}
    BY <1>3, <1>4
<1>6. <<"hqplayer">> \notin {<<>>, <<"lms">>}
    BY <1>3, <1>4
<1>7. <<"lms", "hqplayer">> \notin {<<>>, <<"lms">>, <<"hqplayer">>}
    BY <1>3
<1> QED BY <1>1, <1>2, <1>5, <1>6, <1>7

(* What a toggle finds, and what it does to the settings' agreement.       *)
LEMMA ToggleSaved ==
    ASSUME NEW h \in Handlers, Typed, AppliedFits(h), SavedFits(h), Toggling(h), ~handler[h].back,
           NEW p \in {"lms", "hqplayer"}, Transition(h, p, handler[h].new[p]),
           At(h) \in {1, 41},
           \/ At(h)' = 0 /\ At(h) = 1 /\ Last(h) = 1
           \/ /\ At(h)' \notin {0, 1} /\ Same(h) /\ handler'[h].applied = Append(handler[h].applied, p)
              /\ Last(h)' = Last(h) \/ (Last(h) = At(h) /\ Last(h)' # 41)
    PROVE  SavedFits(h)'
<1>1. /\ p = "lms" => At(h) = 1 /\ handler[h].applied = <<>>
      /\ p = "hqplayer" => At(h) = 41 /\ handler[h].applied \in {<<>>, <<"lms">>}
    BY SMTT(30) DEF Transition, AppliedFits
<1>2. /\ enabled \in [Adapters -> BOOLEAN] /\ enabled' = [enabled EXCEPT ![p] = handler[h].new[p]]
      /\ disk' = disk /\ unsaved' = unsaved /\ disk \in [on : Toggles, hidden : BOOLEAN]
      /\ handler[h].new \in Toggles
    BY DEF Typed, OthersTyped, Request, Transition
<1>3. "lms" \in Adapters /\ "hqplayer" \in Adapters
    BY DEF Adapters, Providers
<1>4. /\ p = "lms" => /\ enabled'["lms"] = handler[h].new["lms"]
                      /\ enabled'["hqplayer"] = enabled["hqplayer"]
      /\ p = "hqplayer" => /\ enabled'["hqplayer"] = handler[h].new["hqplayer"]
                           /\ enabled'["lms"] = enabled["lms"]
    BY <1>2, <1>3
<1>5. ~unsaved =>
         /\ disk.on = handler[h].new
         /\ At(h) = 1 \/ enabled["lms"] = handler[h].new["lms"]
         /\ Last(h) = 41 \/ enabled["hqplayer"] = handler[h].new["hqplayer"]
         /\ handler[h].applied \in {<<>>, <<"hqplayer">>} =>
               enabled["lms"] = handler[h].old["lms"]
         /\ handler[h].applied \in {<<>>, <<"lms">>} =>
               enabled["hqplayer"] = handler[h].old["hqplayer"]
    BY DEF SavedFits
<1>6. CASE unsaved
    BY <1>2, <1>6 DEF SavedFits
<1>7. CASE ~unsaved /\ At(h)' = 0 /\ At(h) = 1 /\ Last(h) = 1
  <2>1. p = "lms" /\ Last(h) # 41
      BY <1>1, <1>7
  <2>2. disk.on["lms"] = enabled'["lms"] /\ disk.on["hqplayer"] = enabled'["hqplayer"]
      BY <1>4, <1>5, <1>7, <2>1
  <2> QED BY <1>2, <1>7, <2>2 DEF SavedFits, Providers
<1>8. CASE /\ ~unsaved
           /\ At(h)' \notin {0, 1} /\ Same(h) /\ handler'[h].applied = Append(handler[h].applied, p)
           /\ Last(h)' = Last(h) \/ (Last(h) = At(h) /\ Last(h)' # 41)
  <2>1. /\ (Toggling(h))' = TRUE /\ ~handler'[h].back
        /\ handler'[h].old = handler[h].old /\ handler'[h].new = handler[h].new
      BY <1>8 DEF Same, Toggling
  <2>2. CASE p = "lms"
    <3>1. handler'[h].applied = <<"lms">>
        BY Zenon, <1>1, <1>8, <2>2, Appends
    <3>2. enabled["hqplayer"] = handler[h].old["hqplayer"]
        BY <1>1, <1>5, <1>8, <2>2
    <3>3. Last(h)' = 41 \/ enabled["hqplayer"] = handler[h].new["hqplayer"]
        BY <1>1, <1>5, <1>8, <2>2
    <3>4. handler'[h].applied \notin {<<>>, <<"hqplayer">>}
        BY Zenon, <3>1, Appends
    <3>5. enabled'["lms"] = handler[h].new["lms"] /\ enabled'["hqplayer"] = enabled["hqplayer"]
        BY <1>4, <2>2
    <3>6. disk'.on = handler[h].new
        BY <1>2, <1>5, <1>8
    <3>7. handler'[h].old = handler[h].old /\ handler'[h].new = handler[h].new /\ ~handler'[h].back
        BY <2>1
    <3>8. At(h)' # 0
        BY <1>8
    <3> QED BY Zenon, <2>1, <3>2, <3>3, <3>4, <3>5, <3>6, <3>7, <3>8 DEF SavedFits
  <2>3. CASE p = "hqplayer"
    <3>1. handler'[h].applied \in {<<"hqplayer">>, <<"lms", "hqplayer">>}
      <4>1. CASE handler[h].applied = <<>>
          BY Zenon, <1>8, <2>3, <4>1, Appends
      <4>2. CASE handler[h].applied = <<"lms">>
          BY Zenon, <1>8, <2>3, <4>2, Appends
      <4> QED BY Zenon, <1>1, <2>3, <4>1, <4>2
    <3>2. handler'[h].applied \in {<<>>, <<"hqplayer">>} => enabled["lms"] = handler[h].old["lms"]
      <4>1. CASE handler[h].applied = <<>>
          BY Zenon, <1>5, <1>8, <4>1
      <4>2. CASE handler[h].applied = <<"lms">>
        <5>1. handler'[h].applied = <<"lms", "hqplayer">>
            BY Zenon, <1>8, <2>3, <4>2, Appends
        <5> QED BY Zenon, <5>1, Appends
      <4> QED BY Zenon, <1>1, <2>3, <4>1, <4>2
    <3>3. enabled["lms"] = handler[h].new["lms"]
        BY <1>1, <1>5, <1>8, <2>3
    <3>4. handler'[h].applied \notin {<<>>, <<"lms">>}
        BY Zenon, <3>1, Appends
    <3>5. enabled'["hqplayer"] = handler[h].new["hqplayer"] /\ enabled'["lms"] = enabled["lms"]
        BY <1>4, <2>3
    <3>6. disk'.on = handler[h].new
        BY <1>2, <1>5, <1>8
    <3>7. handler'[h].old = handler[h].old /\ handler'[h].new = handler[h].new /\ ~handler'[h].back
        BY <2>1
    <3>8. At(h)' # 0
        BY <1>8
    <3> QED BY Zenon, <2>1, <3>2, <3>3, <3>4, <3>5, <3>6, <3>7, <3>8 DEF SavedFits
  <2> QED BY <2>2, <2>3
<1> QED BY <1>6, <1>7, <1>8

(* A toggle is applied.                                                    *)
LEMMA ToggleStep ==
    ASSUME NEW h \in Handlers, Good(h), Toggle(h)
    PROVE  Good(h)'
<1>1. /\ Typed /\ ObservedFits /\ PlanFits(h) /\ AppliedFits(h) /\ ServerNamed(h)
      /\ TokensSuffice(h) /\ WorkersFit(h) /\ OffFits(h) /\ SavedFits(h) /\ ZonesFit(h)
    BY DEF Good, Fits
<1>2. handler[h].todo # <<>> /\ At(h) # 0
    BY <1>1, StepAt DEF Toggle, Doing
<1> DEFINE p == Current(h).who
<1> DEFINE on == handler[h].new[p]
<1>3. <<p, At(h)>> \in {<<"lms", 1>>, <<"hqplayer", 41>>} /\ At(h) \in {1, 41}
    BY <1>1, <1>2, StagesDiffer DEF Toggle, Main
<1>4. /\ Toggling(h) /\ ~handler[h].back
      /\ At(h) = 1 => handler[h].old["lms"] # handler[h].new["lms"]
  <2>1. StepFits(h, At(h))
      BY <1>1, <1>2, StepAt
  <2> QED BY <1>3, <2>1 DEF StepFits
<1>5. /\ handler \in [Handlers -> Request] /\ handler[h].new \in Toggles /\ handler[h].old \in Toggles
      /\ handler[h].todo \in Seq(Steps) /\ handler[h].applied \in Seq(Providers)
    BY <1>1 DEF Typed, Request
<1>6. p \in {"lms", "hqplayer"} /\ p \in Providers /\ on \in BOOLEAN
    BY <1>3, <1>5 DEF Toggles, Providers
<1>7. Transition(h, p, on)
    BY <1>3, <1>6 DEF Toggle, Transition, adapterVars, projectionVars, historyVars
<1>8. UNCHANGED <<disk, running, flag, token, cancelled, task, server, known, worker,
                  ingress, bus, listed, requests, lost, orphaned, unsaved, lags>>
    BY <1>7 DEF Transition
<1>9. Rest(h) \in Seq(Steps) /\ Len(Rest(h)) \in Nat
    BY <1>2, <1>5, LeftByOne DEF Rest
<1>10. /\ p = "lms" => At(h) = 1 /\ handler[h].applied = <<>>
       /\ p = "hqplayer" => At(h) = 41 /\ handler[h].applied \in {<<>>, <<"lms">>}
    BY <1>1, <1>3 DEF AppliedFits
<1>11. /\ p = "lms" => Append(handler[h].applied, p) = <<"lms">>
       /\ p = "hqplayer" => Append(handler[h].applied, p) \in {<<"hqplayer">>, <<"lms", "hqplayer">>}
       /\ Append(handler[h].applied, p) \in Seq(Providers)
  <2> HIDE DEF p
  <2>1. p = "lms" => Append(handler[h].applied, p) = <<"lms">>
      BY Zenon, <1>10, Appends
  <2>2. p = "hqplayer" => Append(handler[h].applied, p) \in {<<"hqplayer">>, <<"lms", "hqplayer">>}
      BY Zenon, <1>10, Appends
  <2>3. Append(handler[h].applied, p) \in Seq(Providers)
      BY <1>5, <1>6
  <2> QED BY Zenon, <2>1, <2>2, <2>3
<1>12. /\ TokensSuffice(h)
       /\ At(h) \notin Spent(Main)
       /\ At(h) \notin Spent(Companion)
       /\ \A o \in Observers : token[o] <= requests
       /\ (handler[h].old["lms"] \/ p = "lms") => \A o \in Observers : token[o] < requests
  <2>1. \A o \in Observers : At(h) \notin Spent(o)
      BY <1>3 DEF Spent
  <2> QED BY <1>1, <1>2, <1>10, <2>1 DEF TokensSuffice, Observers
<1>13. CASE handler' = [handler EXCEPT ![h] =
                  IF GroupOf(p, on) \o Rest(h) = <<>> THEN Idle
                  ELSE [handler[h] EXCEPT !.todo = GroupOf(p, on) \o Rest(h),
                                          !.applied = Append(handler[h].applied, p)]]
            /\ (p = "lms" /\ on => server # NoServer)
  <2>1. GroupOf(p, on) \o Rest(h) \in Seq(Steps) /\ GroupOf(p, on) \o Rest(h) # <<>>
    <3>1. Numbered(GroupOf(p, on), Before(p, on), Length(p, on)) /\ Length(p, on) \in Nat \ {0}
        BY Zenon, <1>6, Groups
    <3>2. GroupOf(p, on) \in Seq(Steps) /\ Len(GroupOf(p, on)) # 0
        BY <3>1 DEF Numbered
    <3> HIDE DEF p, on
    <3>3. GroupOf(p, on) \o Rest(h) \in Seq(Steps)
          /\ Len(GroupOf(p, on) \o Rest(h)) = Len(GroupOf(p, on)) + Len(Rest(h))
        BY Zenon, <1>9, <3>2, Joined
    <3>4. Len(GroupOf(p, on)) \in Nat
        BY <3>2
    <3>5. Len(GroupOf(p, on) \o Rest(h)) # 0
        BY <1>9, <3>2, <3>3, <3>4
    <3> QED BY Zenon, <3>3, <3>5, EmptySeq
  <2>2. handler' = [handler EXCEPT ![h] =
            [handler[h] EXCEPT !.todo = GroupOf(p, on) \o Rest(h),
                               !.applied = Append(handler[h].applied, p)]]
      BY Zenon, <1>13, <2>1
  <2>3. /\ (handler \in [Handlers -> Request])' /\ Same(h)
        /\ handler'[h].applied = Append(handler[h].applied, p)
        /\ handler'[h].todo = GroupOf(p, on) \o Rest(h)
    <3> HIDE DEF p, on
    <3> DEFINE g == GroupOf(p, on) \o Rest(h)
    <3> DEFINE b == Append(handler[h].applied, p)
    <3>1. handler' = [handler EXCEPT ![h] = [handler[h] EXCEPT !.todo = g, !.applied = b]]
        BY Zenon, <2>2
    <3>2. g \in Seq(Steps) /\ b \in Seq(Providers)
        BY <1>11, <2>1
    <3> HIDE DEF g, b
    <3>3. /\ (handler \in [Handlers -> Request])' /\ Same(h)
          /\ handler'[h].applied = b /\ handler'[h].todo = g
        BY <1>5, <3>1, <3>2 DEF Same, Request
    <3> QED BY <3>3 DEF g, b
  <2>4. Enabling(h, p, on)
      BY Zenon, <1>2, <1>7, <2>3 DEF Enabling, Inserts
  <2>5. /\ Typed' /\ ObservedFits' /\ PlanFits(h)' /\ WorkersFit(h)' /\ OffFits(h)' /\ ZonesFit(h)'
        /\ At(h)' = Before(p, on) + 1
        /\ Last(h)' = IF Len(handler[h].todo) = 1 THEN Before(p, on) + Length(p, on) ELSE Last(h)
      BY Zenon, <1>2, <1>4, <2>4, EnablingKeeps
  <2>6. /\ p = "lms" => At(h)' = IF on THEN 24 ELSE 11
        /\ p = "hqplayer" => At(h)' = IF on THEN 46 ELSE 43
        /\ Before(p, on) + Length(p, on) # 41
    <3>1. <<p, on, Before(p, on) + 1, Before(p, on) + Length(p, on)>> \in
             {<<"lms", TRUE, 24, 31>>, <<"lms", FALSE, 11, 19>>,
              <<"hqplayer", TRUE, 46, 47>>, <<"hqplayer", FALSE, 43, 45>>}
        BY Zenon, <1>6, Groups
    <3>2. \/ p = "lms" /\ on = TRUE /\ Before(p, on) + 1 = 24 /\ Before(p, on) + Length(p, on) = 31
          \/ p = "lms" /\ on = FALSE /\ Before(p, on) + 1 = 11 /\ Before(p, on) + Length(p, on) = 19
          \/ p = "hqplayer" /\ on = TRUE /\ Before(p, on) + 1 = 46 /\ Before(p, on) + Length(p, on) = 47
          \/ p = "hqplayer" /\ on = FALSE /\ Before(p, on) + 1 = 43 /\ Before(p, on) + Length(p, on) = 45
        BY Zenon, <3>1
    <3> HIDE DEF p, on
    <3> QED BY <2>5, <3>2
  <2>7. At(h)' \in {11, 24, 43, 46}
      BY <1>6, <2>6
  <2>8. /\ (Toggling(h))' = TRUE /\ ~handler'[h].back /\ handler'[h].old = handler[h].old
        /\ handler'[h].applied = Append(handler[h].applied, p)
      BY <1>4, <2>3 DEF Same, Toggling
  <2>9. AppliedFits(h)'
    <3>1. CASE p = "lms"
      <4>1. handler'[h].applied = <<"lms">> /\ At(h)' = IF on THEN 24 ELSE 11
          BY <1>11, <2>6, <2>8, <3>1
      <4>2. (on => ~handler[h].old["lms"]) /\ (~on => handler[h].old["lms"])
          BY <1>4, <1>5, <1>10, <3>1 DEF Toggles, Providers
      <4>3. (on => At(h)' = 24) /\ (~on => At(h)' = 11)
          BY Zenon, <4>1
      <4>4. /\ At(h)' \in 11 .. 19 => At(h)' # 24
            /\ At(h)' \in 24 .. 31 => At(h)' # 11
          OBVIOUS
      <4>5. /\ At(h)' \in 11 .. 19 => handler[h].old["lms"]
            /\ At(h)' \in 24 .. 31 => ~handler[h].old["lms"]
            /\ At(h)' \in {11, 24}
          BY Zenon, <4>2, <4>3, <4>4
      <4>6. At(h)' \notin {1, 41} /\ At(h)' \notin 43 .. 47
          BY <4>5
      <4> QED BY <2>8, <4>1, <4>5, <4>6 DEF AppliedFits
    <3>2. CASE p = "hqplayer"
      <4>1. handler'[h].applied \in {<<"hqplayer">>, <<"lms", "hqplayer">>} /\ At(h)' \in {43, 46}
          BY <1>6, <1>11, <2>6, <2>8, <3>2
      <4> QED BY <2>8, <4>1 DEF AppliedFits
    <3> QED BY <1>6, <3>1, <3>2
  <2>10. ServerNamed(h)'
    <3>1. At(h)' = 24 => server # NoServer
        BY <1>6, <1>13, <2>6
    <3> QED BY <1>8, <2>7, <3>1 DEF ServerNamed
  <2>11. TokensSuffice(h)'
    <3>1. At(h)' \in {1} \cup 24 .. 31 => p = "lms"
        BY <1>6, <2>6
    <3> QED BY <1>8, <1>12, <2>8, <3>1 DEF TokensSuffice
  <2>12. SavedFits(h)'
    <3>1. At(h)' \notin {0, 1}
        BY <2>7
    <3>2. Last(h)' = Last(h) \/ (Last(h) = At(h) /\ Last(h)' # 41)
      <4>1. Len(handler[h].todo) = 1 => Last(h) = At(h)
          BY <1>2 DEF Last, At
      <4> QED BY <2>5, <2>6, <4>1
    <3> QED BY <1>1, <1>3, <1>4, <1>6, <1>7, <2>3, <3>1, <3>2, ToggleSaved
  <2> QED BY <2>5, <2>9, <2>10, <2>11, <2>12 DEF Good, Fits
<1>14. CASE /\ p = "lms" /\ on /\ server = NoServer
            /\ handler' = [handler EXCEPT ![h] =
                  IF Rest(h) = <<>> THEN Idle
                  ELSE [handler[h] EXCEPT !.todo = Rest(h),
                                          !.applied = Append(handler[h].applied, p)]]
  <2>1. At(h) = 1
      BY <1>10, <1>14
  <2>2. /\ (handler \in [Handlers -> Request])'
        /\ \/ Rest(h) = <<>> /\ handler'[h] = Idle
           \/ /\ Rest(h) # <<>> /\ Same(h) /\ handler'[h].todo = Rest(h)
              /\ handler'[h].applied = <<"lms">>
    <3>1. CASE Rest(h) = <<>>
      <4>1. Idle \in Request
          BY DEF Idle, Request, Toggles, NoToken
      <4>2. handler' = [handler EXCEPT ![h] = Idle]
          BY Zenon, <1>14, <3>1
      <4> QED BY <1>5, <3>1, <4>1, <4>2
    <3>2. CASE Rest(h) # <<>>
      <4> DEFINE r == Rest(h)
      <4> DEFINE b == Append(handler[h].applied, p)
      <4>1. handler' = [handler EXCEPT ![h] = [handler[h] EXCEPT !.todo = r, !.applied = b]]
          BY Zenon, <1>14, <3>2
      <4>2. r \in Seq(Steps) /\ b \in Seq(Providers) /\ b = <<"lms">>
          BY <1>9, <1>11, <1>14
      <4> HIDE DEF r, b
      <4>3. /\ (handler \in [Handlers -> Request])' /\ Same(h)
            /\ handler'[h].applied = b /\ handler'[h].todo = r
          BY <1>5, <4>1, <4>2 DEF Same, Request
      <4> QED BY <3>2, <4>2, <4>3 DEF r
    <3> QED BY <3>1, <3>2
  <2>3. PlanFits(h)' /\ Moved(h, 1)
    <3> DEFINE s == handler[h].todo
    <3>1. /\ Rest(h) \in Seq(Steps) /\ Len(s) \in Nat \ {0} /\ Len(Rest(h)) = Len(s) - 1
          /\ \A i \in 1 .. Len(s) - 1 : Rest(h)[i] = s[1 + i]
          /\ Rest(h) = <<>> <=> Len(s) = 1
        BY Zenon, <1>2, <1>5, LeftByOne DEF Rest
    <3>2. Stage(s[1]) = 1
        BY <1>2, <2>1 DEF At
    <3>3. 1 \in 1 .. Len(s) /\ (Rest(h) # <<>> => 1 < Len(s))
        BY <3>1
    <3>4. \A i \in 1 .. 1 : Stage(s[i]) \notin {2, 42}
        BY <3>2
    <3>5. \/ 1 = Len(s) /\ handler'[h] = Idle
          \/ /\ Same(h) /\ 1 < Len(s) /\ Len(handler'[h].todo) = Len(s) - 1
             /\ \A i \in 1 .. Len(s) - 1 : handler'[h].todo[i] = s[1 + i]
        BY Zenon, <2>2, <3>1, <3>3
    <3>6. PlanFits(h)' /\ Moved(h, Stage(s[1]))
        BY Zenon, <1>1, <2>2, <3>3, <3>4, <3>5, Advance
    <3> QED BY <3>2, <3>6
  <2>4. \/ handler'[h] = Idle /\ At(h)' = 0 /\ Last(h) = 1
        \/ /\ Same(h) /\ At(h)' = 41 /\ Last(h)' = Last(h) /\ handler'[h].applied = <<"lms">>
    <3>1. CASE handler'[h] = Idle /\ At(h)' = 0 /\ 1 = Last(h)
        BY <3>1
    <3>2. CASE Same(h) /\ Leads(1, At(h)') /\ StepFits(h, At(h)') /\ Last(h)' = Last(h)
      <4>1. At(h)' = 41
          BY <3>2 DEF Leads
      <4>2. handler'[h] # Idle
          BY <4>1, IdleFacts DEF At
      <4> QED BY <2>2, <3>2, <4>1, <4>2
    <3> QED BY <2>3, <3>1, <3>2 DEF Moved
  <2>5. Typed'
    <3>1. enabled' \in [Adapters -> BOOLEAN]
        BY <1>1, <1>6, <1>7 DEF Typed, OthersTyped, Transition
    <3>2. OthersTyped'
        BY <1>1, <1>8, <3>1, TypedParts DEF OthersTyped
    <3>3. (worker \in [Observers -> [Tokens -> Worker]])'
        BY <1>1, <1>8 DEF Typed
    <3> QED BY <2>2, <3>2, <3>3, TypedNext
  <2>6. /\ At(h)' \in {0, 41}
        /\ At(h)' = 41 => (Toggling(h))' = TRUE /\ ~handler'[h].back
                          /\ handler'[h].old = handler[h].old /\ handler'[h].applied = <<"lms">>
        /\ At(h)' = 0 => handler'[h] = Idle
      BY <1>4, <2>4 DEF Same, Toggling
  <2>7. AppliedFits(h)'
    <3>1. CASE At(h)' = 0
        BY <2>6, <3>1, IdleFacts DEF AppliedFits
    <3>2. CASE At(h)' = 41
      <4>1. handler'[h].applied \in {<<>>, <<"lms">>}
          BY Zenon, <2>6, <3>2
      <4>2. At(h)' # 1 /\ At(h)' \notin 43 .. 47 /\ At(h)' \notin 11 .. 31
          BY <3>2
      <4>3. (Toggling(h))' = TRUE
          BY Zenon, <2>6, <3>2
      <4>4. ~handler'[h].back
          BY Zenon, <2>6, <3>2
      <4>5. /\ (At(h)' = 1 \/ ~(Toggling(h))') => handler'[h].applied = <<>>
            /\ At(h)' = 41 => handler'[h].applied \in {<<>>, <<"lms">>}
          BY Zenon, <4>1, <4>2, <4>3
      <4> HIDE DEF At
      <4> QED BY <4>2, <4>4, <4>5 DEF AppliedFits
    <3> QED BY <2>6, <3>1, <3>2
  <2>8. ServerNamed(h)' /\ TokensSuffice(h)'
    <3>1. ServerNamed(h)'
        BY <2>6 DEF ServerNamed
    <3>2. TokensSuffice(h)'
        BY <1>8, <1>12, <1>14 DEF TokensSuffice
    <3> QED BY <3>1, <3>2
  <2>9. \A o : Live(o)' = Live(o)
      BY <1>8 DEF Live
  <2>10. WorkersFit(h)'
    <3>1. At(h) \notin {12, 15, 29, 30} /\ At(h)' \notin {12, 15, 25, 26, 29, 30}
        BY <2>1, <2>6
    <3>2. ASSUME NEW n \in {0, 41}, NEW o
          PROVE  n \notin NoneAt(o)
        BY DEF NoneAt
    <3>3. \A o \in Observers : At(h)' \notin NoneAt(o)
        BY Zenon, <2>6, <3>2
    <3> QED BY <1>1, <1>8, <3>1, <3>3, WorkersKeep
  <2>11. enabled'["lms"] = TRUE /\ enabled'["hqplayer"] = enabled["hqplayer"]
    <3>1. enabled \in [Adapters -> BOOLEAN] /\ enabled' = [enabled EXCEPT !["lms"] = TRUE]
        BY <1>1, <1>6, <1>7, <1>14 DEF Typed, OthersTyped, Transition
    <3>2. "lms" \in Adapters /\ "hqplayer" \in Adapters
        BY DEF Adapters, Providers
    <3> QED BY <3>1, <3>2
  <2>12. OffFits(h)'
    <3>1. ~enabled["hqplayer"] => ~running["hqplayer"] /\ ~flag["hqplayer"]
        BY <1>1, <2>1 DEF OffFits
    <3> QED BY <1>8, <2>6, <2>11, <3>1 DEF OffFits
  <2>13. SavedFits(h)'
    <3>1. \/ At(h)' = 0 /\ At(h) = 1 /\ Last(h) = 1
          \/ /\ At(h)' \notin {0, 1} /\ Same(h)
             /\ handler'[h].applied = Append(handler[h].applied, p)
             /\ Last(h)' = Last(h) \/ (Last(h) = At(h) /\ Last(h)' # 41)
      <4>1. p = "lms" /\ Append(handler[h].applied, p) = <<"lms">>
          BY Zenon, <1>11, <1>14
      <4>2. 41 \notin {0, 1}
          OBVIOUS
      <4> QED BY Zenon, <2>1, <2>4, <4>1, <4>2
    <3>2. Transition(h, p, handler[h].new[p]) /\ p \in {"lms", "hqplayer"}
        BY Zenon, <1>6, <1>7
    <3>3. At(h) \in {1, 41}
        BY <1>3
    <3> HIDE DEF p
    <3> QED BY Zenon, <1>1, <1>4, <3>1, <3>2, <3>3, ToggleSaved
  <2>14. ZonesFit(h)'
    <3>1. \A n : Flushed(h, n) => Flushed(h, n)'
        BY <1>8, <2>1 DEF Flushed
    <3>2. \A s : Shows(h, s) => Shows(h, s)'
        BY <1>8, <2>6, <2>11 DEF Shows, Serving
    <3> QED BY <1>1, <1>8, <2>9, <3>1, <3>2 DEF ZonesFit
  <2> QED BY <1>1, <1>8, <2>3, <2>5, <2>7, <2>8, <2>10, <2>12, <2>13, <2>14, ObservedStays
          DEF Good, Fits
<1> QED
  <2> DEFINE follow == IF ~on THEN StopGroup(p)
                       ELSE IF p = "lms" /\ server = NoServer THEN <<>> ELSE StartGroup(p)
  <2>1. handler' = [handler EXCEPT ![h] =
            IF follow \o Rest(h) = <<>> THEN Idle
            ELSE [handler[h] EXCEPT !.todo = follow \o Rest(h),
                                    !.applied = Append(handler[h].applied, p)]]
      BY Zenon DEF Toggle
  <2>2. CASE p = "lms" /\ on /\ server = NoServer
    <3>1. follow = <<>>
        BY Zenon, <2>2
    <3>2. <<>> \o Rest(h) = Rest(h)
        BY <1>9
    <3>3. follow \o Rest(h) = Rest(h)
        BY Zenon, <3>1, <3>2
    <3> QED BY Zenon, <1>14, <2>1, <2>2, <3>3
  <2>3. CASE ~(p = "lms" /\ on /\ server = NoServer)
    <3>1. follow = GroupOf(p, on)
        BY Zenon, <2>3 DEF GroupOf
    <3> QED BY Zenon, <1>13, <2>1, <2>3, <3>1
  <2> QED BY <2>2, <2>3
-------------------------------------------------------------------------------
(* Requests begin *)

Begins(h) ==
    /\ handler[h] = Idle /\ requests < MaxRequests /\ requests' = requests + 1
    /\ (handler \in [Handlers -> Request])'
    /\ At(h)' \in {0, 1, 11, 41}
    /\ handler'[h].applied = <<>> /\ ~handler'[h].back
    /\ (disk \in [on : Toggles, hidden : BOOLEAN])'
    /\ UNCHANGED <<enabled, running, flag, token, cancelled, task, server, known, worker,
                   ingress, bus, listed, lost, orphaned, unsaved, lags>>

(* A request that begins disturbs no part but its own plan and the file.   *)
LEMMA Beginning ==
    ASSUME NEW h \in Handlers, Good(h), Begins(h), PlanFits(h)', SavedFits(h)',
           At(h)' = 11 => ~(Toggling(h))'
    PROVE  Good(h)'
<1>1. /\ Typed /\ ObservedFits /\ WorkersFit(h) /\ TokensSuffice(h) /\ OffFits(h) /\ ZonesFit(h)
    BY DEF Good, Fits
<1>2. At(h) = 0
    BY IdleFacts DEF Begins, At
<1>3. At(h)' \in {0, 1, 11, 41}
    BY DEF Begins
<1>4. UNCHANGED <<enabled, running, flag, token, cancelled, task, server, known, worker,
                  ingress, bus, listed, lost, orphaned, unsaved, lags>>
    BY DEF Begins
<1>5. Typed'
  <2>1. requests' \in 0 .. MaxRequests
    <3>1. requests \in 0 .. MaxRequests
        BY <1>1 DEF Typed, OthersTyped
    <3> QED BY <3>1, LifecycleAssumption DEF Begins
  <2>2. disk' \in [on : Toggles, hidden : BOOLEAN]
      BY DEF Begins
  <2>3. OthersTyped'
      BY <1>1, <1>4, <2>1, <2>2, TypedParts DEF OthersTyped
  <2>4. (worker \in [Observers -> [Tokens -> Worker]])'
      BY <1>1, <1>4 DEF Typed
  <2>5. (handler \in [Handlers -> Request])'
      BY DEF Begins
  <2> QED BY <2>3, <2>4, <2>5, TypedNext
<1>6. AppliedFits(h)'
  <2>1. handler'[h].applied = <<>> /\ handler'[h].applied \in {<<>>, <<"lms">>}
      BY DEF Begins
  <2>2. At(h)' \notin 43 .. 47 /\ (At(h)' \in 11 .. 31 => At(h)' = 11)
      BY <1>3
  <2>3. ~((Toggling(h))' /\ At(h)' \in 11 .. 31) /\ (At(h)' \in 11 .. 19 => At(h)' \in 11 .. 31)
        /\ (At(h)' \in 24 .. 31 => At(h)' \in 11 .. 31)
      BY <2>2
  <2> QED BY Zenon, <2>1, <2>2, <2>3 DEF AppliedFits
<1>7. ServerNamed(h)'
    BY <1>3 DEF ServerNamed
<1>8. TokensSuffice(h)'
  <2>1. requests \in Nat /\ requests' = requests + 1
      BY <1>1 DEF Typed, OthersTyped, Begins
  <2>2. ASSUME NEW o \in Observers
        PROVE  token'[o] < requests'
    <3>1. token[o] \in Nat /\ token[o] <= requests /\ token'[o] = token[o]
        BY <1>1, <1>4 DEF TokensSuffice, Typed, OthersTyped, Tokens, NoToken
    <3> QED BY <2>1, <3>1
  <2>3. \A o \in Observers : token'[o] \in Nat
      BY <1>1, <1>4 DEF Typed, OthersTyped, Tokens, NoToken
  <2>4. \A o \in Observers : token'[o] <= requests'
      BY <2>1, <2>2, <2>3
  <2> QED BY <2>2, <2>4 DEF TokensSuffice
<1>9. WorkersFit(h)'
  <2>1. At(h) \notin {12, 15, 29, 30} /\ At(h)' \notin {12, 15, 25, 26, 29, 30}
      BY <1>2, <1>3
  <2>2. ASSUME NEW n \in {0, 1, 11, 41}, NEW o
        PROVE  n \notin NoneAt(o)
      BY DEF NoneAt
  <2>3. \A o \in Observers : At(h)' \notin NoneAt(o)
      BY Zenon, <1>3, <2>2
  <2> QED BY <1>1, <1>4, <2>1, <2>3, WorkersKeep
<1>10. \A o : Live(o)' = Live(o)
    BY <1>4 DEF Live
<1>11. OffFits(h)'
    BY <1>1, <1>2, <1>3, <1>4, <1>10 DEF OffFits
<1>12. ZonesFit(h)'
  <2>1. \A n : Flushed(h, n) => Flushed(h, n)'
      BY <1>2, <1>4 DEF Flushed
  <2>2. \A s : Shows(h, s) => Shows(h, s)'
      BY <1>3, <1>4 DEF Shows, Serving
  <2> QED BY <1>1, <1>4, <1>10, <2>1, <2>2 DEF ZonesFit
<1> QED BY <1>1, <1>4, <1>5, <1>6, <1>7, <1>8, <1>9, <1>11, <1>12, ObservedStays DEF Good, Fits

(* The toggles a request has to change.                                    *)
LEMMA ChangesOf ==
    ASSUME NEW old \in Toggles, NEW new \in Toggles
    PROVE  /\ Changes(old, new) =
                 IF old["lms"] # new["lms"]
                 THEN IF old["hqplayer"] # new["hqplayer"]
                      THEN <<Step("toggle", "lms"), Step("toggle", "hqplayer")>>
                      ELSE <<Step("toggle", "lms")>>
                 ELSE IF old["hqplayer"] # new["hqplayer"]
                      THEN <<Step("toggle", "hqplayer")>>
                      ELSE <<>>
           /\ old["lms"] = new["lms"] /\ old["hqplayer"] = new["hqplayer"] => old = new
<1>1. ASSUME NEW a, NEW b
      PROVE  /\ <<a>> \o <<b>> = <<a, b>> /\ <<a>> \o <<>> = <<a>>
             /\ <<>> \o <<b>> = <<b>> /\ <<>> \o <<>> = <<>>
  <2> DEFINE S == {a, b}
  <2>1. <<a>> \in Seq(S) /\ <<b>> \in Seq(S) /\ <<>> \in Seq(S)
      OBVIOUS
  <2>2. <<a>> \o <<b>> = <<a, b>>
    <3> DEFINE s == <<a>> \o <<b>>
    <3> DEFINE t == <<a, b>>
    <3>1. s \in Seq(S) /\ t \in Seq(S) /\ Len(s) = 2 /\ Len(t) = 2
        BY <2>1
    <3>2. s[1] = a /\ s[2] = b /\ t[1] = a /\ t[2] = b
        BY <2>1
    <3> HIDE DEF s, t
    <3>3. \A i \in 1 .. Len(s) : s[i] = t[i]
      <4>1. \A i \in 1 .. Len(s) : i = 1 \/ i = 2
          BY <3>1
      <4> QED BY Zenon, <3>2, <4>1
    <3>4. s = t
        BY <3>1, <3>3, SeqEqual
    <3> QED BY <3>4 DEF s, t
  <2> HIDE DEF S
  <2> QED BY Zenon, <2>1, <2>2, ConcatEmptySeq
<1>2. old["lms"] = new["lms"] /\ old["hqplayer"] = new["hqplayer"] => old = new
    BY DEF Toggles, Providers
<1> QED BY Zenon, <1>1, <1>2 DEF Changes

(* A request that begins with the list c.                                  *)
Begun(c, old, new, hides) ==
    [todo |-> c, old |-> old, new |-> new, applied |-> <<>>, hides |-> hides,
     back |-> FALSE, token |-> NoToken, join |-> NoToken]

Fresh(r, c, old, new) ==
    /\ r \in Request /\ r.todo = c /\ r.old = old /\ r.new = new
    /\ r.applied = <<>> /\ ~r.back

(* What a request that begins is.                                          *)
LEMMA BegunFits ==
    ASSUME NEW c \in Seq(Steps), NEW old \in Toggles, NEW new \in Toggles, NEW hides \in BOOLEAN,
           NEW r, r = Begun(c, old, new, hides)
    PROVE  Fresh(r, c, old, new)
<1>1. Begun(c, old, new, hides) \in Request
    BY DEF Request, Begun
<1>2. r.todo = c /\ r.old = old /\ r.new = new /\ r.applied = <<>> /\ ~r.back
    BY DEF Begun
<1> QED BY <1>1, <1>2 DEF Fresh

(* A request that begins, with its fields in full.                         *)
LEMMA BegunAs ==
    ASSUME NEW c, NEW old, NEW new, NEW hides, NEW r,
           r = [Idle EXCEPT !.todo = c, !.old = old, !.new = new, !.hides = hides]
    PROVE  r = Begun(c, old, new, hides)
BY DEF Idle, Begun

(* A request to change the toggles.                                        *)
LEMMA PostSettingsStep ==
    ASSUME NEW h \in Handlers, Good(h), PostSettings(h)
    PROVE  Good(h)'
<1>1. Typed /\ PlanFits(h) /\ SavedFits(h)
    BY DEF Good, Fits
<1>2. At(h) = 0 /\ handler[h] = Idle
    BY IdleFacts DEF PostSettings, At
<1>3. PICK new \in [Providers -> BOOLEAN] :
         /\ disk' = [disk EXCEPT !.on = new]
         /\ handler' = [handler EXCEPT ![h] =
                IF new = disk.on THEN Idle
                ELSE [Idle EXCEPT !.todo = Changes(disk.on, new), !.old = disk.on,
                                  !.new = new, !.hides = disk.hidden]]
    BY DEF PostSettings
<1>4. /\ UNCHANGED <<enabled, running, flag, token, cancelled, task, server, known, worker,
                     ingress, bus, listed, lost, orphaned, unsaved, lags>>
      /\ requests < MaxRequests /\ requests' = requests + 1
    BY DEF PostSettings, coordinatorVars, adapterVars, projectionVars, historyVars
<1>5. /\ disk \in [on : Toggles, hidden : BOOLEAN] /\ disk.on \in Toggles /\ new \in Toggles
      /\ handler \in [Handlers -> Request]
    BY <1>1 DEF Typed, OthersTyped, Toggles
<1>6. disk' \in [on : Toggles, hidden : BOOLEAN] /\ disk'.on = new
    BY <1>3, <1>5
<1>7. ~unsaved => disk.on["lms"] = enabled["lms"] /\ disk.on["hqplayer"] = enabled["hqplayer"]
    BY <1>1, <1>2 DEF SavedFits, Providers
<1>8. CASE new = disk.on
  <2>1. handler' = handler
    <3>1. handler' = [handler EXCEPT ![h] = Idle]
        BY Zenon, <1>3, <1>8
    <3> QED BY <1>2, <1>5, <3>1
  <2>2. Begins(h)
      BY <1>2, <1>4, <1>5, <1>6, <2>1, IdleFacts DEF Begins, At
  <2>3. PlanFits(h)'
      BY <1>1, <2>1 DEF PlanFits, StepFits, Toggling, At, Last
  <2>4. SavedFits(h)'
    <3>1. At(h)' = 0 /\ disk'.on = disk.on
        BY <1>2, <1>6, <1>8, <2>1 DEF At
    <3>2. ~unsaved => \A q \in Providers : disk'.on[q] = enabled[q]
        BY <1>7, <3>1 DEF Providers
    <3> QED BY <1>4, <3>1, <3>2 DEF SavedFits
  <2> QED BY <1>2, <2>1, <2>2, <2>3, <2>4, Beginning DEF At
<1>9. CASE new # disk.on
  <2> DEFINE c == Changes(disk.on, new)
  <2>1. \/ /\ disk.on["lms"] # new["lms"] /\ disk.on["hqplayer"] # new["hqplayer"]
           /\ c = <<Step("toggle", "lms"), Step("toggle", "hqplayer")>>
        \/ /\ disk.on["lms"] # new["lms"] /\ disk.on["hqplayer"] = new["hqplayer"]
           /\ c = <<Step("toggle", "lms")>>
        \/ /\ disk.on["lms"] = new["lms"] /\ disk.on["hqplayer"] # new["hqplayer"]
           /\ c = <<Step("toggle", "hqplayer")>>
      BY Zenon, <1>5, <1>9, ChangesOf
  <2> HIDE DEF c
  <2>2. /\ c \in Seq(Steps) /\ c # <<>>
        /\ Stage(c[1]) = IF disk.on["lms"] # new["lms"] THEN 1 ELSE 41
        /\ Stage(c[Len(c)]) = IF disk.on["hqplayer"] # new["hqplayer"] THEN 41 ELSE 1
        /\ \A i \in 1 .. Len(c) : \/ Stage(c[i]) = 1 /\ disk.on["lms"] # new["lms"]
                                  \/ Stage(c[i]) = 41 /\ disk.on["hqplayer"] # new["hqplayer"]
        /\ \A i \in 1 .. Len(c) : i < Len(c) => Stage(c[i]) = 1 /\ Stage(c[i + 1]) = 41
    <3>1. CASE /\ disk.on["lms"] # new["lms"] /\ disk.on["hqplayer"] # new["hqplayer"]
               /\ c = <<Step("toggle", "lms"), Step("toggle", "hqplayer")>>
      <4>1. /\ c \in Seq(Steps) /\ c # <<>> /\ Len(c) = 2
            /\ c[1] = Step("toggle", "lms") /\ c[2] = Step("toggle", "hqplayer")
          BY <3>1, StageValues
      <4>2. Stage(c[1]) = 1 /\ Stage(c[2]) = 41
          BY Zenon, <4>1, StageValues
      <4> QED BY <3>1, <4>1, <4>2
    <3>2. CASE /\ disk.on["lms"] # new["lms"] /\ disk.on["hqplayer"] = new["hqplayer"]
               /\ c = <<Step("toggle", "lms")>>
      <4>1. c \in Seq(Steps) /\ c # <<>> /\ Len(c) = 1 /\ c[1] = Step("toggle", "lms")
          BY <3>2, StageValues
      <4>2. Stage(c[1]) = 1
          BY Zenon, <4>1, StageValues
      <4> QED BY <3>2, <4>1, <4>2
    <3>3. CASE /\ disk.on["lms"] = new["lms"] /\ disk.on["hqplayer"] # new["hqplayer"]
               /\ c = <<Step("toggle", "hqplayer")>>
      <4>1. c \in Seq(Steps) /\ c # <<>> /\ Len(c) = 1 /\ c[1] = Step("toggle", "hqplayer")
          BY <3>3, StageValues
      <4>2. Stage(c[1]) = 41
          BY Zenon, <4>1, StageValues
      <4> QED BY <3>3, <4>1, <4>2
    <3> QED BY <2>1, <3>1, <3>2, <3>3
  <2>3. /\ handler' \in [Handlers -> Request] /\ handler'[h].todo = c
        /\ handler'[h].old = disk.on /\ handler'[h].new = new
        /\ handler'[h].applied = <<>> /\ ~handler'[h].back
    <3> DEFINE r == Begun(c, disk.on, new, disk.hidden)
    <3>1. handler' = [handler EXCEPT ![h] = r]
      <4> DEFINE q == [Idle EXCEPT !.todo = c, !.old = disk.on, !.new = new, !.hides = disk.hidden]
      <4>1. handler' = [handler EXCEPT ![h] = q]
          BY Zenon, <1>3, <1>9 DEF c
      <4>2. q = r
          BY Zenon, BegunAs
      <4> QED BY Zenon, <4>1, <4>2
    <3>2. disk.hidden \in BOOLEAN /\ disk.on \in Toggles /\ new \in Toggles /\ c \in Seq(Steps)
        BY <1>5, <2>2
    <3>3. Fresh(r, c, disk.on, new)
      <4>1. r = Begun(c, disk.on, new, disk.hidden)
          OBVIOUS
      <4> HIDE DEF r
      <4> QED BY Zenon, <3>2, <4>1, BegunFits
    <3> HIDE DEF r
    <3> QED BY <1>5, <3>1, <3>3 DEF Fresh
  <2>4. /\ At(h)' = IF disk.on["lms"] # new["lms"] THEN 1 ELSE 41
        /\ Last(h)' = IF disk.on["hqplayer"] # new["hqplayer"] THEN 41 ELSE 1
        /\ (Toggling(h))' = TRUE
      BY <1>9, <2>2, <2>3 DEF At, Last, Toggling
  <2>5. At(h)' \in {1, 41} /\ Last(h)' \in {1, 41}
      BY <2>4
  <2>6. Begins(h)
      BY <1>2, <1>4, <1>6, <2>3, <2>5 DEF Begins
  <2>7. PlanFits(h)'
    <3>1. /\ disk.on["lms"] # new["lms"] => StepFits(h, 1)'
          /\ disk.on["hqplayer"] # new["hqplayer"] => StepFits(h, 41)'
        BY <2>3, <2>4 DEF StepFits
    <3>2. (\A i \in 1 .. Len(handler[h].todo) : StepFits(h, Stage(handler[h].todo[i])))'
        BY <2>2, <2>3, <3>1
    <3>3. (\A i \in 1 .. Len(handler[h].todo) :
              i < Len(handler[h].todo) =>
                 Leads(Stage(handler[h].todo[i]), Stage(handler[h].todo[i + 1])))'
      <4>1. Leads(1, 41)
          BY DEF Leads
      <4> QED BY <2>2, <2>3, <4>1
    <3> QED BY <2>2, <2>3, <2>4, <2>5, <3>2, <3>3 DEF PlanFits, Final
  <2>8. SavedFits(h)'
    <3>1. At(h)' # 0 /\ ~handler'[h].back /\ (Toggling(h))' = TRUE
          /\ disk'.on = handler'[h].new
        BY <1>6, <2>3, <2>4, <2>5
    <3>2. ~unsaved =>
             /\ At(h)' = 1 \/ enabled["lms"] = new["lms"]
             /\ Last(h)' = 41 \/ enabled["hqplayer"] = new["hqplayer"]
             /\ enabled["lms"] = disk.on["lms"] /\ enabled["hqplayer"] = disk.on["hqplayer"]
        BY <1>7, <2>4
    <3> QED BY Zenon, <1>4, <2>3, <3>1, <3>2 DEF SavedFits
  <2> QED BY <2>5, <2>6, <2>7, <2>8, Beginning
<1> QED BY <1>8, <1>9

(* The stages of a configuration follow one another.                       *)
LEMMA Onward ==
    ASSUME NEW i \in 1 .. 21
    PROVE  /\ 10 + i \in 11 .. 31
           /\ i < 21 => i + 1 \in 1 .. 21 /\ Leads(10 + i, 10 + (i + 1))
BY DEF Leads

(* A request to configure the server.                                      *)
LEMMA PostConfigureStep ==
    ASSUME NEW h \in Handlers, Good(h), PostConfigure(h)
    PROVE  Good(h)'
<1>1. Typed /\ SavedFits(h)
    BY DEF Good, Fits
<1>2. At(h) = 0 /\ handler[h] = Idle
    BY IdleFacts DEF PostConfigure, At
<1>3. /\ UNCHANGED <<disk, enabled, running, flag, token, cancelled, task, server, known, worker,
                     ingress, bus, listed, lost, orphaned, unsaved, lags>>
      /\ requests < MaxRequests /\ requests' = requests + 1
    BY DEF PostConfigure, coordinatorVars, adapterVars, projectionVars, historyVars
<1>4. handler \in [Handlers -> Request] /\ disk' \in [on : Toggles, hidden : BOOLEAN]
    BY <1>1, <1>3 DEF Typed, OthersTyped
<1> DEFINE c == Configuration
<1>5. /\ c \in Seq(Steps) /\ Len(c) = 21
      /\ \A i \in 1 .. 21 : Stage(c[i]) = 10 + i
    BY ConfigurationStages DEF Numbered
<1> HIDE DEF c
<1>6. /\ handler' \in [Handlers -> Request] /\ handler'[h].todo = c
      /\ handler'[h].old = handler'[h].new /\ handler'[h].applied = <<>> /\ ~handler'[h].back
  <2> DEFINE none == [p \in Providers |-> FALSE]
  <2> DEFINE r == Begun(c, none, none, FALSE)
  <2>1. handler' = [handler EXCEPT ![h] = r]
    <3> DEFINE q == [Idle EXCEPT !.todo = c]
    <3>1. handler' = [handler EXCEPT ![h] = q]
        BY Zenon DEF PostConfigure, c
    <3>2. ASSUME NEW s, s = [Idle EXCEPT !.todo = c]
          PROVE  s = r
        BY <3>2 DEF Idle, Begun
    <3>3. q = r
        BY Zenon, <3>2
    <3> QED BY Zenon, <3>1, <3>3
  <2>2. none \in Toggles /\ FALSE \in BOOLEAN
      BY DEF Toggles
  <2> HIDE DEF none
  <2>3. Fresh(r, c, none, none)
    <3>1. r = Begun(c, none, none, FALSE)
        OBVIOUS
    <3> HIDE DEF r
    <3> QED BY Zenon, <1>5, <2>2, <3>1, BegunFits
  <2> HIDE DEF r
  <2> QED BY <1>4, <2>1, <2>3 DEF Fresh
<1>7. At(h)' = 11 /\ Last(h)' = 31 /\ ~(Toggling(h))'
  <2>1. Stage(c[1]) = 11 /\ Stage(c[21]) = 31
      BY <1>5
  <2>2. c # <<>>
    <3>1. Len(<<>>) # 21
        OBVIOUS
    <3> QED BY Zenon, <1>5, <3>1
  <2> QED BY <1>5, <1>6, <2>1, <2>2 DEF At, Last, Toggling
<1>8. Begins(h)
    BY <1>2, <1>3, <1>4, <1>6, <1>7 DEF Begins
<1>9. PlanFits(h)'
  <2>1. ASSUME NEW n \in 11 .. 31
        PROVE  StepFits(h, n)'
      BY <1>6, <1>7 DEF StepFits
  <2>2. ASSUME NEW i \in 1 .. 21
        PROVE  StepFits(h, Stage(c[i]))'
    <3>1. 10 + i \in 11 .. 31 /\ Stage(c[i]) = 10 + i
        BY Zenon, <1>5, Onward
    <3> QED BY Zenon, <2>1, <3>1
  <2>3. ASSUME NEW i \in 1 .. 21, i < 21
        PROVE  Leads(Stage(c[i]), Stage(c[i + 1]))
    <3>1. Stage(c[i]) = 10 + i /\ Stage(c[i + 1]) = 10 + (i + 1)
        BY Zenon, <1>5, <2>3, Onward
    <3> QED BY Zenon, <2>3, <3>1, Onward
  <2>4. handler'[h].todo # <<>>
    <3>1. Len(<<>>) # 21
        OBVIOUS
    <3> QED BY Zenon, <1>5, <1>6, <3>1
  <2>5. (\A i \in 1 .. Len(handler[h].todo) : StepFits(h, Stage(handler[h].todo[i])))'
      BY <1>5, <1>6, <2>2
  <2>6. (\A i \in 1 .. Len(handler[h].todo) :
            i < Len(handler[h].todo) =>
               Leads(Stage(handler[h].todo[i]), Stage(handler[h].todo[i + 1])))'
      BY <1>5, <1>6, <2>3
  <2> QED BY <1>6, <1>7, <2>4, <2>5, <2>6 DEF PlanFits, Final
<1>10. SavedFits(h)'
  <2>1. ~unsaved => disk.on["lms"] = enabled["lms"] /\ disk.on["hqplayer"] = enabled["hqplayer"]
      BY <1>1, <1>2 DEF SavedFits, Providers
  <2> QED BY <1>3, <1>6, <1>7, <2>1 DEF SavedFits
<1> QED BY <1>7, <1>8, <1>9, <1>10, Beginning
-------------------------------------------------------------------------------
(* Steps of others than the request *)

(* What no step but those of a request changes.                            *)
Steady ==
    /\ UNCHANGED <<handler, enabled, running, token, cancelled, task, server, unsaved>>
    /\ disk'.on = disk.on
    /\ requests' = requests \/ requests' = requests + 1

(* What a step of no request keeps.                                        *)
LEMMA SteadyKeeps ==
    ASSUME NEW h \in Handlers, Typed, Steady, PlanFits(h), AppliedFits(h), ServerNamed(h),
           TokensSuffice(h), SavedFits(h)
    PROVE  /\ PlanFits(h)' /\ AppliedFits(h)' /\ ServerNamed(h)' /\ TokensSuffice(h)' /\ SavedFits(h)'
           /\ At(h)' = At(h) /\ handler' = handler /\ enabled' = enabled /\ server' = server
<1>1. UNCHANGED <<handler, enabled, token, server, unsaved>> /\ disk'.on = disk.on
    BY DEF Steady
<1>2. /\ At(h)' = At(h) /\ Last(h)' = Last(h) /\ (Toggling(h) <=> (Toggling(h))')
      /\ \A n : Restores(h, n) <=> Restores(h, n)'
    BY <1>1 DEF At, Last, Toggling, Restores
<1>3. PlanFits(h)'
    BY <1>1 DEF PlanFits, StepFits, At, Last, Toggling
<1>4. AppliedFits(h)' /\ ServerNamed(h)'
    BY <1>1, <1>2 DEF AppliedFits, ServerNamed
<1>5. TokensSuffice(h)'
  <2>1. requests \in Nat /\ \A o \in Observers : token[o] \in Nat
      BY DEF Typed, OthersTyped, Tokens, NoToken
  <2>2. ASSUME NEW o \in Observers
        PROVE  /\ token[o] <= requests => token[o] <= requests'
               /\ token[o] < requests => token[o] < requests'
      BY <2>1 DEF Steady
  <2> QED BY <1>1, <1>2, <2>2 DEF TokensSuffice
<1>6. SavedFits(h)'
  <2>1. (disk.on["lms"] = disk'.on["lms"]) /\ disk.on["hqplayer"] = disk'.on["hqplayer"]
      BY <1>1
  <2> QED BY Zenon, <1>1, <1>2 DEF SavedFits
<1> QED BY <1>1, <1>2, <1>3, <1>4, <1>5, <1>6

(* A request that changes another setting.                                 *)
LEMMA PostHideStep ==
    ASSUME NEW h \in Handlers, Good(h), PostHide
    PROVE  Good(h)'
<1>1. /\ Typed /\ ObservedFits /\ PlanFits(h) /\ AppliedFits(h) /\ ServerNamed(h)
      /\ TokensSuffice(h) /\ WorkersFit(h) /\ OffFits(h) /\ SavedFits(h) /\ ZonesFit(h)
    BY DEF Good, Fits
<1>2. /\ UNCHANGED <<enabled, running, flag, token, cancelled, task, server, known, worker,
                     ingress, bus, listed, handler, lost, orphaned, unsaved, lags>>
      /\ requests < MaxRequests /\ requests' = requests + 1
      /\ disk' = [disk EXCEPT !.hidden = TRUE]
    BY DEF PostHide, coordinatorVars, adapterVars, projectionVars, historyVars
<1>3. disk \in [on : Toggles, hidden : BOOLEAN]
    BY <1>1 DEF Typed, OthersTyped
<1>4. disk' \in [on : Toggles, hidden : BOOLEAN] /\ disk'.on = disk.on
    BY <1>2, <1>3
<1>5. Steady
    BY <1>2, <1>4 DEF Steady
<1>6. /\ PlanFits(h)' /\ AppliedFits(h)' /\ ServerNamed(h)' /\ TokensSuffice(h)' /\ SavedFits(h)'
      /\ At(h)' = At(h)
    BY <1>1, <1>5, SteadyKeeps
<1>7. requests' \in 0 .. MaxRequests
  <2>1. requests \in 0 .. MaxRequests
      BY <1>1 DEF Typed, OthersTyped
  <2> QED BY <1>2, <2>1, LifecycleAssumption
<1>8. Typed'
  <2>1. OthersTyped'
      BY <1>1, <1>2, <1>4, <1>7, TypedParts DEF OthersTyped
  <2> QED BY <1>1, <1>2, <2>1, TypedNext DEF Typed
<1>9. \A o : Live(o)' = Live(o)
    BY <1>2 DEF Live
<1>10. WorkersFit(h)'
  <2>1. \A o \in Observers : (JoinOf(o))' = JoinOf(o) /\ (NoneAt(o))' = NoneAt(o)
      BY DEF JoinOf, NoneAt
  <2> QED BY <1>1, <1>2, <1>6, <1>9, <2>1 DEF WorkersFit
<1>11. OffFits(h)'
    BY <1>1, <1>2, <1>6, <1>9 DEF OffFits
<1>12. ZonesFit(h)'
  <2>1. \A n : Flushed(h, n) <=> Flushed(h, n)'
      BY <1>2, <1>6 DEF Flushed
  <2>2. \A s : Shows(h, s) <=> Shows(h, s)'
      BY <1>2, <1>6 DEF Shows, Serving
  <2> QED BY <1>1, <1>2, <1>9, <2>1, <2>2 DEF ZonesFit
<1> QED BY <1>1, <1>2, <1>6, <1>8, <1>10, <1>11, <1>12, ObservedStays DEF Good, Fits

(* A step of one worker.                                                   *)
Becomes(o, t, w) == worker' = [worker EXCEPT ![o] = [worker[o] EXCEPT ![t] = w]]
Polls(w) ==
    /\ w.poll \in {NoServer, server}
    /\ \A i \in 1 .. Len(w.out) : w.out[i].type = "zone" => w.out[i].server = server
Observed(w) == (w.phase = "none" => w = Absent) /\ Polls(w)

(* The workers after one of them has changed.                              *)
LEMMA BecomesTyped ==
    ASSUME Typed, NEW o \in Observers, NEW t \in Tokens, NEW w \in Worker, Becomes(o, t, w)
    PROVE  /\ (worker \in [Observers -> [Tokens -> Worker]])' /\ worker'[o][t] = w
           /\ \A u \in Observers, v \in Tokens : u # o \/ v # t => worker'[u][v] = worker[u][v]
           /\ Live(o)' = IF w.phase = "none" THEN Live(o) \ {t} ELSE Live(o) \cup {t}
           /\ \A u \in Observers : u # o => Live(u)' = Live(u)
<1>1. worker \in [Observers -> [Tokens -> Worker]]
    BY DEF Typed
<1>2. worker' = [worker EXCEPT ![o] = [worker[o] EXCEPT ![t] = w]]
    BY DEF Becomes
<1> QED BY Zenon, <1>1, <1>2, OneWorker

(* The workers poll on after one of them has changed.                      *)
LEMMA BecomesObserved ==
    ASSUME Typed, ObservedFits, NEW o \in Observers, NEW t \in Tokens, NEW w \in Worker,
           Becomes(o, t, w), Polls(w), w.phase = "none" => w = Absent, server' = server
    PROVE  ObservedFits'
<1>1. /\ worker'[o][t] = w
      /\ \A u \in Observers, v \in Tokens : u # o \/ v # t => worker'[u][v] = worker[u][v]
    BY Zenon, BecomesTyped
<1>2. \A u \in Observers, v \in Tokens : Observed(worker[u][v])
    BY DEF ObservedFits, Observed, Polls
<1>3. Observed(w)
    BY DEF Observed
<1>4. ASSUME NEW u \in Observers, NEW v \in Tokens
      PROVE  Observed(worker'[u][v])
  <2>1. CASE u = o /\ v = t
      BY Zenon, <1>1, <1>3, <2>1
  <2>2. CASE u # o \/ v # t
      BY Zenon, <1>1, <1>2, <2>2
  <2> QED BY <2>1, <2>2
<1> QED BY <1>4 DEF ObservedFits, Observed, Polls

(* A worker may mark its adapter as running, and the poller as not running. *)
Remarks(o) ==
    \/ flag' = flag
    \/ flag' = [flag EXCEPT ![o] = TRUE]
    \/ o = Main /\ flag' = [flag EXCEPT ![Main] = FALSE]

(* A worker that lives on leaves the claims about it alone.                *)
LEMMA WorkerLives ==
    ASSUME NEW h \in Handlers, Good(h), NEW o \in Observers, NEW t \in Tokens, NEW w \in Worker,
           Becomes(o, t, w), w.phase # "none", t \in Live(o), Steady, Remarks(o)
    PROVE  /\ WorkersFit(h)' /\ OffFits(h)' /\ \A u \in Observers : Live(u)' = Live(u)
           /\ (flag \in [Adapters -> BOOLEAN])'
<1>1. Typed /\ PlanFits(h) /\ WorkersFit(h) /\ OffFits(h)
    BY DEF Good, Fits
<1>2. \A u \in Observers : Live(u)' = Live(u)
  <2>1. /\ Live(o)' = IF w.phase = "none" THEN Live(o) \ {t} ELSE Live(o) \cup {t}
        /\ \A u \in Observers : u # o => Live(u)' = Live(u)
      BY ZenonT(40), <1>1, BecomesTyped
  <2>2. Live(o)' = Live(o)
      BY <2>1
  <2> QED BY <2>1, <2>2
<1>3. UNCHANGED <<handler, enabled, running, token, cancelled, task, server>>
    BY DEF Steady
<1>4. At(h)' = At(h)
    BY <1>3 DEF At
<1>5. /\ flag \in [Adapters -> BOOLEAN] /\ flag' \in [Adapters -> BOOLEAN]
      /\ \A a \in Adapters : flag'[a] = flag[a] \/ (a = o /\ flag'[a]) \/ (a = o /\ o = Main)
    BY <1>1 DEF Typed, OthersTyped, Remarks
<1>6. Main \in Observers /\ Companion \in Observers /\ Main \in Adapters /\ Companion \in Adapters
      /\ "hqplayer" \in Adapters /\ "hqplayer" \notin Observers
    BY DEF Observers, Adapters, Providers, Main, Companion
<1>7. WorkersFit(h)'
  <2>1. \A u \in Observers : (JoinOf(u))' = JoinOf(u) /\ (NoneAt(u))' = NoneAt(u)
      BY DEF JoinOf, NoneAt
  <2>2. ASSUME NEW u \in Observers
        PROVE  ~flag'[u] => Live(u) = {} \/ u = Main
    <3>1. u \in Adapters
        BY DEF Adapters
    <3> QED BY <1>1, <1>5, <3>1 DEF WorkersFit
  <2>3. flag'[Companion] => Live(Companion) # {} \/ At(h) \in {29, 30}
      BY <1>1, <1>5, <1>6 DEF WorkersFit, Main, Companion
  <2>4. /\ At(h) \in {25, 26} => flag'[Main]
        /\ At(h) \in {29, 30} => flag'[Companion]
    <3>1. o = Main => At(h) \notin {25, 26}
        BY <1>1, <1>6 DEF WorkersFit, NoneAt
    <3> QED BY <1>1, <1>5, <1>6, <3>1 DEF WorkersFit, Main, Companion
  <2> QED BY <1>1, <1>2, <1>3, <1>4, <1>6, <2>1, <2>2, <2>3, <2>4 DEF WorkersFit
<1>8. OffFits(h)'
  <2>1. flag'["hqplayer"] = flag["hqplayer"]
      BY <1>5, <1>6
  <2>2. ~enabled["lms"] /\ flag'[Main] => At(h) \in 11 .. 13
    <3>1. CASE flag'[Main] = flag[Main]
        BY <1>1, <3>1 DEF OffFits
    <3>2. CASE o = Main
      <4>1. ~enabled["lms"] => At(h) \in 11 .. 12
          BY <1>1, <3>2 DEF OffFits
      <4> QED BY <4>1
    <3> QED BY <1>5, <1>6, <3>1, <3>2
  <2> QED BY <1>1, <1>2, <1>3, <1>4, <1>6, <2>1, <2>2 DEF OffFits
<1> QED BY <1>2, <1>5, <1>7, <1>8

(* What is known of the zones depends on nothing else.                     *)
LEMMA ZonesStay ==
    ASSUME NEW h \in Handlers, Typed, ZonesFit(h), At(h)' = At(h), \A u \in Observers : Live(u)' = Live(u),
           UNCHANGED <<ingress, bus, listed, lost, orphaned, server, enabled>>
    PROVE  ZonesFit(h)'
<1>1. \A n : Flushed(h, n) <=> Flushed(h, n)'
    BY DEF Flushed
<1>2. \A s : Shows(h, s) <=> Shows(h, s)'
    BY DEF Shows, Serving
<1>3. \A i \in 1 .. Len(ingress) : ingress[i].by[1] \in Observers
    BY LaneTyped
<1> QED BY <1>1, <1>2, <1>3 DEF ZonesFit

(* A worker that only changes its own state.                               *)
LEMMA WorkerAlone ==
    ASSUME NEW h \in Handlers, Good(h), NEW o \in Observers, NEW t \in Tokens, NEW w \in Worker,
           Becomes(o, t, w), w.phase # "none", t \in Live(o), Polls(w),
           Remarks(o),
           known' \subseteq Servers,
           UNCHANGED <<disk, enabled, running, token, cancelled, task, server, handler, requests,
                       unsaved, ingress, bus, listed, lost, orphaned, lags>>
    PROVE  Good(h)'
<1>1. /\ Typed /\ ObservedFits /\ PlanFits(h) /\ AppliedFits(h) /\ ServerNamed(h)
      /\ TokensSuffice(h) /\ WorkersFit(h) /\ OffFits(h) /\ SavedFits(h) /\ ZonesFit(h)
    BY DEF Good, Fits
<1>2. Steady
    BY DEF Steady
<1>3. /\ PlanFits(h)' /\ AppliedFits(h)' /\ ServerNamed(h)' /\ TokensSuffice(h)' /\ SavedFits(h)'
      /\ At(h)' = At(h)
    BY <1>1, <1>2, SteadyKeeps
<1>4. /\ WorkersFit(h)' /\ OffFits(h)' /\ \A u \in Observers : Live(u)' = Live(u)
      /\ (flag \in [Adapters -> BOOLEAN])'
    BY <1>2, WorkerLives
<1>5. ObservedFits'
    BY <1>1, BecomesObserved
<1>6. ZonesFit(h)'
    BY <1>1, <1>3, <1>4, ZonesStay
<1>7. Typed'
  <2>1. OthersTyped'
      BY <1>1, <1>4, TypedParts DEF OthersTyped
  <2>2. (worker \in [Observers -> [Tokens -> Worker]])'
      BY <1>1, BecomesTyped
  <2>3. (handler \in [Handlers -> Request])'
      BY <1>1 DEF Typed
  <2> QED BY <2>1, <2>2, <2>3, TypedNext
<1> QED BY <1>3, <1>4, <1>5, <1>6, <1>7 DEF Good, Fits

(* What a worker's step leaves alone.                                      *)
LEMMA WorkerLeaves ==
    ASSUME WorkerStep
    PROVE  UNCHANGED <<disk, enabled, running, token, cancelled, task, server, handler, requests,
                       unsaved>>
BY DEF WorkerStep, coordinatorVars

(* A worker with something to do is alive.                                 *)
LEMMA Busy ==
    ASSUME Typed, ObservedFits, NEW o \in Observers, NEW t \in Tokens
    PROVE  /\ worker[o][t] \in Worker /\ Polls(worker[o][t])
           /\ worker[o][t].poll # NoServer \/ worker[o][t].out # <<>>
                 \/ worker[o][t].phase \in {"first", "connecting", "up"} => t \in Live(o)
           /\ t \in Live(o) => worker[o][t].phase # "none"
<1>1. worker[o][t] \in Worker
    BY DEF Typed
<1>2. Polls(worker[o][t])
    BY DEF ObservedFits, Polls
<1>3. worker[o][t].phase = "none" => worker[o][t].poll = NoServer /\ worker[o][t].out = <<>>
  <2>1. worker[o][t].phase = "none" => worker[o][t] = Absent
      BY DEF ObservedFits
  <2>2. Absent.poll = NoServer /\ Absent.out = <<>>
      BY DEF Absent
  <2> QED BY Zenon, <2>1, <2>2
<1> QED BY <1>1, <1>2, <1>3 DEF Live

(* A worker polls.                                                         *)
LEMMA PollStep ==
    ASSUME NEW h \in Handlers, Good(h), NEW o \in Observers, NEW t \in Tokens, Poll(o, t)
    PROVE  Good(h)'
<1>1. Typed /\ ObservedFits
    BY DEF Good
<1>2. /\ worker[o][t] \in Worker /\ Polls(worker[o][t]) /\ t \in Live(o)
      /\ worker[o][t].phase \in {"first", "up"} /\ worker[o][t].out = <<>>
    BY <1>1, Busy DEF Poll, Quiet
<1> DEFINE w == [worker[o][t] EXCEPT !.poll = server,
                                     !.phase = IF @ = "first" THEN "connecting" ELSE @]
<1>3. /\ w \in Worker /\ w.phase # "none" /\ w.poll = server /\ w.out = <<>>
  <2>1. server \in Servers \cup {NoServer}
      BY <1>1 DEF Typed, OthersTyped
  <2> QED BY <1>2, <2>1 DEF Worker
<1>4. Becomes(o, t, w)
  <2>1. worker \in [Observers -> [Tokens -> Worker]]
      BY <1>1 DEF Typed
  <2> QED BY <2>1 DEF Poll, Becomes, Worker
<1>5. UNCHANGED <<flag, known, ingress, bus, listed, lost, orphaned, lags>>
    BY DEF Poll, projectionVars
<1>6. UNCHANGED <<disk, enabled, running, token, cancelled, task, server, handler, requests,
                  unsaved>>
    BY WorkerLeaves DEF Poll
<1> HIDE DEF w
<1>7. Polls(w)
    BY <1>3 DEF Polls
<1>8. known' \subseteq Servers
    BY <1>1, <1>5 DEF Typed, OthersTyped
<1> QED BY <1>2, <1>3, <1>4, <1>5, <1>6, <1>7, <1>8, WorkerAlone DEF Remarks

(* A poll fails.                                                           *)
LEMMA PollFailsStep ==
    ASSUME NEW h \in Handlers, Good(h), NEW o \in Observers, NEW t \in Tokens, PollFails(o, t)
    PROVE  Good(h)'
<1>1. Typed /\ ObservedFits
    BY DEF Good
<1>2. /\ worker[o][t] \in Worker /\ Polls(worker[o][t]) /\ t \in Live(o)
      /\ worker[o][t].phase # "none"
    BY <1>1, Busy DEF PollFails
<1> DEFINE w == [worker[o][t] EXCEPT !.poll = NoServer,
                                     !.phase = IF @ = "connecting" THEN "first" ELSE @]
<1>3. w \in Worker /\ w.phase # "none" /\ w.poll = NoServer /\ w.out = worker[o][t].out
    BY <1>2 DEF Worker
<1>4. Becomes(o, t, w)
  <2>1. worker \in [Observers -> [Tokens -> Worker]]
      BY <1>1 DEF Typed
  <2> QED BY <2>1 DEF PollFails, Becomes, Worker
<1>5. UNCHANGED <<flag, known, ingress, bus, listed, lost, orphaned, lags>>
    BY DEF PollFails, projectionVars
<1>6. UNCHANGED <<disk, enabled, running, token, cancelled, task, server, handler, requests,
                  unsaved>>
    BY WorkerLeaves DEF PollFails
<1> HIDE DEF w
<1>7. Polls(w)
    BY <1>2, <1>3 DEF Polls
<1>8. known' \subseteq Servers
    BY <1>1, <1>5 DEF Typed, OthersTyped
<1> QED BY <1>2, <1>3, <1>4, <1>5, <1>6, <1>7, <1>8, WorkerAlone DEF Remarks

(* The poller's run fails.                                                 *)
LEMMA RunFailsStep ==
    ASSUME NEW h \in Handlers, Good(h), NEW t \in Tokens, RunFails(t)
    PROVE  Good(h)'
<1>1. Typed /\ ObservedFits /\ Main \in Observers
    BY DEF Good, Observers
<1>2. worker[Main][t] \in Worker /\ Polls(worker[Main][t]) /\ t \in Live(Main)
    BY <1>1, Busy DEF RunFails
<1> DEFINE w == [worker[Main][t] EXCEPT !.poll = NoServer, !.phase = "first"]
<1>3. w \in Worker /\ w.phase # "none" /\ w.poll = NoServer /\ w.out = worker[Main][t].out
    BY <1>2 DEF Worker
<1>4. Becomes(Main, t, w)
  <2>1. worker \in [Observers -> [Tokens -> Worker]]
      BY <1>1 DEF Typed
  <2> QED BY <1>1, <2>1 DEF RunFails, Becomes, Worker
<1>5. UNCHANGED <<known, ingress, bus, listed, lost, orphaned, lags>> /\ Remarks(Main)
    BY DEF RunFails, projectionVars, Remarks
<1>6. UNCHANGED <<disk, enabled, running, token, cancelled, task, server, handler, requests,
                  unsaved>>
    BY WorkerLeaves DEF RunFails
<1> HIDE DEF w
<1>7. Polls(w)
    BY <1>2, <1>3 DEF Polls
<1>8. known' \subseteq Servers
    BY <1>1, <1>5 DEF Typed, OthersTyped
<1> QED BY <1>1, <1>2, <1>3, <1>4, <1>5, <1>6, <1>7, <1>8, WorkerAlone

(* A worker has connected.                                                 *)
LEMMA ConnectedStep ==
    ASSUME NEW h \in Handlers, Good(h), NEW o \in Observers, NEW t \in Tokens, Connected(o, t)
    PROVE  Good(h)'
<1>1. Typed /\ ObservedFits
    BY DEF Good
<1>2. worker[o][t] \in Worker /\ Polls(worker[o][t]) /\ t \in Live(o)
    BY <1>1, Busy DEF Connected
<1> DEFINE w == [worker[o][t] EXCEPT !.phase = "up"]
<1>3. /\ w \in Worker /\ w.phase # "none"
      /\ w.poll = worker[o][t].poll /\ w.out = worker[o][t].out
    BY <1>2 DEF Worker
<1>4. Becomes(o, t, w)
  <2>1. worker \in [Observers -> [Tokens -> Worker]]
      BY <1>1 DEF Typed
  <2> QED BY <2>1 DEF Connected, Becomes, Worker
<1>5. /\ UNCHANGED <<known, ingress, bus, listed, lost, orphaned, lags>>
      /\ flag' = [flag EXCEPT ![o] = TRUE]
    BY DEF Connected, projectionVars
<1>6. UNCHANGED <<disk, enabled, running, token, cancelled, task, server, handler, requests,
                  unsaved>>
    BY WorkerLeaves DEF Connected
<1> HIDE DEF w
<1>7. Polls(w)
    BY <1>2, <1>3 DEF Polls
<1>8. known' \subseteq Servers
    BY <1>1, <1>5 DEF Typed, OthersTyped
<1> QED BY <1>2, <1>3, <1>4, <1>5, <1>6, <1>7, <1>8, WorkerAlone DEF Remarks

(* The zones that an answer removes are finitely many.                     *)
LEMMA Removals ==
    ASSUME NEW K \in SUBSET Servers, NEW G, G = {[type |-> "gone", server |-> k] : k \in K}
    PROVE  Cardinality(G) \in Nat /\ G \subseteq Update
<1>1. IsFiniteSet(Servers)
    BY FS_Interval, LifecycleAssumption DEF Servers
<1>2. IsFiniteSet(K)
    BY <1>1, FS_Subset
<1>3. IsFiniteSet(G)
  <2> DEFINE f == [k \in K |-> [type |-> "gone", server |-> k]]
  <2>1. f \in Surjection(K, G)
      BY DEF Surjection
  <2> QED BY <1>2, <2>1, FS_Surjection
<1>4. G \subseteq Update
    BY DEF Update
<1> QED BY <1>3, <1>4, FS_CardinalityType

(* A poll is answered.                                                     *)
LEMMA AnswerStep ==
    ASSUME NEW h \in Handlers, Good(h), NEW o \in Observers, NEW t \in Tokens, Answer(o, t)
    PROVE  Good(h)'
<1>1. Typed /\ ObservedFits
    BY DEF Good
<1>2. worker[o][t] \in Worker /\ Polls(worker[o][t]) /\ t \in Live(o) /\ worker[o][t].phase # "none"
    BY <1>1, Busy DEF Answer
<1> DEFINE s == worker[o][t].poll
<1> DEFINE gone == {[type |-> "gone", server |-> k] : k \in known \ {s}}
<1>3. s \in Servers /\ s = server
    BY <1>2 DEF Polls, Worker, Answer
<1>4. Cardinality(gone) \in Nat /\ gone \subseteq Update
  <2>1. known \ {s} \in SUBSET Servers
      BY <1>1 DEF Typed, OthersTyped
  <2> QED BY <2>1, Removals
<1>5. PICK rest \in [1 .. Cardinality(gone) -> gone] :
         worker' = [worker EXCEPT ![o][t].poll = NoServer,
                         ![o][t].out = <<[type |-> "zone", server |-> s]>> \o rest]
    BY Zenon DEF Answer
<1> DEFINE q == <<[type |-> "zone", server |-> s]>> \o rest
<1>6. /\ q \in Seq(Update)
      /\ \A i \in 1 .. Len(q) : q[i].type = "zone" => q[i].server = server
  <2> DEFINE n == Cardinality(gone)
  <2> DEFINE first == <<[type |-> "zone", server |-> s]>>
  <2>1. n \in Nat
      BY <1>4
  <2> HIDE DEF n
  <2>2. rest \in Seq(gone) /\ Len(rest) = n
    <3>1. rest \in [1 .. n -> gone]
        BY DEF n
    <3> QED BY <2>1, <3>1
  <2>3. rest \in Seq(Update) /\ \A i \in 1 .. Len(rest) : rest[i].type = "gone"
    <3>1. \A g \in gone : g.type = "gone" /\ g \in Update
        BY <1>4
    <3> HIDE DEF gone
    <3>2. \A i \in 1 .. Len(rest) : rest[i] \in gone
        BY <2>2, ElementOfSeq
    <3> QED BY <2>2, <3>2, <3>1
  <2>4. first \in Seq(Update) /\ Len(first) = 1 /\ first[1].server = server
      BY <1>3 DEF Update
  <2> HIDE DEF first, gone, s
  <2>5. /\ first \o rest \in Seq(Update) /\ Len(first \o rest) = 1 + Len(rest)
        /\ \A i \in 1 .. 1 + Len(rest) :
              (first \o rest)[i] = IF i <= 1 THEN first[i] ELSE rest[i - 1]
    <3>1. /\ first \o rest \in Seq(Update) /\ Len(first \o rest) = Len(first) + Len(rest)
          /\ \A i \in 1 .. Len(first) + Len(rest) :
                (first \o rest)[i] = IF i <= Len(first) THEN first[i] ELSE rest[i - Len(first)]
        BY Zenon, <2>3, <2>4, Joined
    <3>2. Len(first) = 1
        BY <2>4
    <3> QED BY Zenon, <3>1, <3>2
  <2>6. ASSUME NEW i \in 1 .. 1 + Len(rest), (first \o rest)[i].type = "zone"
        PROVE  (first \o rest)[i].server = server
    <3>1. i = 1 \/ (~(i <= 1) /\ i - 1 \in 1 .. Len(rest))
        BY <2>3
    <3>2. CASE i = 1
      <4>1. (first \o rest)[i] = first[1]
          BY <2>5, <3>2
      <4> QED BY <2>4, <4>1
    <3>3. CASE ~(i <= 1) /\ i - 1 \in 1 .. Len(rest)
      <4>1. (first \o rest)[i] = rest[i - 1]
          BY Zenon, <2>5, <3>3
      <4> QED BY <2>3, <2>6, <3>3, <4>1
    <3> QED BY <3>1, <3>2, <3>3
  <2> QED BY Zenon, <2>5, <2>6 DEF first
<1> DEFINE w == [worker[o][t] EXCEPT !.poll = NoServer, !.out = q]
<1>7. /\ known' = {s} /\ UNCHANGED <<flag, ingress, bus, listed, lost, orphaned, lags>>
    BY DEF Answer, projectionVars
<1>8. UNCHANGED <<disk, enabled, running, token, cancelled, task, server, handler, requests,
                  unsaved>>
    BY WorkerLeaves DEF Answer
<1>9. known' \subseteq Servers
    BY <1>3, <1>7
<1>10. worker' = [worker EXCEPT ![o][t].poll = NoServer, ![o][t].out = q]
    BY <1>5
<1> HIDE DEF q, gone, s
<1>11. /\ w \in Worker /\ w.phase # "none" /\ w.poll = NoServer /\ w.out = q
    BY <1>2, <1>6 DEF Worker
<1>12. Becomes(o, t, w)
  <2>1. worker \in [Observers -> [Tokens -> Worker]]
      BY <1>1 DEF Typed
  <2> QED BY <1>10, <2>1 DEF Becomes, Worker
<1> HIDE DEF w
<1>13. Polls(w)
    BY Zenon, <1>6, <1>11 DEF Polls
<1> QED BY <1>2, <1>7, <1>8, <1>9, <1>11, <1>12, <1>13, WorkerAlone DEF Remarks

(* A worker submits an update.                                             *)
LEMMA SubmitStep ==
    ASSUME NEW h \in Handlers, Good(h), NEW o \in Observers, NEW t \in Tokens, Submit(o, t)
    PROVE  Good(h)'
<1>1. /\ Typed /\ ObservedFits /\ PlanFits(h) /\ AppliedFits(h) /\ ServerNamed(h)
      /\ TokensSuffice(h) /\ WorkersFit(h) /\ OffFits(h) /\ SavedFits(h) /\ ZonesFit(h)
    BY DEF Good, Fits
<1>2. /\ worker[o][t] \in Worker /\ Polls(worker[o][t]) /\ t \in Live(o)
      /\ worker[o][t].phase # "none" /\ worker[o][t].out # <<>>
    BY <1>1, Busy DEF Submit
<1> DEFINE out == worker[o][t].out
<1>3. /\ out \in Seq(Update) /\ Tail(out) \in Seq(Update) /\ Head(out) \in Update
      /\ \A i \in 1 .. Len(Tail(out)) : i + 1 \in 1 .. Len(out) /\ Tail(out)[i] = out[i + 1]
      /\ Head(out) = out[1] /\ 1 \in 1 .. Len(out)
  <2>1. out \in Seq(Update) /\ out # <<>>
      BY <1>2 DEF Worker
  <2> HIDE DEF out
  <2> QED BY <2>1, HeadTailProperties, EmptySeq, ElementOfSeq
<1> DEFINE w == [worker[o][t] EXCEPT !.out = Tail(out)]
<1>4. w \in Worker /\ w.phase # "none" /\ w.poll = worker[o][t].poll /\ w.out = Tail(out)
    BY <1>2, <1>3 DEF Worker
<1>5. Becomes(o, t, w)
  <2>1. worker \in [Observers -> [Tokens -> Worker]]
      BY <1>1 DEF Typed
  <2> QED BY <2>1 DEF Submit, Becomes, Worker
<1> DEFINE e == [by |-> <<o, t>>, update |-> Head(out)]
<1>6. /\ ingress' = Append(ingress, e)
      /\ UNCHANGED <<flag, known, bus, listed, lost, orphaned, lags>>
    BY DEF Submit
<1>7. UNCHANGED <<disk, enabled, running, token, cancelled, task, server, handler, requests,
                  unsaved>>
    BY WorkerLeaves DEF Submit
<1>8. Head(out).type = "zone" => Head(out).server = server
    BY Zenon, <1>2, <1>3 DEF Polls
<1>9. Polls(w)
  <2>1. \A i \in 1 .. Len(out) : out[i].type = "zone" => out[i].server = server
      BY Zenon, <1>2 DEF Polls
  <2>2. w.poll \in {NoServer, server}
      BY Zenon, <1>2, <1>4 DEF Polls
  <2> HIDE DEF out, w
  <2>3. ASSUME NEW i \in 1 .. Len(Tail(out))
        PROVE  Tail(out)[i].type = "zone" => Tail(out)[i].server = server
      BY Zenon, <1>3, <2>1
  <2> QED BY Zenon, <1>4, <2>2, <2>3 DEF Polls
<1> HIDE DEF w
<1>10. Steady
    BY <1>7 DEF Steady
<1>11. /\ PlanFits(h)' /\ AppliedFits(h)' /\ ServerNamed(h)' /\ TokensSuffice(h)' /\ SavedFits(h)'
       /\ At(h)' = At(h)
    BY <1>1, <1>10, SteadyKeeps
<1>12. WorkersFit(h)' /\ OffFits(h)' /\ \A u \in Observers : Live(u)' = Live(u)
    BY <1>2, <1>4, <1>5, <1>6, <1>10, WorkerLives DEF Remarks
<1>13. ObservedFits'
    BY <1>1, <1>4, <1>5, <1>7, <1>9, BecomesObserved
<1>14. e \in [by : Observers \X Tokens, update : Update] /\ e.by[1] = o /\ e.by[2] = t
       /\ e.update = Head(out)
    BY <1>3
<1> HIDE DEF e, out
<1>15. /\ ingress \in Seq([by : Observers \X Tokens, update : Update])
       /\ ingress' \in Seq([by : Observers \X Tokens, update : Update])
       /\ Len(ingress') = Len(ingress) + 1 /\ Len(ingress) \in Nat
       /\ \A i \in 1 .. Len(ingress) : ingress'[i] = ingress[i]
       /\ ingress'[Len(ingress) + 1] = e
  <2>1. ingress \in Seq([by : Observers \X Tokens, update : Update])
      BY <1>1 DEF Typed, OthersTyped
  <2> QED BY <1>6, <1>14, <2>1, AppendProperties, LenProperties
<1>16. Typed'
  <2>1. OthersTyped'
      BY <1>1, <1>6, <1>7, <1>15, TypedParts DEF OthersTyped
  <2>2. (worker \in [Observers -> [Tokens -> Worker]])'
      BY <1>1, <1>4, <1>5, BecomesTyped
  <2>3. (handler \in [Handlers -> Request])'
      BY <1>1, <1>7 DEF Typed
  <2> QED BY <2>1, <2>2, <2>3, TypedNext
<1>17. ZonesFit(h)'
  <2>1. /\ \A n : Flushed(h, n) <=> Flushed(h, n)'
        /\ \A s : Shows(h, s) <=> Shows(h, s)'
      BY <1>6, <1>7, <1>11 DEF Flushed, Shows, Serving
  <2>2. \A i \in 1 .. Len(ingress) : ingress[i].by[1] \in Observers
      BY <1>1, LaneTyped
  <2>3. CASE lost \/ orphaned
      BY <1>6, <2>3 DEF ZonesFit
  <2>4. CASE ~lost /\ ~orphaned
    <3>1. ASSUME NEW i \in 1 .. Len(ingress')
          PROVE  /\ ingress'[i].by[2] \in Live(ingress'[i].by[1])
                 /\ ingress'[i].by[1] \in Observers
                 /\ ingress'[i].update.type = "zone" => ingress'[i].update.server = server
      <4>1. CASE i \in 1 .. Len(ingress)
        <5>1. ingress'[i] = ingress[i]
            BY <1>15, <4>1
        <5>2. /\ ingress[i].by[2] \in Live(ingress[i].by[1]) /\ ingress[i].by[1] \in Observers
              /\ ingress[i].update.type = "zone" => ingress[i].update.server = server
            BY <1>1, <2>2, <2>4, <4>1 DEF ZonesFit
        <5> QED BY Zenon, <5>1, <5>2
      <4>2. CASE i = Len(ingress) + 1
        <5>1. ingress'[i] = e
            BY <1>15, <4>2
        <5> QED BY Zenon, <1>2, <1>8, <1>14, <5>1
      <4> QED BY <1>15, <4>1, <4>2
    <3>2. ASSUME NEW i \in 1 .. Len(ingress')
          PROVE  (ingress[i].by[2] \in Live(ingress[i].by[1]))'
      <4>1. PICK u : u = ingress'[i].by[1]
          OBVIOUS
      <4>2. Live(u)' = Live(u)
          BY <1>12, <3>1, <4>1
      <4>3. ingress'[i].by[2] \in Live(u)'
          BY <3>1, <4>1, <4>2
      <4> QED BY <4>1, <4>3 DEF Live
    <3>3. /\ \A s \in listed : Shows(h, s) \/ Flushed(h, 1)
          /\ \A k \in 1 .. Len(bus) : bus[k].type = "zone" => Shows(h, bus[k].server) \/ Flushed(h, k)
        BY <1>1, <2>4 DEF ZonesFit
    <3> QED BY <1>6, <1>7, <2>1, <3>1, <3>2, <3>3 DEF ZonesFit
  <2> QED BY <2>3, <2>4
<1> QED BY <1>11, <1>12, <1>13, <1>16, <1>17 DEF Good, Fits

(* A worker ends, cancelled or lagging behind.                             *)
LEMMA EndedStep ==
    ASSUME NEW h \in Handlers, Good(h), NEW o \in Observers, NEW t \in Tokens, t \in Live(o),
           Ended(o, t), lost' = lost \/ lost' = TRUE, lags' \in 0 .. MaxLags
    PROVE  Good(h)'
<1>1. /\ Typed /\ ObservedFits /\ PlanFits(h) /\ AppliedFits(h) /\ ServerNamed(h)
      /\ TokensSuffice(h) /\ WorkersFit(h) /\ OffFits(h) /\ SavedFits(h) /\ ZonesFit(h)
    BY DEF Good, Fits
<1>2. /\ UNCHANGED <<disk, enabled, running, token, cancelled, task, server, handler, requests,
                     unsaved, known, ingress, bus, listed>>
      /\ flag' = [flag EXCEPT ![o] = @ /\ o # Companion]
      /\ orphaned' = (orphaned \/ \E i \in DOMAIN ingress : ingress[i].by = <<o, t>>)
    BY WorkerLeaves DEF Ended, projectionVars
<1>3. Absent \in Worker /\ Absent.phase = "none" /\ Polls(Absent)
    BY DEF Absent, Worker, Polls
<1>4. Becomes(o, t, Absent)
  <2>1. worker \in [Observers -> [Tokens -> Worker]]
      BY <1>1 DEF Typed
  <2> QED BY <2>1 DEF Ended, Becomes
<1>5. /\ (worker \in [Observers -> [Tokens -> Worker]])'
      /\ Live(o)' = Live(o) \ {t} /\ \A u \in Observers : u # o => Live(u)' = Live(u)
    BY <1>1, <1>3, <1>4, BecomesTyped
<1>6. Live(o)' = {} /\ token[o] = t
    BY <1>1, <1>5 DEF WorkersFit
<1>7. ObservedFits'
    BY <1>1, <1>2, <1>3, <1>4, BecomesObserved
<1>8. Steady
    BY <1>2 DEF Steady
<1>9. /\ PlanFits(h)' /\ AppliedFits(h)' /\ ServerNamed(h)' /\ TokensSuffice(h)' /\ SavedFits(h)'
      /\ At(h)' = At(h)
    BY <1>1, <1>8, SteadyKeeps
<1>10. /\ flag \in [Adapters -> BOOLEAN] /\ flag' \in [Adapters -> BOOLEAN]
       /\ \A a \in Adapters : flag'[a] => flag[a]
       /\ \A a \in Adapters : a # o \/ o # Companion => flag'[a] = flag[a]
       /\ o = Companion => ~flag'[Companion]
  <2>1. flag \in [Adapters -> BOOLEAN] /\ o \in Adapters /\ Companion \in Adapters
      BY <1>1 DEF Typed, OthersTyped, Adapters, Observers
  <2>2. flag'[o] <=> flag[o] /\ o # Companion
      BY Zenon, <1>2, <2>1
  <2>3. \A a \in Adapters : a # o => flag'[a] = flag[a]
      BY Zenon, <1>2, <2>1
  <2>4. flag' \in [Adapters -> BOOLEAN]
      BY <1>2, <2>1
  <2>5. o # Companion => flag'[o] = flag[o]
      BY <1>2, <2>1, <2>2, <2>4
  <2> QED BY <2>1, <2>2, <2>3, <2>4, <2>5
<1>11. /\ Main \in Observers /\ Companion \in Observers /\ Main # Companion
       /\ Main \in Adapters /\ Companion \in Adapters
       /\ "hqplayer" \in Adapters /\ "hqplayer" \notin Observers
    BY DEF Observers, Adapters, Providers, Main, Companion
<1>12. \A u \in Observers : Live(u)' = IF u = o THEN {} ELSE Live(u)
    BY <1>5, <1>6
<1>13. WorkersFit(h)'
  <2>1. \A u \in Observers : (JoinOf(u))' = JoinOf(u) /\ (NoneAt(u))' = NoneAt(u)
      BY DEF JoinOf, NoneAt
  <2>2. ASSUME NEW u \in Observers
        PROVE  ~flag'[u] => Live(u)' = {} \/ u = Main
    <3>1. u \in Adapters
        BY DEF Adapters
    <3>2. CASE u = o
        BY <1>6, <3>2
    <3>3. CASE u # o
      <4>1. flag'[u] = flag[u] /\ Live(u)' = Live(u)
          BY <1>10, <1>12, <3>1, <3>3
      <4> QED BY <1>1, <4>1 DEF WorkersFit
    <3> QED BY <3>2, <3>3
  <2>3. flag'[Companion] => Live(Companion)' # {} \/ At(h) \in {29, 30}
    <3>1. flag'[Companion] => o # Companion /\ flag[Companion]
        BY <1>10, <1>11
    <3>2. o # Companion => Live(Companion)' = Live(Companion)
        BY <1>11, <1>12
    <3> QED BY <1>1, <3>1, <3>2 DEF WorkersFit
  <2>4. At(h) \in {25, 26} => flag'[Main]
      BY <1>1, <1>10, <1>11 DEF WorkersFit
  <2>5. At(h) \in {29, 30} => flag'[Companion]
    <3>1. At(h) \in {29, 30} => Live(Companion) = {}
        BY <1>1, <1>11 DEF WorkersFit, NoneAt
    <3>2. At(h) \in {29, 30} => o # Companion
        BY <3>1
    <3> QED BY <1>1, <1>10, <1>11, <3>2 DEF WorkersFit
  <2>6. ASSUME NEW u \in Observers
        PROVE  /\ Live(u)' \subseteq {token[u]}
               /\ Live(u)' # {} => IF At(h) = JoinOf(u) THEN handler[h].join = token[u]
                                                        ELSE task[u] = token[u]
               /\ At(h) \in NoneAt(u) => Live(u)' = {}
    <3>1. Live(u)' = {} \/ Live(u)' = Live(u)
        BY <1>12
    <3> QED BY <1>1, <3>1 DEF WorkersFit
  <2>7. /\ At(h) = 26 => handler[h].token = token[Main] /\ handler[h].token # NoToken
        /\ At(h) = 30 => handler[h].token = token[Companion] /\ handler[h].token # NoToken
      BY <1>1 DEF WorkersFit
  <2> QED BY <1>2, <1>9, <2>1, <2>2, <2>3, <2>4, <2>5, <2>6, <2>7 DEF WorkersFit
<1>14. OffFits(h)'
  <2>1. flag'["hqplayer"] => flag["hqplayer"]
      BY <1>10, <1>11
  <2>2. flag'[Main] => flag[Main]
      BY <1>10, <1>11
  <2>3. /\ Live(Main)' # {} => Live(Main) # {}
        /\ Live(Companion)' # {} => Live(Companion) # {}
      BY <1>11, <1>12
  <2> QED BY <1>1, <1>2, <1>9, <2>1, <2>2, <2>3 DEF OffFits
<1>15. Typed'
  <2>1. lost' \in BOOLEAN /\ orphaned' \in BOOLEAN
      BY <1>1, <1>2 DEF Typed, OthersTyped
  <2>2. OthersTyped'
      BY <1>1, <1>2, <1>10, <2>1, TypedParts DEF OthersTyped
  <2>3. (handler \in [Handlers -> Request])'
      BY <1>1, <1>2 DEF Typed
  <2> QED BY <1>5, <2>2, <2>3, TypedNext
<1>16. ZonesFit(h)'
  <2>1. /\ \A n : Flushed(h, n) <=> Flushed(h, n)'
        /\ \A s : Shows(h, s) <=> Shows(h, s)'
      BY <1>2, <1>9 DEF Flushed, Shows, Serving
  <2>2. CASE lost' \/ orphaned'
      BY <2>2 DEF ZonesFit
  <2>3. CASE ~lost' /\ ~orphaned'
    <3>1. ~lost /\ ~orphaned /\ \A i \in DOMAIN ingress : ingress[i].by # <<o, t>>
      <4>1. ~lost
          BY <1>1, <2>3 DEF Typed, OthersTyped
      <4>2. ~orphaned /\ ~\E i \in DOMAIN ingress : ingress[i].by = <<o, t>>
          BY Zenon, <1>2, <2>3
      <4> QED BY Zenon, <4>1, <4>2
    <3>2. ASSUME NEW i \in 1 .. Len(ingress)
          PROVE  /\ (ingress[i].by[2] \in Live(ingress[i].by[1]))'
                 /\ ingress[i].update.type = "zone" => ingress[i].update.server = server
      <4>1. /\ ingress[i].by[2] \in Live(ingress[i].by[1]) /\ ingress[i].by[1] \in Observers
            /\ ingress[i].update.type = "zone" => ingress[i].update.server = server
          BY <1>1, <3>1, LaneTyped DEF ZonesFit
      <4>2. ingress[i].by[1] # o
        <5>1. ingress \in Seq([by : Observers \X Tokens, update : Update])
            BY <1>1 DEF Typed, OthersTyped
        <5>2. ingress[i].by \in Observers \X Tokens /\ ingress[i].by # <<o, t>>
          <6>1. i \in DOMAIN ingress /\ ingress[i] \in [by : Observers \X Tokens, update : Update]
            <7>1. ingress[i] \in [by : Observers \X Tokens, update : Update]
                BY Zenon, <5>1, ElementOfSeq
            <7>2. DOMAIN ingress = 1 .. Len(ingress)
                BY <5>1
            <7> QED BY Zenon, <7>1, <7>2
          <6> QED BY <3>1, <6>1
        <5>3. ingress[i].by[1] = o => ingress[i].by[2] = t
            BY <1>1, <4>1, <1>6 DEF WorkersFit
        <5> QED BY <5>2, <5>3
      <4>3. PICK u : u = ingress[i].by[1]
          OBVIOUS
      <4>4. Live(u)' = Live(u)
          BY <1>12, <4>1, <4>2, <4>3
      <4> QED BY <1>2, <4>1, <4>3, <4>4 DEF Live
    <3>3. /\ \A s \in listed : Shows(h, s) \/ Flushed(h, 1)
          /\ \A k \in 1 .. Len(bus) : bus[k].type = "zone" => Shows(h, bus[k].server) \/ Flushed(h, k)
        BY <1>1, <3>1 DEF ZonesFit
    <3> QED BY <1>2, <2>1, <3>2, <3>3 DEF ZonesFit
  <2> QED BY <2>2, <2>3
<1> QED BY <1>7, <1>9, <1>13, <1>14, <1>15, <1>16 DEF Good, Fits

(* A step of the projection disturbs no claim but the one about zones.     *)
ProjectionStep ==
    /\ UNCHANGED <<disk, enabled, running, flag, token, cancelled, task, server, known, worker,
                   handler, requests, orphaned, unsaved, lags>>
    /\ (ingress \in Seq([by : Observers \X Tokens, update : Update]))'
    /\ (bus \in Seq(Hint) /\ Len(bus) <= BusCapacity)'
    /\ (listed \subseteq Servers)' /\ lost' \in BOOLEAN

(* A step of the projection disturbs nothing but the zones.                *)
LEMMA ProjectionKeeps ==
    ASSUME NEW h \in Handlers, Good(h), ProjectionStep
    PROVE  /\ At(h)' = At(h) /\ \A o : Live(o)' = Live(o)
           /\ ZonesFit(h)' => Good(h)'
<1>1. /\ Typed /\ ObservedFits /\ PlanFits(h) /\ AppliedFits(h) /\ ServerNamed(h)
      /\ TokensSuffice(h) /\ WorkersFit(h) /\ OffFits(h) /\ SavedFits(h)
    BY DEF Good, Fits
<1>2. UNCHANGED <<disk, enabled, running, flag, token, cancelled, task, server, known, worker,
                  handler, requests, orphaned, unsaved, lags>>
    BY DEF ProjectionStep
<1>3. Steady
    BY <1>2 DEF Steady
<1>4. /\ PlanFits(h)' /\ AppliedFits(h)' /\ ServerNamed(h)' /\ TokensSuffice(h)' /\ SavedFits(h)'
      /\ At(h)' = At(h)
    BY <1>1, <1>3, SteadyKeeps
<1>5. \A o : Live(o)' = Live(o)
    BY <1>2 DEF Live
<1>6. WorkersFit(h)'
  <2>1. \A o \in Observers : (JoinOf(o))' = JoinOf(o) /\ (NoneAt(o))' = NoneAt(o)
      BY DEF JoinOf, NoneAt
  <2> QED BY <1>1, <1>2, <1>4, <1>5, <2>1 DEF WorkersFit
<1>7. OffFits(h)'
    BY <1>1, <1>2, <1>4, <1>5 DEF OffFits
<1>8. Typed'
  <2>1. OthersTyped'
    <3>1. OthersTyped
        BY <1>1, TypedParts
    <3>2. orphaned' \in BOOLEAN
        BY <1>2, <3>1 DEF OthersTyped
    <3> QED BY <1>2, <3>1, <3>2 DEF OthersTyped, ProjectionStep, Hint
  <2> QED BY <1>1, <1>2, <2>1, TypedNext DEF Typed
<1> QED BY <1>1, <1>2, <1>4, <1>5, <1>6, <1>7, <1>8, ObservedStays DEF Good, Fits

(* While an observer lives its zones are due, or a flush is to come.       *)
LEMMA LiveServes ==
    ASSUME NEW h \in Handlers, WorkersFit(h), OffFits(h), NEW o \in Observers, Live(o) # {}
    PROVE  Serving(h) \/ At(h) \in 11 .. 17
<1>1. At(h) \notin 18 .. 21
    BY DEF WorkersFit, NoneAt
<1>2. ~enabled["lms"] => At(h) \in 11 .. 15
    BY DEF OffFits, Observers
<1>3. At(h) \in 11 .. 15 => At(h) \in 11 .. 17
    OBVIOUS
<1> QED BY <1>1, <1>2, <1>3 DEF Serving

(* The projection commits an update.                                       *)
LEMMA CommitStep ==
    ASSUME NEW h \in Handlers, Good(h), Commit
    PROVE  Good(h)'
<1>1. Typed /\ WorkersFit(h) /\ OffFits(h) /\ ZonesFit(h)
    BY DEF Good, Fits
<1> DEFINE u == Head(ingress).update
<1> DEFINE Entry == [by : Observers \X Tokens, update : Update]
<1>2. /\ ingress # <<>> /\ ingress' = Tail(ingress) /\ listed' = Listing(listed, u)
      /\ UNCHANGED <<bus, lost>> \/ Publish(u)
    BY DEF Commit
<1>3. UNCHANGED <<disk, enabled, running, flag, token, cancelled, task, server, known, worker,
                  handler, requests, orphaned, unsaved, lags>>
    BY DEF Commit, coordinatorVars, adapterVars
<1>4. /\ ingress \in Seq(Entry) /\ ingress' \in Seq(Entry)
      /\ \A i \in 1 .. Len(ingress') : i + 1 \in 1 .. Len(ingress) /\ ingress'[i] = ingress[i + 1]
      /\ 1 \in 1 .. Len(ingress) /\ u = ingress[1].update
  <2>1. ingress \in Seq(Entry)
      BY <1>1 DEF Typed, OthersTyped
  <2> HIDE DEF Entry
  <2> QED BY <1>2, <2>1, HeadTailProperties, EmptySeq
<1>5. u \in Update /\ u \in Hint
    BY <1>1, <1>4, LaneTyped DEF Hint
<1>6. /\ bus \in Seq(Hint) /\ Len(bus) \in Nat /\ Len(bus) <= BusCapacity /\ lost \in BOOLEAN
      /\ listed \subseteq Servers
    BY <1>1, TypedParts DEF OthersTyped, Hint
<1> HIDE DEF u, Entry
<1>7. /\ bus' \in Seq(Hint) /\ Len(bus') <= BusCapacity /\ lost' \in BOOLEAN
      /\ ~lost' =>
            /\ ~lost /\ \A k \in 1 .. Len(bus) : bus'[k] = bus[k]
            /\ \/ Len(bus') = Len(bus)
               \/ Len(bus') = Len(bus) + 1 /\ bus'[Len(bus) + 1] = u
  <2>1. CASE UNCHANGED <<bus, lost>>
      BY <1>6, <2>1
  <2>2. CASE Publish(u)
    <3>1. /\ bus' \in Seq(Hint) /\ Len(bus') <= BusCapacity /\ lost' \in BOOLEAN
          /\ ~lost' => /\ ~lost /\ Len(bus') = Len(bus) + 1
                       /\ \A k \in 1 .. Len(bus) : bus'[k] = bus[k]
                       /\ bus'[Len(bus) + 1] = u
        BY Zenon, <1>5, <1>6, <2>2, Publishes
    <3> QED BY Zenon, <3>1
  <2> QED BY <1>2, <2>1, <2>2
<1>8. /\ u.type = "zone" \/ u.type = "gone"
      /\ u.server \in Servers
      /\ \A s \in listed' : s \in listed \/ (u.type = "zone" /\ s = u.server)
      /\ listed' \subseteq Servers
  <2>1. u.type \in {"zone", "gone"} /\ u.server \in Servers
      BY <1>5 DEF Update
  <2> QED BY <1>2, <1>6, <2>1 DEF Listing
<1>9. ProjectionStep
    BY <1>3, <1>4, <1>7, <1>8 DEF ProjectionStep, Entry
<1>10. /\ At(h)' = At(h) /\ \A o : Live(o)' = Live(o)
       /\ ZonesFit(h)' => Good(h)'
    BY <1>9, ProjectionKeeps
<1>11. ZonesFit(h)'
  <2>1. CASE lost' \/ orphaned'
      BY <2>1 DEF ZonesFit
  <2>2. CASE ~lost' /\ ~orphaned'
    <3>1. /\ ~lost /\ ~orphaned /\ \A k \in 1 .. Len(bus) : bus'[k] = bus[k]
          /\ \/ Len(bus') = Len(bus)
             \/ Len(bus') = Len(bus) + 1 /\ bus'[Len(bus) + 1] = u
        BY <1>3, <1>7, <2>2
    <3>2. /\ \A i \in 1 .. Len(ingress) :
                /\ ingress[i].by[2] \in Live(ingress[i].by[1]) /\ ingress[i].by[1] \in Observers
                /\ ingress[i].update.type = "zone" => ingress[i].update.server = server
          /\ \A s \in listed : Shows(h, s) \/ Flushed(h, 1)
          /\ \A k \in 1 .. Len(bus) : bus[k].type = "zone" => Shows(h, bus[k].server) \/ Flushed(h, k)
        BY <1>1, <3>1, LaneTyped DEF ZonesFit
    <3>3. \A s : Shows(h, s) => Shows(h, s)'
        BY <1>3, <1>10 DEF Shows, Serving
    <3>4. ASSUME NEW n \in Nat \ {0}, Flushed(h, n)
          PROVE  Flushed(h, n)'
      <4>1. CASE At(h) \in 11 .. 17
          BY <1>10, <4>1 DEF Flushed
      <4>2. CASE At(h) \notin 11 .. 17
        <5>1. PICK k \in n .. Len(bus) : bus[k].type = "stopping"
            BY <3>4, <4>2 DEF Flushed
        <5>2. k \in n .. Len(bus') /\ k \in 1 .. Len(bus)
            BY <1>6, <3>1, <5>1
        <5>3. bus'[k].type = "stopping"
            BY <3>1, <5>1, <5>2
        <5> QED BY <5>2, <5>3 DEF Flushed
      <4> QED BY <4>1, <4>2
    <3>5. u.type = "zone" => Shows(h, u.server) \/ At(h) \in 11 .. 17
      <4>1. /\ ingress[1].by[2] \in Live(ingress[1].by[1]) /\ ingress[1].by[1] \in Observers
            /\ u.type = "zone" => u.server = server
          BY <1>4, <3>2
      <4>2. Serving(h) \/ At(h) \in 11 .. 17
        <5>1. PICK o \in Observers : o = ingress[1].by[1] /\ Live(o) # {}
            BY <4>1
        <5> QED BY <1>1, <5>1, LiveServes
      <4> QED BY <4>1, <4>2 DEF Shows
    <3>6. ASSUME NEW i \in 1 .. Len(ingress')
          PROVE  (/\ ingress[i].by[2] \in Live(ingress[i].by[1])
                  /\ ingress[i].update.type = "zone" => ingress[i].update.server = server)'
      <4>1. i + 1 \in 1 .. Len(ingress) /\ ingress'[i] = ingress[i + 1]
          BY <1>4
      <4>2. /\ ingress'[i].by[2] \in Live(ingress'[i].by[1])
            /\ ingress'[i].update.type = "zone" => ingress'[i].update.server = server
          BY <3>2, <4>1
      <4>3. PICK o : o = ingress'[i].by[1]
          OBVIOUS
      <4>4. ingress'[i].by[2] \in Live(o)'
          BY <1>10, <4>2, <4>3
      <4> QED BY <1>3, <4>2, <4>3, <4>4 DEF Live
    <3>7. ASSUME NEW s \in listed'
          PROVE  Shows(h, s)' \/ Flushed(h, 1)'
      <4>1. CASE s \in listed
          BY <3>2, <3>3, <3>4, <4>1
      <4>2. CASE u.type = "zone" /\ s = u.server
        <5>1. Shows(h, s) \/ At(h) \in 11 .. 17
            BY <3>5, <4>2
        <5> QED BY <1>10, <3>3, <5>1 DEF Flushed
      <4> QED BY <1>8, <4>1, <4>2
    <3>8. ASSUME NEW k \in 1 .. Len(bus'), bus'[k].type = "zone"
          PROVE  (Shows(h, bus[k].server) \/ Flushed(h, k))'
      <4>1. PICK s : s = bus'[k].server
          OBVIOUS
      <4>2. CASE k \in 1 .. Len(bus)
        <5>1. Shows(h, s) \/ Flushed(h, k)
            BY <3>1, <3>2, <3>8, <4>1, <4>2
        <5>2. Shows(h, s)' \/ Flushed(h, k)'
            BY <3>3, <3>4, <5>1
        <5> QED BY <4>1, <5>2 DEF Shows
      <4>3. CASE Len(bus') = Len(bus) + 1 /\ k = Len(bus) + 1
        <5>1. bus'[k] = u
            BY <3>1, <4>3
        <5>2. Shows(h, s) \/ At(h) \in 11 .. 17
            BY <3>5, <3>8, <4>1, <5>1
        <5>3. Shows(h, s)' \/ Flushed(h, k)'
            BY <1>10, <3>3, <5>2 DEF Flushed
        <5> QED BY <4>1, <5>3 DEF Shows
      <4> QED BY <1>6, <3>1, <4>2, <4>3
    <3> QED BY <3>6, <3>7, <3>8 DEF ZonesFit
  <2> QED BY <2>1, <2>2
<1> QED BY <1>10, <1>11

(* The aggregator takes a hint from the bus.                               *)
LEMMA DeliverStep ==
    ASSUME NEW h \in Handlers, Good(h), Deliver
    PROVE  Good(h)'
<1>1. Typed /\ ZonesFit(h)
    BY DEF Good, Fits
<1> DEFINE e == Head(bus)
<1>2. bus # <<>> /\ bus' = Tail(bus) /\ listed' = Listing(listed, e)
    BY DEF Deliver
<1>3. UNCHANGED <<disk, enabled, running, flag, token, cancelled, task, server, known, worker,
                  handler, requests, orphaned, unsaved, lags, ingress, lost>>
    BY DEF Deliver, coordinatorVars, adapterVars, historyVars
<1>4. /\ bus \in Seq(Hint) /\ Len(bus) \in Nat /\ Len(bus) <= BusCapacity /\ lost \in BOOLEAN
      /\ listed \subseteq Servers /\ ingress \in Seq([by : Observers \X Tokens, update : Update])
    BY <1>1, TypedParts DEF OthersTyped, Hint
<1>5. /\ bus' \in Seq(Hint) /\ Len(bus') = Len(bus) - 1 /\ e = bus[1] /\ e \in Hint
      /\ 1 \in 1 .. Len(bus)
      /\ \A i \in 1 .. Len(bus') : i + 1 \in 1 .. Len(bus) /\ bus'[i] = bus[i + 1]
    BY <1>2, <1>4, HeadTailProperties, EmptySeq
<1> HIDE DEF e
<1>6. Len(bus') <= BusCapacity
    BY <1>4, <1>5, LifecycleAssumption
<1>7. /\ e.type \in {"zone", "gone", "stopping"}
      /\ e.type \in {"zone", "gone"} => e.server \in Servers
    BY <1>5 DEF Hint, Update
<1>8. /\ \A s \in listed' : s \in listed \/ (e.type = "zone" /\ s = e.server)
      /\ e.type = "stopping" => listed' = {}
      /\ listed' \subseteq Servers
    BY <1>2, <1>4, <1>7 DEF Listing
<1>9. ProjectionStep
    BY <1>3, <1>4, <1>5, <1>6, <1>8 DEF ProjectionStep
<1>10. /\ At(h)' = At(h) /\ \A o : Live(o)' = Live(o)
       /\ ZonesFit(h)' => Good(h)'
    BY <1>9, ProjectionKeeps
<1>11. ZonesFit(h)'
  <2>1. CASE lost \/ orphaned
      BY <1>3, <2>1 DEF ZonesFit
  <2>2. CASE ~lost /\ ~orphaned
    <3>1. /\ \A i \in 1 .. Len(ingress) :
                /\ ingress[i].by[2] \in Live(ingress[i].by[1])
                /\ ingress[i].update.type = "zone" => ingress[i].update.server = server
          /\ \A s \in listed : Shows(h, s) \/ Flushed(h, 1)
          /\ \A k \in 1 .. Len(bus) : bus[k].type = "zone" => Shows(h, bus[k].server) \/ Flushed(h, k)
        BY <1>1, <2>2 DEF ZonesFit
    <3>2. \A s : Shows(h, s) => Shows(h, s)'
        BY <1>3, <1>10 DEF Shows, Serving
    <3>3. ASSUME NEW n \in 1 .. Len(bus), Flushed(h, n), n = 1 => e.type # "stopping"
          PROVE  Flushed(h, IF n = 1 THEN 1 ELSE n - 1)'
      <4>1. CASE At(h) \in 11 .. 17
          BY <1>10, <4>1 DEF Flushed
      <4>2. CASE At(h) \notin 11 .. 17
        <5>1. PICK k \in n .. Len(bus) : bus[k].type = "stopping"
            BY <3>3, <4>2 DEF Flushed
        <5>2. k # 1
            BY <1>5, <3>3, <5>1
        <5>3. /\ k - 1 \in (IF n = 1 THEN 1 ELSE n - 1) .. Len(bus')
              /\ k - 1 \in 1 .. Len(bus') /\ (k - 1) + 1 = k
            BY <1>4, <1>5, <5>1, <5>2
        <5>4. bus'[k - 1].type = "stopping"
            BY <1>5, <5>1, <5>3
        <5> QED BY <5>3, <5>4 DEF Flushed
      <4> QED BY <4>1, <4>2
    <3>4. ASSUME NEW s \in listed'
          PROVE  Shows(h, s)' \/ Flushed(h, 1)'
      <4>1. e.type # "stopping"
          BY <1>8
      <4>2. Shows(h, s) \/ Flushed(h, 1)
          BY <1>5, <1>8, <3>1
      <4>3. Flushed(h, 1) => Flushed(h, 1)'
          BY <1>5, <3>3, <4>1
      <4> QED BY <3>2, <4>2, <4>3
    <3>5. ASSUME NEW k \in 1 .. Len(bus'), bus'[k].type = "zone"
          PROVE  (Shows(h, bus[k].server) \/ Flushed(h, k))'
      <4>1. PICK s : s = bus'[k].server
          OBVIOUS
      <4>2. k + 1 \in 1 .. Len(bus) /\ bus'[k] = bus[k + 1] /\ k + 1 # 1 /\ (k + 1) - 1 = k
          BY <1>5
      <4>3. Shows(h, s) \/ Flushed(h, k + 1)
          BY <3>1, <3>5, <4>1, <4>2
      <4>4. Flushed(h, k + 1) => Flushed(h, k)'
        <5>1. Flushed(h, k + 1) => Flushed(h, IF k + 1 = 1 THEN 1 ELSE (k + 1) - 1)'
            BY Zenon, <3>3, <4>2
        <5>2. (IF k + 1 = 1 THEN 1 ELSE (k + 1) - 1) = k
            BY <4>2
        <5> QED BY <5>1, <5>2
      <4>5. Shows(h, s)' \/ Flushed(h, k)'
          BY <3>2, <4>3, <4>4
      <4> QED BY <4>1, <4>5 DEF Shows
    <3>6. ASSUME NEW i \in 1 .. Len(ingress)
          PROVE  (/\ ingress[i].by[2] \in Live(ingress[i].by[1])
                  /\ ingress[i].update.type = "zone" => ingress[i].update.server = server)'
      <4>1. PICK o : o = ingress[i].by[1]
          OBVIOUS
      <4>2. ingress[i].by[2] \in Live(o)'
          BY <1>10, <3>1, <4>1
      <4> QED BY <1>3, <3>1, <4>1, <4>2 DEF Live
    <3> QED BY <1>3, <3>4, <3>5, <3>6 DEF ZonesFit
  <2> QED BY <2>1, <2>2
<1> QED BY <1>10, <1>11
-------------------------------------------------------------------------------
(* The invariant *)

(* The invariant holds at first.                                           *)
LEMMA Initially == Init => IInv
<1> SUFFICES ASSUME Init PROVE IInv
    OBVIOUS
<1> USE DEF Init
<1>1. Absent \in Worker /\ Idle \in Request
    BY DEF Absent, Idle, Worker, Request, Toggles, NoToken
<1>2. Typed
  <2>1. OthersTyped
    <3>1. disk \in [on : Toggles, hidden : BOOLEAN]
        BY DEF Toggles
    <3>2. /\ enabled \in [Adapters -> BOOLEAN] /\ running \in [Adapters -> BOOLEAN]
          /\ flag \in [Adapters -> BOOLEAN]
        OBVIOUS
    <3>3. /\ token \in [Observers -> Tokens \cup {NoToken}]
          /\ cancelled \in [Observers -> SUBSET (Tokens \cup {NoToken})]
          /\ task \in [Observers -> Tokens \cup {NoToken}]
        OBVIOUS
    <3>4. server \in Servers \cup {NoServer} /\ known \subseteq Servers /\ listed \subseteq Servers
        OBVIOUS
    <3>5. /\ ingress \in Seq([by : Observers \X Tokens, update : Update])
          /\ bus \in Seq(Update \cup [type : {"stopping"}, server : {NoServer}])
      <4> HIDE DEF Init
      <4>1. ingress = <<>> /\ bus = <<>>
          BY DEF Init
      <4> QED BY Zenon, <4>1, EmptySeq
    <3>6. Len(bus) <= BusCapacity
        BY LifecycleAssumption
    <3>7. requests \in 0 .. MaxRequests /\ lags \in 0 .. MaxLags
        BY LifecycleAssumption
    <3>8. lost \in BOOLEAN /\ orphaned \in BOOLEAN /\ unsaved \in BOOLEAN
        OBVIOUS
    <3> HIDE DEF Init
    <3>9. {lost, orphaned} \subseteq BOOLEAN
        BY Zenon, <3>8
    <3> QED BY Zenon, <3>1, <3>2, <3>3, <3>4, <3>5, <3>6, <3>7, <3>8, <3>9 DEF OthersTyped
  <2>2. worker \in [Observers -> [Tokens -> Worker]]
      BY <1>1
  <2>3. handler \in [Handlers -> Request]
      BY <1>1
  <2> QED BY <2>1, <2>2, <2>3, TypedParts
<1>3. \A o \in Observers : Live(o) = {}
    BY DEF Live, Absent
<1>4. ObservedFits
    BY DEF ObservedFits, Absent
<1>5. ASSUME NEW h \in Handlers
      PROVE  Fits(h)
  <2>1. handler[h] = Idle /\ At(h) = 0 /\ ~Toggling(h) /\ handler[h].applied = <<>>
        /\ ~handler[h].back /\ Len(handler[h].todo) = 0
      BY IdleFacts DEF At, Toggling
  <2>2. PlanFits(h) /\ AppliedFits(h) /\ ServerNamed(h) /\ SavedFits(h)
      BY <2>1 DEF PlanFits, AppliedFits, ServerNamed, SavedFits, Providers, Adapters
  <2>3. TokensSuffice(h)
      BY <2>1 DEF TokensSuffice, NoToken
  <2>4. WorkersFit(h) /\ OffFits(h)
      BY <1>3, <2>1 DEF WorkersFit, OffFits, Observers, Adapters, Providers, Main, Companion, NoneAt
  <2>5. ZonesFit(h)
      BY DEF ZonesFit
  <2> QED BY <2>2, <2>3, <2>4, <2>5 DEF Fits
<1>6. \A h \in Handlers : Alone(h)
    BY DEF Alone
<1>7. PICK h \in Handlers : TRUE
    BY LifecycleAssumption
<1> HIDE DEF Init
<1> QED BY <1>2, <1>4, <1>5, <1>6, <1>7 DEF IInv, Good

(* A step of a request.                                                    *)
LEMMA ServeStep ==
    ASSUME NEW h \in Handlers, Good(h), Serve(h), ~crossed'
    PROVE  Good(h)'
BY ToggleStep, RestoreStep, UnsaveStep, ClaimStep, FreshTokenStep, SpawnStep, TrackStep, CancelStep,
   JoinStep, StoppedStep, FlushStep, AwaitStep, ConfigureStep, MarkStep, EnableStep DEF Serve

(* A step of a worker.                                                     *)
LEMMA WorkStep ==
    ASSUME NEW h \in Handlers, Good(h), NEW o \in Observers, NEW t \in Tokens, Work(o, t)
    PROVE  Good(h)'
<1>1. CASE EndsCancelled(o, t)
  <2>1. lags' \in 0 .. MaxLags
      BY <1>1 DEF EndsCancelled, Good, Typed, OthersTyped
  <2> QED BY <1>1, <2>1, EndedStep DEF EndsCancelled
<1>2. CASE EndsLagged(o, t)
  <2>1. lags' \in 0 .. MaxLags
      BY <1>2, LifecycleAssumption DEF EndsLagged, Good, Typed, OthersTyped
  <2> QED BY <1>2, <2>1, EndedStep DEF EndsLagged
<1> QED BY <1>1, <1>2, PollStep, AnswerStep, PollFailsStep, RunFailsStep, SubmitStep, ConnectedStep DEF Work

(* Requests that have overlapped stay so.                                  *)
LEMMA CrossedStays ==
    ASSUME crossed, [Next]_vars
    PROVE  crossed'
<1>1. ASSUME NEW h \in Handlers, PostSettings(h) \/ PostConfigure(h) PROVE crossed'
    BY <1>1 DEF PostSettings, PostConfigure, Crosses
<1>2. ASSUME NEW h \in Handlers, Serve(h) PROVE crossed'
    BY <1>2 DEF Serve, Toggle, Restore, Unsave, Claim, FreshToken, Spawn, Track, Cancel, Join,
                Stopped, Flush, Await, Configure, Mark, Enable, historyVars
<1>3. ASSUME NEW o \in Observers, NEW t \in Tokens, Work(o, t) PROVE crossed'
    BY <1>3 DEF Work, Poll, Answer, PollFails, RunFails, Submit, Connected, EndsCancelled, EndsLagged,
                Ended, WorkerStep
<1>4. ASSUME PostHide \/ Commit \/ Deliver PROVE crossed'
    BY <1>4 DEF PostHide, Commit, Deliver, historyVars
<1>5. ASSUME UNCHANGED vars PROVE crossed'
    BY <1>5 DEF vars, historyVars
<1> QED BY <1>1, <1>2, <1>3, <1>4, <1>5 DEF Next

(* A step of a request leaves the others alone.                            *)
LEMMA ServesAlone ==
    ASSUME NEW h \in Handlers, Typed, Serve(h), Alone(h)
    PROVE  Alone(h)'
<1>1. handler \in [Handlers -> Request]
    BY DEF Typed
<1>2. \E r : handler' = [handler EXCEPT ![h] = r]
  <2>1. ASSUME NEW n, Continue(h, n)
        PROVE  \E r : handler' = [handler EXCEPT ![h] = r]
      BY <2>1 DEF Continue
  <2>2. ASSUME Failed(h) PROVE \E r : handler' = [handler EXCEPT ![h] = r]
    <3>1. CASE handler[h].back
        BY <2>1, <2>2, <3>1 DEF Failed
    <3>2. CASE ~handler[h].back /\ handler[h].applied # <<>>
      <4>1. handler' = [handler EXCEPT ![h].todo = Rollback(handler[h].applied), ![h].back = TRUE]
          BY <2>2, <3>2 DEF Failed
      <4>2. handler' = [handler EXCEPT ![h] =
                 [handler[h] EXCEPT !.todo = Rollback(handler[h].applied), !.back = TRUE]]
          BY <1>1, <4>1 DEF Request
      <4> QED BY <4>2
    <3>3. CASE ~handler[h].back /\ handler[h].applied = <<>>
        BY <2>2, <3>3 DEF Failed
    <3> QED BY <3>1, <3>2, <3>3
  <2>3. CASE Toggle(h)
    <3>1. PICK todo, n : handler' = [handler EXCEPT ![h] =
                 IF todo = <<>> THEN Idle
                 ELSE [handler[h] EXCEPT !.todo = todo, !.applied = Append(@, n)]]
        BY <2>3 DEF Toggle
    <3> QED BY <3>1
  <2>4. CASE FreshToken(h)
    <3>1. handler' = [handler EXCEPT ![h].token = token[Current(h).who] + 1, ![h].todo = Rest(h)]
        BY <2>4 DEF FreshToken
    <3>2. handler' = [handler EXCEPT ![h] =
              [handler[h] EXCEPT !.token = token[Current(h).who] + 1, !.todo = Rest(h)]]
        BY <1>1, <3>1 DEF Request
    <3> QED BY <3>2
  <2>5. CASE Cancel(h)
    <3>1. handler' = [handler EXCEPT ![h].join = task[Current(h).who], ![h].todo = Rest(h)]
        BY <2>5 DEF Cancel
    <3>2. handler' = [handler EXCEPT ![h] =
              [handler[h] EXCEPT !.join = task[Current(h).who], !.todo = Rest(h)]]
        BY <1>1, <3>1 DEF Request
    <3> QED BY <3>2
  <2>6. CASE Mark(h)
      BY <2>1, <2>6 DEF Mark
  <2>7. CASE Claim(h)
      BY <2>1, <2>2, <2>7 DEF Claim
  <2>8. CASE Restore(h)
      BY <2>1, <2>8 DEF Restore
  <2>9. CASE Unsave(h) \/ Spawn(h) \/ Track(h) \/ Join(h) \/ Stopped(h) \/ Flush(h) \/ Await(h)
             \/ Configure(h) \/ Enable(h)
      BY <2>1, <2>9 DEF Unsave, Spawn, Track, Join, Stopped, Flush, Await, Configure, Enable
  <2> QED BY <2>3, <2>4, <2>5, <2>6, <2>7, <2>8, <2>9 DEF Serve
<1> QED BY <1>1, <1>2 DEF Alone

(* Between requests it does not matter which handler is looked at.         *)
LEMMA IdleAlike ==
    ASSUME NEW g \in Handlers, NEW h \in Handlers, handler[g] = handler[h], Good(h)
    PROVE  Good(g)
<1>1. /\ Typed /\ ObservedFits /\ PlanFits(h) /\ AppliedFits(h) /\ ServerNamed(h)
      /\ TokensSuffice(h) /\ WorkersFit(h) /\ OffFits(h) /\ SavedFits(h) /\ ZonesFit(h)
    BY DEF Good, Fits
<1>2. At(g) = At(h) /\ Last(g) = Last(h) /\ (Toggling(g) <=> Toggling(h))
    BY DEF At, Last, Toggling
<1>3. \A n : (StepFits(g, n) <=> StepFits(h, n)) /\ (Restores(g, n) <=> Restores(h, n))
    BY <1>2 DEF StepFits, Restores
<1>4. PlanFits(g) /\ AppliedFits(g) /\ ServerNamed(g) /\ TokensSuffice(g)
    BY <1>1, <1>2, <1>3 DEF PlanFits, AppliedFits, ServerNamed, TokensSuffice
<1>5. WorkersFit(g) /\ OffFits(g)
    BY <1>1, <1>2 DEF WorkersFit, OffFits
<1>6. SavedFits(g)
    BY <1>1, <1>2, <1>3 DEF SavedFits
<1>7. (\A n : Flushed(g, n) <=> Flushed(h, n)) /\ (\A s : Shows(g, s) <=> Shows(h, s))
    BY <1>2 DEF Flushed, Shows, Serving
<1>8. ZonesFit(g)
    BY <1>1, <1>7 DEF ZonesFit
<1> QED BY <1>1, <1>4, <1>5, <1>6, <1>8 DEF Good, Fits

(* A request that begins where others are served has overlapped them.      *)
LEMMA BeginsAlone ==
    ASSUME NEW h \in Handlers, NEW g \in Handlers, Typed, Alone(h), ~crossed',
           PostSettings(g) \/ PostConfigure(g)
    PROVE  handler[g] = handler[h] /\ Alone(g) /\ Alone(g)'
<1>1. Crosses(g) /\ handler[g] = Idle
    BY DEF PostSettings, PostConfigure
<1>2. \A k \in Handlers : handler[k] = Idle
    BY <1>1 DEF Crosses
<1>3. \E r : handler' = [handler EXCEPT ![g] = r]
  <2>1. CASE PostSettings(g)
    <3>1. PICK new \in [Providers -> BOOLEAN] :
             handler' = [handler EXCEPT ![g] =
                IF new = disk.on THEN Idle
                ELSE [Idle EXCEPT !.todo = Changes(disk.on, new), !.old = disk.on,
                                  !.new = new, !.hides = disk.hidden]]
        BY <2>1 DEF PostSettings
    <3> QED BY <3>1
  <2>2. CASE PostConfigure(g)
    <3>1. handler' = [handler EXCEPT ![g] = [Idle EXCEPT !.todo = Configuration]]
        BY <2>2 DEF PostConfigure
    <3> QED BY <3>1
  <2> QED BY <2>1, <2>2
<1>4. handler \in [Handlers -> Request]
    BY DEF Typed
<1> QED BY <1>2, <1>3, <1>4 DEF Alone

(* A step that does nothing.                                               *)
LEMMA StutterStep ==
    ASSUME NEW h \in Handlers, Good(h), UNCHANGED vars
    PROVE  Good(h)'
<1>1. UNCHANGED <<disk, enabled, running, flag, token, cancelled, task, server, known, worker,
                  handler, requests, orphaned, unsaved, lags, ingress, bus, listed, lost>>
    BY DEF vars, coordinatorVars, adapterVars, projectionVars, historyVars
<1>2. ProjectionStep
  <2>1. OthersTyped
      BY TypedParts DEF Good
  <2> QED BY <1>1, <2>1 DEF ProjectionStep, OthersTyped, Hint
<1>3. At(h)' = At(h) /\ \A o : Live(o)' = Live(o)
    BY <1>2, ProjectionKeeps
<1>4. ZonesFit(h)'
  <2>1. ZonesFit(h)
      BY DEF Good, Fits
  <2> QED BY <1>1, <1>3, <2>1 DEF ZonesFit, Shows, Serving, Flushed, Live
<1> QED BY <1>2, <1>4, ProjectionKeeps

(* Every step keeps the invariant.                                         *)
LEMMA Invariance ==
    ASSUME IInv, [Next]_vars
    PROVE  IInv'
<1>1. CASE crossed
    BY <1>1, CrossedStays DEF IInv
<1>2. CASE crossed'
    BY <1>2 DEF IInv
<1>3. CASE ~crossed /\ ~crossed'
  <2>1. PICK h \in Handlers : Alone(h) /\ Good(h)
      BY <1>3 DEF IInv
  <2>2. Typed
      BY <2>1 DEF Good
  <2>3. ASSUME NEW g \in Handlers, Serve(g) PROVE Good(h)' /\ Alone(h)'
    <3>1. g = h
      <4>1. handler[g].todo # <<>>
          BY <2>3 DEF Serve, Toggle, Restore, Unsave, Claim, FreshToken, Spawn, Track, Cancel, Join,
                      Stopped, Flush, Await, Configure, Mark, Enable, Doing
      <4> QED BY <2>1, <4>1, IdleFacts DEF Alone
    <3>2. Good(h)'
        BY <1>3, <2>1, <2>3, <3>1, ServeStep
    <3>3. Alone(h)'
        BY <2>1, <2>2, <2>3, <3>1, ServesAlone
    <3> QED BY <3>2, <3>3
  <2>4. ASSUME NEW g \in Handlers, PostSettings(g) \/ PostConfigure(g)
        PROVE  Good(g)' /\ Alone(g)'
    <3>1. handler[g] = handler[h] /\ Alone(g)'
        BY <1>3, <2>1, <2>2, <2>4, BeginsAlone
    <3>2. Good(g)
        BY <2>1, <3>1, IdleAlike
    <3>3. Good(g)'
        BY <2>4, <3>2, PostSettingsStep, PostConfigureStep
    <3> QED BY <3>1, <3>3
  <2>5. ASSUME PostHide \/ Commit \/ Deliver PROVE Good(h)' /\ Alone(h)'
    <3>1. Good(h)'
        BY <2>1, <2>5, PostHideStep, CommitStep, DeliverStep
    <3>2. handler' = handler
        BY <2>5 DEF PostHide, Commit, Deliver
    <3> QED BY <2>1, <3>1, <3>2 DEF Alone
  <2>6. ASSUME NEW o \in Observers, NEW t \in Tokens, Work(o, t) PROVE Good(h)' /\ Alone(h)'
    <3>1. Good(h)'
        BY <2>1, <2>6, WorkStep
    <3>2. handler' = handler
        BY <2>6 DEF Work, Poll, Answer, PollFails, RunFails, Submit, Connected, EndsCancelled,
                    EndsLagged, Ended, WorkerStep
    <3> QED BY <2>1, <3>1, <3>2 DEF Alone
  <2>7. ASSUME UNCHANGED vars PROVE Good(h)' /\ Alone(h)'
    <3>1. Good(h)'
        BY <2>1, <2>7, StutterStep
    <3>2. handler' = handler
        BY <2>7 DEF vars
    <3> QED BY <2>1, <3>1, <3>2 DEF Alone
  <2> QED BY <2>3, <2>4, <2>5, <2>6, <2>7 DEF Next, IInv
<1> QED BY <1>1, <1>2, <1>3

(* The invariant holds always.                                             *)
LEMMA Inductive == Spec => []IInv
<1>1. IInv /\ [Next]_vars => IInv'
    BY Invariance
<1> QED BY <1>1, Initially, PTL DEF Spec
-------------------------------------------------------------------------------
(* What follows *)

(* Between requests the settings file, the registry and the workers agree, *)
(* whichever starts failed and whatever was rolled back, as long as        *)
(* requests and runs have not overlapped.                                  *)
THEOREM Settled == Spec => []SettledAgrees
<1>1. IInv => SettledAgrees
  <2> SUFFICES ASSUME IInv, ~crossed, \A h \in Handlers : handler[h] = Idle, NEW p \in Providers
               PROVE  /\ disk.on[p] = enabled[p] \/ unsaved
                      /\ ~enabled[p] =>
                            /\ ~running[p] /\ ~flag[p]
                            /\ p = "lms" => \A o \in Observers : Live(o) = {} /\ ~running[o] /\ ~flag[o]
      BY DEF SettledAgrees
  <2>1. PICK h \in Handlers : WorkersFit(h) /\ OffFits(h) /\ SavedFits(h)
      BY DEF IInv, Good, Fits
  <2>2. At(h) = 0
      BY IdleFacts DEF At
  <2>3. disk.on[p] = enabled[p] \/ unsaved
      BY <2>1, <2>2 DEF SavedFits
  <2>4. ~enabled["lms"] =>
           /\ ~running[Main] /\ ~flag[Main] /\ Live(Main) = {}
           /\ ~running[Companion] /\ Live(Companion) = {}
      BY <2>1, <2>2 DEF OffFits
  <2>5. ~enabled["lms"] => ~flag[Companion]
      BY <2>1, <2>2, <2>4 DEF WorkersFit
  <2>6. ~enabled["hqplayer"] => ~running["hqplayer"] /\ ~flag["hqplayer"]
      BY <2>1, <2>2 DEF OffFits
  <2> QED BY <2>3, <2>4, <2>5, <2>6 DEF Providers, Observers, Main
<1> QED BY <1>1, Inductive, PTL

(* When everything has come to rest, no zone of a former server is listed, *)
(* and none when LMS is off: the stop awaits both observers before it      *)
(* retires what they have shown, and what they had sent by then is         *)
(* projected before the flush.  As long as requests and runs have not      *)
(* overlapped.                                                             *)
THEOREM FormerServer == Spec => []FormerServerGone
<1>1. IInv => FormerServerGone
  <2> SUFFICES ASSUME IInv, AtRest, ~orphaned, ~crossed
               PROVE  listed \subseteq (IF enabled["lms"] THEN {server} ELSE {})
      BY DEF FormerServerGone
  <2>1. PICK h \in Handlers : ZonesFit(h)
      BY DEF IInv, Good, Fits
  <2>2. At(h) = 0 /\ bus = <<>> /\ ~lost
      BY IdleFacts DEF AtRest, At
  <2>3. ~Flushed(h, 1)
      BY <2>2 DEF Flushed
  <2>4. \A s \in listed : Shows(h, s)
      BY <2>1, <2>2, <2>3 DEF ZonesFit
  <2> QED BY <2>4 DEF Shows, Serving
<1> QED BY <1>1, Inductive, PTL
-------------------------------------------------------------------------------
(* The runs of the companion, however requests overlap.  A start that has  *)
(* claimed the companion (Starting) has its mark to itself until it has    *)
(* spawned the run; from then on the mark is the run's.                    *)

(* A step at one of these stages is followed by the step of the next.      *)
Led == (24 .. 30) \cup {46}

(* In what is left of a request a start is complete: a companion gets its  *)
(* token after a claim, and is spawned after it got the token.             *)
Planned(s) ==
    /\ s \in Seq(Steps)
    /\ \A i \in 1 .. Len(s) :
          /\ Stage(s[i]) # 0
          /\ Stage(s[i]) \in Led => i < Len(s)
          /\ i < Len(s) =>
                /\ Stage(s[i]) \in Led => Stage(s[i + 1]) = Stage(s[i]) + 1
                /\ Stage(s[i + 1]) = 29 => Stage(s[i]) = 28
                /\ Stage(s[i + 1]) = 30 => Stage(s[i]) = 29

First(s) == IF s = <<>> THEN 0 ELSE Stage(s[1])

Recorded == [todo : Seq(Steps), old : Toggles, new : Toggles, applied : Seq(Providers),
             hides : BOOLEAN, back : BOOLEAN, token : Nat, join : Nat]

(* The types of what this argument looks at.                               *)
MarksShaped ==
    /\ disk \in [on : Toggles, hidden : BOOLEAN]
    /\ flag \in [Adapters -> BOOLEAN]
    /\ token \in [Observers -> Nat] /\ task \in [Observers -> Nat]
WorkersShaped ==
    /\ DOMAIN worker = Observers
    /\ \A o \in Observers : DOMAIN worker[o] = Tokens
    /\ \A o \in Observers, t \in Tokens : "phase" \in DOMAIN worker[o][t]
HandlersShaped ==
    /\ handler \in [Handlers -> Recorded]
    /\ \A h \in Handlers : Planned(handler[h].todo)

(* One request at most is starting the companion.  It has the mark and the *)
(* current token, and there is no run; a run has the mark and the token.   *)
Starting(h) == At(h) \in {29, 30}
CompanionFits ==
    /\ \A g, h \in Handlers : Starting(g) /\ Starting(h) => g = h
    /\ \A h \in Handlers : Starting(h) => flag[Companion] /\ Live(Companion) = {}
    /\ \A h \in Handlers : At(h) = 30 => handler[h].token = token[Companion]
    /\ Live(Companion) # {} => flag[Companion]
    /\ Live(Companion) \subseteq {token[Companion]}

CInv == MarksShaped /\ WorkersShaped /\ HandlersShaped /\ CompanionFits

(* The step after one that is followed by the next stage.                  *)
LEMMA Following ==
    ASSUME NEW s, Planned(s), NEW i \in 1 .. Len(s), Stage(s[i]) \in Led
    PROVE  i + 1 \in 1 .. Len(s) /\ Stage(s[i + 1]) = Stage(s[i]) + 1
<1>1. i < Len(s) /\ Len(s) \in Nat
    BY DEF Planned
<1> QED BY <1>1 DEF Planned

(* A start that is the next step is complete.                              *)
LEMMA WholeStart ==
    ASSUME NEW s, Planned(s), s # <<>>
    PROVE  /\ Stage(s[1]) = 24 => /\ 3 \in 1 .. Len(s) /\ Stage(s[3]) = 26
                                  /\ 8 \in 1 .. Len(s) /\ Stage(s[8]) = 31
           /\ Stage(s[1]) = 28 => /\ 3 \in 1 .. Len(s) /\ Stage(s[3]) = 30
                                  /\ 4 \in 1 .. Len(s) /\ Stage(s[4]) = 31
           /\ Stage(s[1]) = 46 => /\ 1 \in 1 .. Len(s)
                                  /\ 2 \in 1 .. Len(s) /\ Stage(s[2]) = 47
<1>1. 1 \in 1 .. Len(s)
  <2>1. s \in Seq(Steps)
      BY DEF Planned
  <2> QED BY <2>1
<1>2. \A k \in 24 .. 30 : k \in Led
    BY DEF Led
<1>3. 46 \in Led
    BY DEF Led
<1>4. CASE Stage(s[1]) = 24
  <2>1. 2 \in 1 .. Len(s) /\ Stage(s[2]) = 25
      BY <1>1, <1>2, <1>4, Following
  <2>2. 3 \in 1 .. Len(s) /\ Stage(s[3]) = 26
      BY <1>2, <2>1, Following
  <2>3. 4 \in 1 .. Len(s) /\ Stage(s[4]) = 27
      BY <1>2, <2>2, Following
  <2>4. 5 \in 1 .. Len(s) /\ Stage(s[5]) = 28
      BY <1>2, <2>3, Following
  <2>5. 6 \in 1 .. Len(s) /\ Stage(s[6]) = 29
      BY <1>2, <2>4, Following
  <2>6. 7 \in 1 .. Len(s) /\ Stage(s[7]) = 30
      BY <1>2, <2>5, Following
  <2>7. 8 \in 1 .. Len(s) /\ Stage(s[8]) = 31
      BY <1>2, <2>6, Following
  <2> QED BY <1>4, <2>2, <2>7
<1>5. CASE Stage(s[1]) = 28
  <2>1. 2 \in 1 .. Len(s) /\ Stage(s[2]) = 29
      BY <1>1, <1>2, <1>5, Following
  <2>2. 3 \in 1 .. Len(s) /\ Stage(s[3]) = 30
      BY <1>2, <2>1, Following
  <2>3. 4 \in 1 .. Len(s) /\ Stage(s[4]) = 31
      BY <1>2, <2>2, Following
  <2> QED BY <1>5, <2>2, <2>3
<1>6. CASE Stage(s[1]) = 46
  <2>1. 2 \in 1 .. Len(s) /\ Stage(s[2]) = 47
      BY <1>1, <1>3, <1>6, Following
  <2> QED BY <1>1, <1>6, <2>1
<1> QED BY <1>4, <1>5, <1>6

(* What is left of a list after its first n steps.                         *)
LEMMA PlannedDrop ==
    ASSUME NEW s, Planned(s), NEW n \in 1 .. Len(s)
    PROVE  /\ Planned(Drop(n, s))
           /\ First(Drop(n, s)) = 29 => Stage(s[n]) = 28
           /\ First(Drop(n, s)) = 30 => Stage(s[n]) = 29
<1> DEFINE r == SubSeq(s, n + 1, Len(s))
<1>1. s \in Seq(Steps) /\ Len(s) \in Nat
    BY DEF Planned
<1>2. /\ r \in Seq(Steps) /\ Len(r) = Len(s) - n
      /\ \A i \in 1 .. Len(s) - n : r[i] = s[n + i]
    BY <1>1, Left
<1>3. Drop(n, s) = r
    BY DEF Drop
<1> HIDE DEF r
<1>4. Planned(r)
  <2>1. ASSUME NEW i \in 1 .. Len(r)
        PROVE  /\ Stage(r[i]) # 0
               /\ Stage(r[i]) \in Led => i < Len(r)
               /\ i < Len(r) =>
                     /\ Stage(r[i]) \in Led => Stage(r[i + 1]) = Stage(r[i]) + 1
                     /\ Stage(r[i + 1]) = 29 => Stage(r[i]) = 28
                     /\ Stage(r[i + 1]) = 30 => Stage(r[i]) = 29
    <3>1. n + i \in 1 .. Len(s) /\ r[i] = s[n + i] /\ (n + i < Len(s) <=> i < Len(r))
        BY <1>1, <1>2
    <3>2. i < Len(r) => r[i + 1] = s[(n + i) + 1]
      <4>1. n + (i + 1) = (n + i) + 1 /\ (i < Len(r) => i + 1 \in 1 .. Len(s) - n)
          BY <1>1, <1>2
      <4>2. i < Len(r) => r[i + 1] = s[n + (i + 1)]
          BY Zenon, <1>2, <4>1
      <4> QED BY ONLY <4>1, <4>2
    <3>3. /\ Stage(s[n + i]) # 0
          /\ Stage(s[n + i]) \in Led => n + i < Len(s)
          /\ n + i < Len(s) =>
                /\ Stage(s[n + i]) \in Led => Stage(s[(n + i) + 1]) = Stage(s[n + i]) + 1
                /\ Stage(s[(n + i) + 1]) = 29 => Stage(s[n + i]) = 28
                /\ Stage(s[(n + i) + 1]) = 30 => Stage(s[n + i]) = 29
        BY ONLY Planned(s), <3>1 DEF Planned
    <3> QED BY ONLY <3>1, <3>2, <3>3
  <2> QED BY <1>2, <2>1 DEF Planned
<1>5. CASE r = <<>>
    BY <1>3, <1>4, <1>5 DEF First
<1>6. CASE r # <<>>
  <2>1. Len(r) # 0
      BY <1>2, <1>6, EmptySeq
  <2>2. n < Len(s) /\ r[1] = s[n + 1]
      BY <1>1, <1>2, <2>1
  <2>3. First(r) = Stage(s[n + 1])
      BY <1>6, <2>2 DEF First
  <2> QED BY <1>3, <1>4, <2>2, <2>3 DEF Planned
<1> QED BY <1>5, <1>6

(* What is left of a list after its first step.                            *)
LEMMA PlannedTail ==
    ASSUME NEW s, Planned(s), s # <<>>
    PROVE  /\ Planned(Tail(s)) /\ First(s) # 0 /\ First(s) = Stage(s[1])
           /\ First(Tail(s)) = 29 => First(s) = 28
           /\ First(Tail(s)) = 30 => First(s) = 29
           /\ First(s) \in Led => Tail(s) # <<>> /\ First(Tail(s)) = First(s) + 1
<1>1. s \in Seq(Steps) /\ 1 \in 1 .. Len(s)
    BY DEF Planned
<1>2. Tail(s) = Drop(1, s)
    BY <1>1 DEF Drop
<1>3. First(s) = Stage(s[1]) /\ First(s) # 0
    BY <1>1 DEF First, Planned
<1>4. First(s) \in Led => Tail(s) # <<>> /\ First(Tail(s)) = First(s) + 1
  <2> SUFFICES ASSUME First(s) \in Led
               PROVE  Tail(s) # <<>> /\ First(Tail(s)) = First(s) + 1
      OBVIOUS
  <2>1. 2 \in 1 .. Len(s) /\ Stage(s[2]) = Stage(s[1]) + 1
      BY <1>1, <1>3, Following
  <2>2. Tail(s) # <<>> /\ Tail(s)[1] = s[2]
      BY <1>1, <2>1, LeftByOne
  <2> QED BY <1>3, <2>1, <2>2 DEF First
<1> QED BY <1>1, <1>2, <1>3, <1>4, PlannedDrop

(* Two lists in a row.                                                     *)
LEMMA PlannedJoined ==
    ASSUME NEW a, NEW b, Planned(a), Planned(b), First(b) \notin {29, 30}
    PROVE  /\ Planned(a \o b)
           /\ First(a \o b) = IF a = <<>> THEN First(b) ELSE First(a)
<1> DEFINE s == a \o b
<1>1. a \in Seq(Steps) /\ b \in Seq(Steps) /\ Len(a) \in Nat /\ Len(b) \in Nat
    BY DEF Planned
<1>2. /\ s \in Seq(Steps) /\ Len(s) = Len(a) + Len(b)
      /\ \A i \in 1 .. Len(a) + Len(b) : s[i] = IF i <= Len(a) THEN a[i] ELSE b[i - Len(a)]
    BY Zenon, <1>1, Joined
<1> HIDE DEF s
<1>3. ASSUME NEW i \in 1 .. Len(s)
      PROVE  /\ Stage(s[i]) # 0
             /\ Stage(s[i]) \in Led => i < Len(s)
             /\ i < Len(s) =>
                   /\ Stage(s[i]) \in Led => Stage(s[i + 1]) = Stage(s[i]) + 1
                   /\ Stage(s[i + 1]) = 29 => Stage(s[i]) = 28
                   /\ Stage(s[i + 1]) = 30 => Stage(s[i]) = 29
  <2>1. CASE i < Len(a)
    <3>1. s[i] = a[i] /\ s[i + 1] = a[i + 1] /\ i \in 1 .. Len(a) /\ i < Len(s)
        BY <1>1, <1>2, <2>1
    <3> QED BY <2>1, <3>1 DEF Planned
  <2>2. CASE i = Len(a)
    <3>1. s[i] = a[i] /\ i \in 1 .. Len(a)
        BY <1>1, <1>2, <2>2
    <3>2. Stage(a[i]) # 0 /\ Stage(a[i]) \notin Led
        BY <2>2, <3>1 DEF Planned
    <3>3. i < Len(s) => Stage(s[i + 1]) = First(b)
      <4> SUFFICES ASSUME i < Len(s)
                   PROVE  Stage(s[i + 1]) = First(b)
          OBVIOUS
      <4>1. b # <<>> /\ s[i + 1] = b[1]
          BY <1>1, <1>2, <2>2
      <4> QED BY <4>1 DEF First
    <3> QED BY <3>1, <3>2, <3>3
  <2>3. CASE i > Len(a)
    <3> DEFINE j == i - Len(a)
    <3>1. j \in 1 .. Len(b) /\ s[i] = b[j] /\ (i < Len(s) <=> j < Len(b))
        BY <1>1, <1>2, <2>3
    <3>2. i < Len(s) => s[i + 1] = b[j + 1]
        BY <1>1, <1>2, <2>3
    <3> HIDE DEF j
    <3> QED BY <3>1, <3>2 DEF Planned
  <2> QED BY <1>1, <1>2, <2>1, <2>2, <2>3
<1>4. First(s) = IF a = <<>> THEN First(b) ELSE First(a)
  <2>1. CASE a = <<>>
    <3>1. Len(a) = 0
        BY <2>1
    <3>2. s = <<>> <=> b = <<>>
        BY <1>1, <1>2, <3>1, EmptySeq
    <3>3. b # <<>> => s[1] = b[1]
        BY <1>1, <1>2, <3>1
    <3> QED BY <2>1, <3>2, <3>3 DEF First
  <2>2. CASE a # <<>>
    <3>1. s # <<>> /\ s[1] = a[1]
        BY <1>1, <1>2, <2>2
    <3> QED BY <2>2, <3>1 DEF First
  <2> QED BY <2>1, <2>2
<1> QED BY <1>2, <1>3, <1>4 DEF Planned, s

(* A list that is numbered to its end.                                     *)
LEMMA NumberedPlanned ==
    ASSUME NEW s, NEW c \in Nat, NEW n \in Nat \ {0}, Numbered(s, c, n), c + n \notin Led
    PROVE  Planned(s) /\ s # <<>> /\ First(s) = c + 1
<1>1. s \in Seq(Steps) /\ Len(s) = n /\ \A i \in 1 .. n : Stage(s[i]) = c + i
    BY DEF Numbered
<1>2. s # <<>> /\ First(s) = c + 1
    BY <1>1 DEF First
<1>3. ASSUME NEW i \in 1 .. Len(s)
      PROVE  /\ Stage(s[i]) # 0
             /\ Stage(s[i]) \in Led => i < Len(s)
             /\ i < Len(s) =>
                   /\ Stage(s[i]) \in Led => Stage(s[i + 1]) = Stage(s[i]) + 1
                   /\ Stage(s[i + 1]) = 29 => Stage(s[i]) = 28
                   /\ Stage(s[i + 1]) = 30 => Stage(s[i]) = 29
  <2>1. i \in 1 .. n /\ Stage(s[i]) = c + i
      BY <1>1
  <2>2. i < n => Stage(s[i + 1]) = c + (i + 1)
      BY <1>1, <2>1
  <2>3. i = n => Stage(s[i]) \notin Led
      BY <2>1
  <2> QED BY <1>1, <2>1, <2>2, <2>3
<1> QED BY <1>1, <1>2, <1>3 DEF Planned

(* The lists that requests are made of.                                    *)
LEMMA PlannedLists ==
    /\ Planned(<<>>) /\ First(<<>>) = 0
    /\ \A p \in Providers, on \in BOOLEAN :
          Planned(GroupOf(p, on)) /\ First(GroupOf(p, on)) \notin {29, 30}
    /\ Planned(Configuration) /\ First(Configuration) \notin {29, 30}
<1>1. Planned(<<>>) /\ First(<<>>) = 0
    BY DEF Planned, First
<1>2. ASSUME NEW p \in Providers, NEW on \in BOOLEAN
      PROVE  Planned(GroupOf(p, on)) /\ First(GroupOf(p, on)) \notin {29, 30}
  <2>1. /\ Numbered(GroupOf(p, on), Before(p, on), Length(p, on))
        /\ Before(p, on) \in Nat /\ Length(p, on) \in Nat \ {0}
        /\ <<p, on, Before(p, on) + 1, Before(p, on) + Length(p, on)>> \in
              {<<"lms", TRUE, 24, 31>>, <<"lms", FALSE, 11, 19>>,
               <<"hqplayer", TRUE, 46, 47>>, <<"hqplayer", FALSE, 43, 45>>}
      BY Groups DEF Providers
  <2>2. Before(p, on) + Length(p, on) \notin Led /\ Before(p, on) + 1 \notin {29, 30}
    <3> DEFINE x == Before(p, on) + 1
    <3> DEFINE y == Before(p, on) + Length(p, on)
    <3>1. <<p, on, x, y>> \in {<<"lms", TRUE, 24, 31>>, <<"lms", FALSE, 11, 19>>,
                              <<"hqplayer", TRUE, 46, 47>>, <<"hqplayer", FALSE, 43, 45>>}
        BY Zenon, <2>1
    <3> HIDE DEF x, y
    <3>2. y \in {31, 19, 47, 45} /\ x \in {24, 11, 46, 43}
        BY Zenon, <3>1
    <3>3. y \notin Led /\ x \notin {29, 30}
        BY <3>2 DEF Led
    <3> QED BY <3>3 DEF x, y
  <2> QED BY <2>1, <2>2, NumberedPlanned
<1>3. Planned(Configuration) /\ First(Configuration) \notin {29, 30}
  <2>1. 10 + 21 \notin Led
      BY DEF Led
  <2> QED BY <2>1, ConfigurationStages, NumberedPlanned
<1> QED BY <1>1, <1>2, <1>3

(* A list without steps of a start.                                        *)
LEMMA PlainPlanned ==
    ASSUME NEW s \in Seq(Steps),
           \A i \in 1 .. Len(s) : Stage(s[i]) \in {1, 2, 3, 41, 42}
    PROVE  Planned(s) /\ First(s) \notin {29, 30}
<1>1. \A n \in {1, 2, 3, 41, 42} : n \notin Led /\ n \notin {0, 29, 30}
    BY DEF Led
<1>2. First(s) \notin {29, 30}
  <2>1. s # <<>> => 1 \in 1 .. Len(s)
      OBVIOUS
  <2> QED BY <1>1, <2>1 DEF First
<1>3. ASSUME NEW i \in 1 .. Len(s)
      PROVE  /\ Stage(s[i]) # 0
             /\ Stage(s[i]) \notin Led
             /\ i < Len(s) => Stage(s[i + 1]) \notin {29, 30}
  <2>1. i < Len(s) => i + 1 \in 1 .. Len(s)
      OBVIOUS
  <2> QED BY <1>1, <2>1
<1> QED BY <1>2, <1>3 DEF Planned

(* What a request begins with, and what it takes back.                     *)
LEMMA PlannedChanges ==
    ASSUME NEW old \in Toggles, NEW new \in Toggles
    PROVE  Planned(Changes(old, new)) /\ First(Changes(old, new)) \notin {29, 30}
<1> DEFINE c == Changes(old, new)
<1>1. c \in {<<Step("toggle", "lms"), Step("toggle", "hqplayer")>>, <<Step("toggle", "lms")>>,
             <<Step("toggle", "hqplayer")>>, <<>>}
    BY ChangesOf
<1> HIDE DEF c
<1>2. c \in Seq(Steps) /\ \A i \in 1 .. Len(c) : Stage(c[i]) \in {1, 2, 3, 41, 42}
  <2>1. CASE c = <<Step("toggle", "lms"), Step("toggle", "hqplayer")>>
      BY <2>1, StageValues
  <2>2. CASE c = <<Step("toggle", "lms")>>
      BY <2>2, StageValues
  <2>3. CASE c = <<Step("toggle", "hqplayer")>>
      BY <2>3, StageValues
  <2>4. CASE c = <<>>
      BY <2>4
  <2> QED BY <1>1, <2>1, <2>2, <2>3, <2>4
<1>3. Planned(c) /\ First(c) \notin {29, 30}
    BY <1>2, PlainPlanned
<1> QED BY <1>3 DEF c

LEMMA PlannedRollback ==
    ASSUME NEW a \in Seq(Providers)
    PROVE  Planned(Rollback(a)) /\ First(Rollback(a)) \notin {29, 30}
<1> DEFINE back == [i \in 1 .. Len(a) |-> Step("restore", a[Len(a) + 1 - i])]
<1>1. \A i \in 1 .. Len(a) : back[i] \in Steps /\ Stage(back[i]) \in {1, 2, 3, 41, 42}
  <2> SUFFICES ASSUME NEW i \in 1 .. Len(a)
               PROVE  /\ Step("restore", a[Len(a) + 1 - i]) \in Steps
                      /\ Stage(Step("restore", a[Len(a) + 1 - i])) \in {1, 2, 3, 41, 42}
      OBVIOUS
  <2>1. Len(a) + 1 - i \in 1 .. Len(a)
      OBVIOUS
  <2>2. a[Len(a) + 1 - i] \in {"lms", "hqplayer"}
      BY <2>1 DEF Providers
  <2> QED BY <2>2, StageValues
<1>2. back \in Seq(Steps) /\ Len(back) = Len(a)
    BY <1>1
<1> DEFINE last == <<Step("unsave", "lms")>>
<1>3. last \in Seq(Steps) /\ \A i \in 1 .. Len(last) : Stage(last[i]) \in {1, 2, 3, 41, 42}
    BY StageValues
<1>4. Rollback(a) = back \o last
    BY DEF Rollback
<1> HIDE DEF back, last
<1>5. Planned(back) /\ First(back) \notin {29, 30}
    BY <1>1, <1>2, PlainPlanned
<1>6. Planned(last) /\ First(last) \notin {29, 30}
    BY <1>3, PlainPlanned
<1> QED BY <1>4, <1>5, <1>6, PlannedJoined

(* The next step of a request and its stage.                               *)
LEMMA NextStep ==
    ASSUME NEW h \in Handlers, HandlersShaped, handler[h].todo # <<>>
    PROVE  /\ Planned(handler[h].todo) /\ handler[h] \in Recorded
           /\ At(h) = First(handler[h].todo) /\ At(h) # 0
           /\ Current(h) \in Steps
           /\ \/ /\ Current(h).who = "lms"
                 /\ <<Current(h).do, At(h)>> \in
                       {<<"toggle", 1>>, <<"restore", 2>>, <<"unsave", 3>>, <<"cancel", 11>>,
                        <<"join", 12>>, <<"stopped", 13>>, <<"flush", 17>>, <<"untrack", 18>>,
                        <<"await", 20>>, <<"configure", 21>>, <<"mark", 22>>, <<"enable", 23>>,
                        <<"claim", 24>>, <<"token", 25>>, <<"spawn", 26>>, <<"track", 27>>}
              \/ /\ Current(h).who = Companion
                 /\ <<Current(h).do, At(h)>> \in
                       {<<"cancel", 14>>, <<"join", 15>>, <<"stopped", 16>>, <<"untrack", 19>>,
                        <<"claim", 28>>, <<"token", 29>>, <<"spawn", 30>>, <<"track", 31>>}
              \/ /\ Current(h).who = "hqplayer"
                 /\ <<Current(h).do, At(h)>> \in
                       {<<"toggle", 41>>, <<"restore", 42>>, <<"stopped", 43>>, <<"flush", 44>>,
                        <<"untrack", 45>>, <<"claim", 46>>, <<"track", 47>>}
<1>1. Planned(handler[h].todo) /\ handler[h] \in Recorded
    BY DEF HandlersShaped
<1>2. First(handler[h].todo) # 0 /\ First(handler[h].todo) = Stage(handler[h].todo[1])
    BY <1>1, PlannedTail
<1>3. handler[h].todo \in Seq(Steps)
    BY <1>1 DEF Planned
<1>4. Current(h) = handler[h].todo[1] /\ Current(h) \in Steps
    BY <1>3, LeftByOne DEF Current
<1>5. At(h) = First(handler[h].todo) /\ At(h) = Stage(Current(h))
    BY <1>2, <1>4 DEF At
<1> QED BY <1>1, <1>2, <1>4, <1>5, StagesOf

(* What is left of a request after its next step.                          *)
LEMMA NextRest ==
    ASSUME NEW h \in Handlers, HandlersShaped, handler[h].todo # <<>>
    PROVE  /\ Planned(Rest(h))
           /\ First(Rest(h)) = 29 => At(h) = 28
           /\ First(Rest(h)) = 30 => At(h) = 29
           /\ At(h) = 28 => First(Rest(h)) = 29
           /\ At(h) = 29 => First(Rest(h)) = 30
<1>1. Planned(handler[h].todo) /\ At(h) = First(handler[h].todo)
    BY NextStep
<1>2. 28 \in Led /\ 29 \in Led
    BY DEF Led
<1> QED BY <1>1, <1>2, PlannedTail DEF Rest

(* A request becomes r.                                                    *)
Onto(h, r) == handler' = [handler EXCEPT ![h] = r] /\ r \in Recorded /\ Planned(r.todo)

LEMMA IdleRecorded == Idle \in Recorded /\ Idle.todo = <<>>
BY DEF Idle, Recorded, Toggles, NoToken

LEMMA ContinueOnto ==
    ASSUME NEW h \in Handlers, HandlersShaped, NEW s, Planned(s), Continue(h, s)
    PROVE  \E r : Onto(h, r) /\ First(r.todo) = First(s) /\ (s # <<>> => r.token = handler[h].token)
<1>1. s \in Seq(Steps) /\ handler[h] \in Recorded
    BY DEF Planned, HandlersShaped
<1>2. CASE s = <<>>
  <2>1. Idle \in Recorded /\ Idle.todo = <<>>
      BY IdleRecorded
  <2>2. Onto(h, Idle) /\ First(Idle.todo) = First(s)
      BY <1>2, <2>1 DEF Onto, Continue
  <2> QED BY <1>2, <2>2
<1>3. CASE s # <<>>
  <2> DEFINE r == [handler[h] EXCEPT !.todo = s]
  <2>1. r \in Recorded /\ r.todo = s /\ r.token = handler[h].token
      BY <1>1 DEF Recorded
  <2>2. handler' = [handler EXCEPT ![h] = r]
      BY <1>3 DEF Continue
  <2> HIDE DEF r
  <2> QED BY <2>1, <2>2 DEF Onto
<1> QED BY <1>2, <1>3

(* Handlers after one of them has gone on.                                 *)
LEMMA OntoShaped ==
    ASSUME NEW h \in Handlers, HandlersShaped, NEW r, Onto(h, r)
    PROVE  /\ HandlersShaped'
           /\ At(h)' = First(r.todo) /\ handler'[h] = r
           /\ \A g \in Handlers \ {h} : handler'[g] = handler[g] /\ At(g)' = At(g)
<1>1. handler \in [Handlers -> Recorded]
    BY DEF HandlersShaped
<1>2. /\ handler' \in [Handlers -> Recorded] /\ handler'[h] = r
      /\ \A g \in Handlers \ {h} : handler'[g] = handler[g]
    BY <1>1 DEF Onto
<1>3. \A g \in Handlers : Planned(handler'[g].todo)
    BY <1>2 DEF Onto, HandlersShaped
<1>4. At(h)' = First(r.todo)
    BY <1>2 DEF At, First
<1>5. \A g \in Handlers \ {h} : At(g)' = At(g)
    BY <1>2 DEF At
<1>6. HandlersShaped'
    BY <1>2, <1>3 DEF HandlersShaped
<1> QED BY <1>2, <1>4, <1>5, <1>6

(* A step after which nobody else is starting the companion.               *)
Apart == /\ flag'[Companion] = flag[Companion] /\ token'[Companion] = token[Companion]
         /\ Live(Companion)' = Live(Companion)
LEMMA CalmStep ==
    ASSUME NEW h \in Handlers, HandlersShaped, CompanionFits, NEW r, Onto(h, r),
           First(r.todo) \notin {29, 30}, Apart
    PROVE  HandlersShaped' /\ CompanionFits'
<1>1. /\ HandlersShaped' /\ At(h)' \notin {29, 30}
      /\ \A g \in Handlers \ {h} : handler'[g] = handler[g] /\ At(g)' = At(g)
    BY OntoShaped
<1>2. \A g \in Handlers : Starting(g)' => g # h /\ Starting(g)
    BY <1>1 DEF Starting
<1>3. \A g \in Handlers : At(g)' = 30 => At(g) = 30 /\ handler'[g] = handler[g]
    BY <1>1
<1> QED BY <1>1, <1>2, <1>3 DEF CompanionFits, Apart

(* A step of a worker, or of nobody.                                       *)
LEMMA StillStep ==
    ASSUME HandlersShaped, CompanionFits, UNCHANGED handler, Apart
    PROVE  HandlersShaped' /\ CompanionFits'
<1>1. HandlersShaped'
    BY DEF HandlersShaped
<1>2. \A g \in Handlers : At(g)' = At(g)
    BY DEF At
<1> QED BY <1>1, <1>2 DEF CompanionFits, Apart, Starting

(* What the steps of a request leave alone.                                *)
MarksSame == UNCHANGED <<disk, flag, token, task>>
LEMMA MarksStay ==
    ASSUME MarksShaped, MarksSame
    PROVE  MarksShaped'
BY DEF MarksShaped, MarksSame

LEMMA WorkersStay ==
    ASSUME UNCHANGED worker
    PROVE  (WorkersShaped => WorkersShaped') /\ \A o : Live(o)' = Live(o)
BY DEF WorkersShaped, Live

(* The request goes on with the rest.                                      *)
LEMMA RestStep ==
    ASSUME NEW h \in Handlers, HandlersShaped, CompanionFits, handler[h].todo # <<>>,
           At(h) \notin {28, 29}, Continue(h, Rest(h)), Apart
    PROVE  HandlersShaped' /\ CompanionFits'
<1>1. Planned(Rest(h)) /\ First(Rest(h)) \notin {29, 30}
    BY NextRest
<1>2. PICK r : Onto(h, r) /\ First(r.todo) = First(Rest(h))
    BY <1>1, ContinueOnto
<1> QED BY <1>1, <1>2, CalmStep

LEMMA PlainSteps ==
    ASSUME NEW h \in Handlers, CInv,
           Track(h) \/ Join(h) \/ Flush(h) \/ Await(h) \/ Configure(h) \/ Enable(h)
    PROVE  CInv'
<1>1. /\ handler[h].todo # <<>> /\ Continue(h, Rest(h)) /\ MarksSame /\ UNCHANGED worker
      /\ Current(h).do \in {"track", "untrack", "join", "flush", "await", "configure", "enable"}
    BY DEF Track, Join, Flush, Await, Configure, Enable, Doing, MarksSame, adapterVars
<1>2. At(h) \notin {28, 29}
    BY <1>1, NextStep DEF CInv
<1>3. Apart
    BY <1>1, WorkersStay DEF Apart, MarksSame
<1>4. MarksShaped' /\ WorkersShaped'
    BY <1>1, MarksStay, WorkersStay DEF CInv
<1>5. HandlersShaped' /\ CompanionFits'
    BY <1>1, <1>2, <1>3, RestStep DEF CInv
<1> QED BY <1>4, <1>5 DEF CInv

LEMMA UnsaveKeeps ==
    ASSUME NEW h \in Handlers, CInv, Unsave(h)
    PROVE  CInv'
<1>1. /\ handler[h].todo # <<>> /\ Continue(h, Rest(h)) /\ UNCHANGED <<flag, token, task, worker>>
      /\ Current(h).do = "unsave"
    BY DEF Unsave, Doing, adapterVars
<1>2. At(h) \notin {28, 29} /\ handler[h] \in Recorded
    BY <1>1, NextStep DEF CInv
<1>3. disk' \in [on : Toggles, hidden : BOOLEAN]
  <2>1. [on |-> handler[h].old, hidden |-> handler[h].hides] \in [on : Toggles, hidden : BOOLEAN]
      BY <1>2 DEF Recorded
  <2> QED BY <2>1 DEF Unsave, CInv, MarksShaped
<1>4. Apart
    BY <1>1, WorkersStay DEF Apart
<1>5. MarksShaped' /\ WorkersShaped'
    BY <1>1, <1>3, WorkersStay DEF CInv, MarksShaped
<1>6. HandlersShaped' /\ CompanionFits'
    BY <1>1, <1>2, <1>4, RestStep DEF CInv
<1> QED BY <1>5, <1>6 DEF CInv

(* A stop clears the mark of the others, and not that of the companion.    *)
LEMMA StoppedKeeps ==
    ASSUME NEW h \in Handlers, CInv, Stopped(h)
    PROVE  CInv'
<1>1. /\ handler[h].todo # <<>> /\ Continue(h, Rest(h)) /\ UNCHANGED <<disk, token, task, worker>>
      /\ Current(h).do = "stopped"
      /\ flag' = [flag EXCEPT ![Current(h).who] = @ /\ Current(h).who = Companion]
    BY DEF Stopped, Doing
<1>2. At(h) \notin {28, 29} /\ Current(h).who \in Adapters
    BY <1>1, NextStep DEF CInv, Steps
<1>3. flag \in [Adapters -> BOOLEAN]
    BY DEF CInv, MarksShaped
<1>4. flag' \in [Adapters -> BOOLEAN] /\ flag'[Companion] = flag[Companion]
  <2>1. CASE Current(h).who = Companion
      BY <1>1, <1>2, <1>3, <2>1
  <2>2. CASE Current(h).who # Companion
      BY <1>1, <1>2, <1>3, <2>2
  <2> QED BY <2>1, <2>2
<1>5. Apart
    BY <1>1, <1>4, WorkersStay DEF Apart
<1>6. MarksShaped' /\ WorkersShaped'
    BY <1>1, <1>4, WorkersStay DEF CInv, MarksShaped
<1>7. HandlersShaped' /\ CompanionFits'
    BY <1>1, <1>2, <1>5, RestStep DEF CInv
<1> QED BY <1>6, <1>7 DEF CInv

LEMMA MarkKeeps ==
    ASSUME NEW h \in Handlers, CInv, Mark(h)
    PROVE  CInv'
<1>1. /\ handler[h].todo # <<>> /\ UNCHANGED <<flag, token, task, worker>>
      /\ Current(h).do = "mark"
      /\ Continue(h, Rest(h)) \/ (handler' = [handler EXCEPT ![h] = Idle] /\ UNCHANGED disk)
      /\ UNCHANGED disk \/ disk' = [disk EXCEPT !.on["lms"] = TRUE]
    BY DEF Mark, Doing, adapterVars
<1>2. At(h) \notin {28, 29}
    BY <1>1, NextStep DEF CInv
<1>3. disk' \in [on : Toggles, hidden : BOOLEAN]
  <2>1. disk \in [on : Toggles, hidden : BOOLEAN]
      BY DEF CInv, MarksShaped
  <2>2. [disk.on EXCEPT !["lms"] = TRUE] \in Toggles
      BY <2>1 DEF Toggles
  <2>3. [disk EXCEPT !.on = [disk.on EXCEPT !["lms"] = TRUE]] \in [on : Toggles, hidden : BOOLEAN]
      BY <2>1, <2>2
  <2>4. [disk EXCEPT !.on["lms"] = TRUE] = [disk EXCEPT !.on = [disk.on EXCEPT !["lms"] = TRUE]]
      BY <2>1
  <2> QED BY <1>1, <2>1, <2>3, <2>4
<1>4. Apart
    BY <1>1, WorkersStay DEF Apart
<1>5. MarksShaped' /\ WorkersShaped'
    BY <1>1, <1>3, WorkersStay DEF CInv, MarksShaped
<1>6. CASE Continue(h, Rest(h))
    BY <1>1, <1>2, <1>4, <1>5, <1>6, RestStep DEF CInv
<1>7. CASE handler' = [handler EXCEPT ![h] = Idle]
  <2>1. Idle \in Recorded /\ Idle.todo = <<>>
      BY IdleRecorded
  <2>2. Onto(h, Idle) /\ First(Idle.todo) \notin {29, 30}
      BY <1>7, <2>1, PlannedLists DEF Onto
  <2>3. HandlersShaped' /\ CompanionFits'
      BY <1>4, <2>2, CalmStep DEF CInv
  <2> QED BY <1>5, <2>3 DEF CInv
<1> QED BY <1>1, <1>6, <1>7

LEMMA CancelKeeps ==
    ASSUME NEW h \in Handlers, CInv, Cancel(h)
    PROVE  CInv'
<1> DEFINE o == Current(h).who
<1>1. /\ handler[h].todo # <<>> /\ UNCHANGED <<disk, flag, token, worker>>
      /\ Current(h).do = "cancel"
      /\ task' = [task EXCEPT ![o] = NoToken]
      /\ handler' = [handler EXCEPT ![h].join = task[o], ![h].todo = Rest(h)]
    BY DEF Cancel, Doing
<1>2. At(h) \notin {28, 29} /\ handler[h] \in Recorded /\ o \in Observers
    BY <1>1, NextStep DEF CInv, Observers, Main
<1>3. Planned(Rest(h)) /\ First(Rest(h)) \notin {29, 30}
    BY <1>1, <1>2, NextRest DEF CInv
<1>4. task \in [Observers -> Nat]
    BY DEF CInv, MarksShaped
<1>5. task' \in [Observers -> Nat] /\ task[o] \in Nat
    BY <1>1, <1>2, <1>4 DEF NoToken
<1> DEFINE r == [handler[h] EXCEPT !.join = task[o], !.todo = Rest(h)]
<1>6. r \in Recorded /\ r.todo = Rest(h)
    BY <1>2, <1>3, <1>5 DEF Recorded, Planned
<1>7. handler' = [handler EXCEPT ![h] = r]
    BY <1>1 DEF CInv, HandlersShaped
<1> HIDE DEF r
<1>8. Onto(h, r)
    BY <1>3, <1>6, <1>7 DEF Onto
<1>9. Apart
    BY <1>1, WorkersStay DEF Apart
<1>10. MarksShaped' /\ WorkersShaped'
    BY <1>1, <1>5, WorkersStay DEF CInv, MarksShaped
<1>11. HandlersShaped' /\ CompanionFits'
    BY <1>3, <1>6, <1>8, <1>9, CalmStep DEF CInv
<1> QED BY <1>10, <1>11 DEF CInv

(* What a toggle or a roll-back asks for is put before the rest.           *)
LEMMA Prepended ==
    ASSUME NEW h \in Handlers, HandlersShaped, handler[h].todo # <<>>, At(h) \notin {28, 29},
           NEW f, Planned(f), First(f) \notin {29, 30}
    PROVE  Planned(f \o Rest(h)) /\ First(f \o Rest(h)) \notin {29, 30}
<1>1. Planned(Rest(h)) /\ First(Rest(h)) \notin {29, 30}
    BY NextRest
<1> QED BY <1>1, PlannedJoined

LEMMA RestoreKeeps ==
    ASSUME NEW h \in Handlers, CInv, Restore(h)
    PROVE  CInv'
<1> DEFINE p == Current(h).who
<1> DEFINE f == GroupOf(p, handler[h].old[p])
<1>1. /\ handler[h].todo # <<>> /\ MarksSame /\ UNCHANGED worker
      /\ Current(h).do = "restore" /\ Continue(h, f \o Rest(h))
    BY DEF Restore, Doing, adapterVars, MarksSame, GroupOf
<1>2. At(h) \notin {28, 29} /\ handler[h] \in Recorded /\ p \in Providers
    BY <1>1, NextStep DEF CInv, Providers
<1>3. handler[h].old[p] \in BOOLEAN
    BY <1>2 DEF Recorded, Toggles
<1>4. Planned(f) /\ First(f) \notin {29, 30}
    BY <1>2, <1>3, PlannedLists
<1> HIDE DEF f
<1>5. Planned(f \o Rest(h)) /\ First(f \o Rest(h)) \notin {29, 30}
    BY <1>1, <1>2, <1>4, Prepended DEF CInv
<1>6. PICK r : Onto(h, r) /\ First(r.todo) = First(f \o Rest(h))
    BY <1>1, <1>5, ContinueOnto DEF CInv
<1>7. Apart
    BY <1>1, WorkersStay DEF Apart, MarksSame
<1>8. MarksShaped' /\ WorkersShaped'
    BY <1>1, MarksStay, WorkersStay DEF CInv
<1>9. HandlersShaped' /\ CompanionFits'
    BY <1>5, <1>6, <1>7, CalmStep DEF CInv
<1> QED BY <1>8, <1>9 DEF CInv

LEMMA ToggleKeeps ==
    ASSUME NEW h \in Handlers, CInv, Toggle(h)
    PROVE  CInv'
<1> DEFINE p == Current(h).who
<1> DEFINE on == handler[h].new[p]
<1> DEFINE f == IF ~on THEN StopGroup(p)
                ELSE IF p = "lms" /\ server = NoServer THEN <<>> ELSE StartGroup(p)
<1> DEFINE s == f \o Rest(h)
<1>1. /\ handler[h].todo # <<>> /\ MarksSame /\ UNCHANGED worker
      /\ Current(h).do = "toggle"
      /\ handler' = [handler EXCEPT ![h] =
            IF s = <<>> THEN Idle
            ELSE [handler[h] EXCEPT !.todo = s, !.applied = Append(@, p)]]
    BY DEF Toggle, Doing, adapterVars, MarksSame
<1>2. At(h) \notin {28, 29} /\ handler[h] \in Recorded /\ p \in Providers
    BY <1>1, NextStep DEF CInv, Providers
<1>3. on \in BOOLEAN
    BY <1>2 DEF Recorded, Toggles
<1>4. f \in {<<>>, GroupOf(p, on)}
    BY <1>3 DEF GroupOf
<1>5. Planned(f) /\ First(f) \notin {29, 30}
    BY <1>2, <1>3, <1>4, PlannedLists
<1> HIDE DEF f
<1>6. Planned(s) /\ First(s) \notin {29, 30}
    BY <1>1, <1>2, <1>5, Prepended DEF CInv
<1> HIDE DEF s
<1> DEFINE r == IF s = <<>> THEN Idle ELSE [handler[h] EXCEPT !.todo = s, !.applied = Append(@, p)]
<1>7. r \in Recorded /\ r.todo = s
  <2>1. CASE s = <<>>
    <3>1. r = Idle
        BY Zenon, <2>1
    <3> HIDE DEF r
    <3> QED BY <2>1, <3>1, IdleRecorded
  <2>2. CASE s # <<>>
    <3> DEFINE q == Append(handler[h].applied, p)
    <3>1. q \in Seq(Providers) /\ s \in Seq(Steps)
        BY <1>2, <1>6 DEF Recorded, Planned
    <3>2. r = [handler[h] EXCEPT !.todo = s, !.applied = q]
        BY Zenon, <2>2
    <3> HIDE DEF q, r
    <3> QED BY <1>2, <3>1, <3>2 DEF Recorded
  <2> QED BY <2>1, <2>2
<1>8. handler' = [handler EXCEPT ![h] = r]
    BY <1>1
<1> HIDE DEF r
<1>9. Onto(h, r)
    BY <1>6, <1>7, <1>8 DEF Onto
<1>10. Apart
    BY <1>1, WorkersStay DEF Apart, MarksSame
<1>11. MarksShaped' /\ WorkersShaped'
    BY <1>1, MarksStay, WorkersStay DEF CInv
<1>12. HandlersShaped' /\ CompanionFits'
    BY <1>6, <1>7, <1>9, <1>10, CalmStep DEF CInv
<1> QED BY <1>11, <1>12 DEF CInv

(* A fresh token: for the poller it matters to nobody here; for the        *)
(* companion it is this start that has the mark.                           *)
LEMMA FreshTokenKeeps ==
    ASSUME NEW h \in Handlers, CInv, FreshToken(h)
    PROVE  CInv'
<1> DEFINE o == Current(h).who
<1> DEFINE n == token[o] + 1
<1>1. /\ handler[h].todo # <<>> /\ UNCHANGED <<disk, flag, task, worker>>
      /\ Current(h).do = "token"
      /\ token' = [token EXCEPT ![o] = n]
      /\ handler' = [handler EXCEPT ![h].token = n, ![h].todo = Rest(h)]
    BY DEF FreshToken, Doing
<1>2. /\ handler[h] \in Recorded
      /\ (o = Main /\ At(h) = 25) \/ (o = Companion /\ At(h) = 29)
    BY <1>1, NextStep DEF CInv, Main
<1>3. token \in [Observers -> Nat] /\ o \in Observers
    BY <1>2 DEF CInv, MarksShaped, Observers
<1>4. n \in Nat /\ token' \in [Observers -> Nat] /\ token'[o] = n
    BY <1>1, <1>3
<1> HIDE DEF n
<1>5. Planned(Rest(h))
    BY <1>1, NextRest DEF CInv
<1> DEFINE r == [handler[h] EXCEPT !.token = n, !.todo = Rest(h)]
<1>6. r \in Recorded /\ r.todo = Rest(h) /\ r.token = n
    BY <1>2, <1>4, <1>5 DEF Recorded, Planned
<1>7. handler' = [handler EXCEPT ![h] = r]
    BY <1>1 DEF CInv, HandlersShaped
<1> HIDE DEF r
<1>8. Onto(h, r)
    BY <1>5, <1>6, <1>7 DEF Onto
<1>9. MarksShaped' /\ WorkersShaped' /\ Live(Companion)' = Live(Companion)
    BY <1>1, <1>4, WorkersStay DEF CInv, MarksShaped
<1>10. CASE o = Main
  <2>1. Apart
      BY <1>1, <1>3, <1>9, <1>10 DEF Apart, Main, Companion, Observers
  <2>2. First(Rest(h)) \notin {29, 30}
      BY <1>1, <1>2, <1>10, NextRest DEF CInv, Main, Companion
  <2>3. HandlersShaped' /\ CompanionFits'
      BY <1>6, <1>8, <2>1, <2>2, CalmStep DEF CInv
  <2> QED BY <1>9, <2>3 DEF CInv
<1>11. CASE o = Companion
  <2>1. At(h) = 29
      BY <1>2, <1>11 DEF Main, Companion
  <2>2. flag[Companion] /\ Live(Companion) = {} /\ \A g \in Handlers \ {h} : ~Starting(g)
      BY <2>1 DEF CInv, CompanionFits, Starting
  <2>3. /\ HandlersShaped' /\ handler'[h] = r
        /\ \A g \in Handlers \ {h} : handler'[g] = handler[g] /\ At(g)' = At(g)
      BY <1>8, OntoShaped DEF CInv
  <2>4. \A g \in Handlers \ {h} : ~(Starting(g)') /\ At(g)' # 30
      BY <2>2, <2>3 DEF Starting
  <2>5. handler'[h].token = token'[Companion] /\ flag'[Companion]
      BY <1>1, <1>4, <1>6, <1>11, <2>2, <2>3
  <2>6. CompanionFits'
      BY <1>9, <2>2, <2>4, <2>5 DEF CompanionFits
  <2> QED BY <1>9, <2>3, <2>6 DEF CInv
<1> QED BY <1>2, <1>10, <1>11

(* The workers after one of them has changed.                              *)
LEMMA OneChanges ==
    ASSUME WorkersShaped, NEW o \in Observers, NEW t, NEW w,
           t \in Tokens => "phase" \in DOMAIN w, Becomes(o, t, w)
    PROVE  /\ WorkersShaped'
           /\ \A u \in Observers, v \in Tokens :
                 worker'[u][v] = IF u = o /\ v = t THEN w ELSE worker[u][v]
<1>1. /\ DOMAIN worker = Observers /\ \A u \in Observers : DOMAIN worker[u] = Tokens
      /\ \A u \in Observers, v \in Tokens : "phase" \in DOMAIN worker[u][v]
    BY DEF WorkersShaped
<1> DEFINE x == [worker[o] EXCEPT ![t] = w]
<1>2. DOMAIN x = Tokens /\ \A v \in Tokens : x[v] = IF v = t THEN w ELSE worker[o][v]
    BY <1>1
<1>3. worker' = [worker EXCEPT ![o] = x]
    BY DEF Becomes
<1> HIDE DEF x
<1>4. DOMAIN worker' = Observers /\ \A u \in Observers : worker'[u] = IF u = o THEN x ELSE worker[u]
    BY <1>1, <1>3
<1>5. \A u \in Observers, v \in Tokens :
         worker'[u][v] = IF u = o /\ v = t THEN w ELSE worker[u][v]
    BY <1>2, <1>4
<1>6. \A u \in Observers : DOMAIN worker'[u] = Tokens
    BY <1>1, <1>2, <1>4
<1>7. \A u \in Observers, v \in Tokens : "phase" \in DOMAIN worker'[u][v]
    BY <1>1, <1>5
<1> QED BY <1>4, <1>5, <1>6, <1>7 DEF WorkersShaped

(* The run takes the mark over from the start.                             *)
LEMMA SpawnKeeps ==
    ASSUME NEW h \in Handlers, CInv, Spawn(h)
    PROVE  CInv'
<1> DEFINE o == Current(h).who
<1> DEFINE t == handler[h].token
<1> DEFINE up == IF o = Main THEN "first" ELSE "up"
<1>1. /\ handler[h].todo # <<>> /\ UNCHANGED <<disk, flag, token>>
      /\ Current(h).do = "spawn" /\ Continue(h, Rest(h))
      /\ worker' = [worker EXCEPT ![o][t].phase = up]
      /\ task' = [task EXCEPT ![o] = t]
    BY DEF Spawn, Doing
<1>2. /\ handler[h] \in Recorded
      /\ (o = Main /\ At(h) = 26) \/ (o = Companion /\ At(h) = 30)
    BY <1>1, NextStep DEF CInv, Main
<1>3. task' \in [Observers -> Nat]
    BY <1>1, <1>2 DEF CInv, MarksShaped, Recorded
<1> HIDE DEF up
<1>4. /\ DOMAIN worker = Observers /\ \A u \in Observers : DOMAIN worker[u] = Tokens
      /\ \A u \in Observers, v \in Tokens : "phase" \in DOMAIN worker[u][v]
    BY DEF CInv, WorkersShaped
<1>5. worker' = [worker EXCEPT ![o] = [worker[o] EXCEPT ![t] = [worker[o][t] EXCEPT !.phase = up]]]
    BY <1>1
<1>6. /\ WorkersShaped'
      /\ \A u \in Observers, v \in Tokens : u # o \/ v # t => worker'[u][v] = worker[u][v]
  <2> DEFINE w == [worker[o][t] EXCEPT !.phase = up]
  <2>1. t \in Tokens => "phase" \in DOMAIN w
      BY <1>2, <1>4 DEF Observers
  <2>2. Becomes(o, t, w)
      BY <1>5 DEF Becomes
  <2> HIDE DEF w
  <2>3. o \in Observers /\ WorkersShaped
      BY <1>2 DEF CInv, Observers
  <2>4. /\ WorkersShaped'
        /\ \A u \in Observers, v \in Tokens :
              worker'[u][v] = IF u = o /\ v = t THEN w ELSE worker[u][v]
      BY ONLY <2>1, <2>2, <2>3, OneChanges
  <2>5. ASSUME NEW u \in Observers, NEW v \in Tokens, u # o \/ v # t
        PROVE  worker'[u][v] = worker[u][v]
      BY <2>4, <2>5
  <2> QED BY Zenon, <2>4, <2>5
<1>7. WorkersShaped'
    BY <1>6
<1>8. MarksShaped'
    BY <1>1, <1>3 DEF CInv, MarksShaped
<1>9. CASE o = Main
  <2>1. \A v \in Tokens : worker'[Companion][v] = worker[Companion][v]
      BY <1>6, <1>9 DEF Observers, Main, Companion
  <2>2. Apart
      BY <1>1, <2>1 DEF Apart, Live
  <2>3. At(h) \notin {28, 29}
      BY <1>2
  <2>4. HandlersShaped' /\ CompanionFits'
      BY <1>1, <2>2, <2>3, RestStep DEF CInv
  <2> QED BY <1>7, <1>8, <2>4 DEF CInv
<1>10. CASE o = Companion
  <2>1. At(h) = 30
      BY <1>2, <1>10 DEF Main, Companion
  <2>2. /\ flag[Companion] /\ Live(Companion) = {} /\ t = token[Companion]
        /\ \A g \in Handlers \ {h} : ~Starting(g)
      BY <2>1 DEF CInv, CompanionFits, Starting
  <2>3. \A v \in Tokens \ {t} : worker'[Companion][v] = worker[Companion][v]
      BY <1>6 DEF Observers
  <2>4. Live(Companion)' \subseteq {token[Companion]}
      BY <2>2, <2>3 DEF Live
  <2>5. Planned(Rest(h)) /\ First(Rest(h)) \notin {29, 30}
      BY <1>1, <2>1, NextRest DEF CInv
  <2>6. PICK r : Onto(h, r) /\ First(r.todo) = First(Rest(h))
      BY <1>1, <2>5, ContinueOnto DEF CInv
  <2>7. /\ HandlersShaped' /\ At(h)' \notin {29, 30}
        /\ \A g \in Handlers \ {h} : At(g)' = At(g)
      BY <2>5, <2>6, OntoShaped DEF CInv
  <2>8. \A g \in Handlers : ~(Starting(g)') /\ At(g)' # 30
      BY <2>2, <2>7 DEF Starting
  <2>9. CompanionFits'
      BY <1>1, <2>2, <2>4, <2>8 DEF CompanionFits
  <2> QED BY <1>7, <1>8, <2>7, <2>9 DEF CInv
<1> QED BY <1>2, <1>9, <1>10

(* How many steps the start of a group has.                                *)
LEMMA StartLengths ==
    /\ Len(StartGroup("lms")) = 8 /\ Len(StartGroup(Companion)) = 4
    /\ Len(StartGroup("hqplayer")) = 2
<1>1. Numbered(StartGroup("lms"), 23, 8)
    BY StartLms
<1>2. StartGroup(Companion) = StartOne(Companion)
    BY DEF StartGroup, Companion
<1>3. Numbered(StartOne(Companion), 27, 4) /\ Numbered(StartGroup("hqplayer"), 45, 2)
    BY StartStages
<1>4. \A a, c, n : Numbered(a, c, n) => Len(a) = n
    BY Zenon DEF Numbered
<1> QED BY Zenon, <1>1, <1>2, <1>3, <1>4

(* A start that has failed leaves out all of its group, or takes back what *)
(* was done.                                                               *)
LEMMA FailedOnto ==
    ASSUME NEW h \in Handlers, HandlersShaped, handler[h].todo # <<>>,
           Current(h).do = "claim", Failed(h)
    PROVE  \E r : Onto(h, r) /\ First(r.todo) \notin {29, 30}
<1> DEFINE s == handler[h].todo
<1> DEFINE k == Len(StartGroup(Current(h).who))
<1>1. Planned(s) /\ handler[h] \in Recorded /\ At(h) = First(s)
    BY NextStep
<1>2. <<Current(h).who, At(h)>> \in {<<"lms", 24>>, <<Companion, 28>>, <<"hqplayer", 46>>}
    BY NextStep
<1>3. At(h) = Stage(s[1])
    BY <1>1, PlannedTail
<1>4. k \in 1 .. Len(s) /\ Stage(s[k]) \in {31, 47}
  <2>1. /\ Current(h).who = "lms" => k = 8
        /\ Current(h).who = Companion => k = 4
        /\ Current(h).who = "hqplayer" => k = 2
      BY Zenon, StartLengths
  <2>2. Planned(s) /\ s # <<>>
      BY <1>1
  <2> HIDE DEF k, s
  <2>3. /\ At(h) = 24 => 8 \in 1 .. Len(s) /\ Stage(s[8]) = 31
        /\ At(h) = 28 => 4 \in 1 .. Len(s) /\ Stage(s[4]) = 31
        /\ At(h) = 46 => 2 \in 1 .. Len(s) /\ Stage(s[2]) = 47
      BY ONLY <1>3, <2>2, WholeStart
  <2>4. \/ Current(h).who = "lms" /\ At(h) = 24
        \/ Current(h).who = Companion /\ At(h) = 28
        \/ Current(h).who = "hqplayer" /\ At(h) = 46
      BY Zenon, <1>2
  <2> QED BY Zenon, <2>1, <2>3, <2>4
<1> HIDE DEF k
<1>5. CASE handler[h].back
  <2>1. Planned(Drop(k, s)) /\ First(Drop(k, s)) \notin {29, 30}
      BY <1>1, <1>4, PlannedDrop
  <2>2. Continue(h, Drop(k, s))
      BY <1>5 DEF Failed, k
  <2> QED BY <2>1, <2>2, ContinueOnto
<1>6. CASE ~handler[h].back /\ handler[h].applied # <<>>
  <2> DEFINE b == Rollback(handler[h].applied)
  <2> DEFINE r == [handler[h] EXCEPT !.todo = b, !.back = TRUE]
  <2>1. handler' = [handler EXCEPT ![h].todo = b, ![h].back = TRUE]
      BY <1>6 DEF Failed
  <2>2. Planned(b) /\ First(b) \notin {29, 30}
      BY <1>1, PlannedRollback DEF Recorded
  <2> HIDE DEF b
  <2>3. r \in Recorded /\ r.todo = b
      BY <1>1, <2>2 DEF Recorded, Planned
  <2>4. handler' = [handler EXCEPT ![h] = r]
      BY <2>1 DEF HandlersShaped
  <2> HIDE DEF r
  <2> QED BY <2>2, <2>3, <2>4 DEF Onto
<1>7. CASE ~handler[h].back /\ handler[h].applied = <<>>
  <2>1. handler' = [handler EXCEPT ![h] = Idle]
      BY <1>7 DEF Failed
  <2>2. Onto(h, Idle) /\ First(Idle.todo) \notin {29, 30}
      BY <2>1, IdleRecorded, PlannedLists DEF Onto
  <2> QED BY <2>2
<1> QED BY <1>5, <1>6, <1>7

(* A claim finds the mark, fails, or sets it; in the last case nobody else *)
(* is starting the companion and there is no run.                          *)
LEMMA ClaimFits ==
    ASSUME NEW h \in Handlers, CInv, Claim(h)
    PROVE  CInv'
<1> DEFINE a == Current(h).who
<1> DEFINE s == handler[h].todo
<1> DEFINE k == IF a \in Observers THEN 3 ELSE 1
<1>1. /\ s # <<>> /\ UNCHANGED <<disk, token, task, worker>>
      /\ Current(h).do = "claim"
      /\ \/ Failed(h) /\ UNCHANGED flag
         \/ Continue(h, Drop(k, s)) /\ UNCHANGED flag
         \/ ~flag[a] /\ flag' = [flag EXCEPT ![a] = TRUE] /\ Continue(h, Rest(h))
    BY DEF Claim, Doing
<1>2. Planned(s) /\ At(h) = First(s) /\ a \in Adapters
    BY <1>1, NextStep DEF CInv, Steps
<1>3. \/ a = "lms" /\ At(h) = 24
      \/ a = Companion /\ At(h) = 28
      \/ a = "hqplayer" /\ At(h) = 46
    BY <1>1, NextStep DEF CInv
<1>4. At(h) = Stage(s[1])
    BY <1>1, <1>2, PlannedTail
<1>5. flag \in [Adapters -> BOOLEAN]
    BY DEF CInv, MarksShaped
<1>6. WorkersShaped' /\ Live(Companion)' = Live(Companion)
    BY <1>1, WorkersStay DEF CInv
<1>7. ASSUME UNCHANGED flag, NEW r, Onto(h, r), First(r.todo) \notin {29, 30}
      PROVE  CInv'
  <2>1. Apart /\ MarksShaped'
      BY <1>1, <1>6, <1>7, MarksStay DEF Apart, CInv, MarksSame
  <2> QED BY <1>6, <1>7, <2>1, CalmStep DEF CInv
<1>8. CASE Failed(h) /\ UNCHANGED flag
  <2>1. PICK r : Onto(h, r) /\ First(r.todo) \notin {29, 30}
      BY <1>1, <1>8, FailedOnto DEF CInv
  <2> QED BY <1>7, <1>8, <2>1
<1>9. CASE Continue(h, Drop(k, s)) /\ UNCHANGED flag
  <2>1. k \in 1 .. Len(s) /\ Stage(s[k]) \in {26, 30, 46}
    <3>1. a \in Observers <=> a # "hqplayer"
        BY <1>3 DEF Observers, Main, Companion
    <3> QED BY <1>1, <1>2, <1>3, <1>4, <3>1, WholeStart DEF Companion
  <2> HIDE DEF k
  <2>2. Planned(Drop(k, s)) /\ First(Drop(k, s)) \notin {29, 30}
      BY <1>2, <2>1, PlannedDrop
  <2>3. PICK r : Onto(h, r) /\ First(r.todo) = First(Drop(k, s))
      BY <1>9, <2>2, ContinueOnto DEF CInv
  <2>4. First(r.todo) \notin {29, 30}
      BY <2>2, <2>3
  <2> QED BY <1>7, <1>9, <2>3, <2>4
<1>10. CASE ~flag[a] /\ flag' = [flag EXCEPT ![a] = TRUE] /\ Continue(h, Rest(h))
  <2>1. flag' \in [Adapters -> BOOLEAN] /\ flag'[a] /\ (a # Companion => flag'[Companion] = flag[Companion])
    <3>1. Companion \in Adapters
        BY DEF Adapters, Observers
    <3> QED BY <1>2, <1>5, <1>10, <3>1
  <2>2. MarksShaped'
      BY <1>1, <2>1 DEF CInv, MarksShaped
  <2>3. CASE a # Companion
    <3>1. At(h) \notin {28, 29} /\ Apart
        BY <1>1, <1>3, <1>6, <2>1, <2>3 DEF Apart
    <3>2. HandlersShaped' /\ CompanionFits'
        BY <1>1, <1>10, <3>1, RestStep DEF CInv
    <3> QED BY <1>6, <2>2, <3>2 DEF CInv
  <2>4. CASE a = Companion
    <3>1. At(h) = 28
        BY <1>3, <2>4 DEF Companion
    <3>2. Live(Companion) = {} /\ \A g \in Handlers : ~Starting(g)
        BY <1>10, <2>4 DEF CInv, CompanionFits
    <3>3. Planned(Rest(h)) /\ First(Rest(h)) = 29
        BY <1>1, <3>1, NextRest DEF CInv
    <3>4. PICK r : Onto(h, r) /\ First(r.todo) = First(Rest(h))
        BY <1>10, <3>3, ContinueOnto DEF CInv
    <3>5. /\ HandlersShaped' /\ At(h)' = 29
          /\ \A g \in Handlers \ {h} : At(g)' = At(g)
        BY <3>3, <3>4, OntoShaped DEF CInv
    <3>6. \A g \in Handlers \ {h} : ~(Starting(g)')
        BY <3>2, <3>5 DEF Starting
    <3>7. \A g \in Handlers : At(g)' # 30
        BY <3>5, <3>6 DEF Starting
    <3>8. CompanionFits'
        BY <1>6, <2>1, <2>4, <3>2, <3>6, <3>7 DEF CompanionFits
    <3> QED BY <1>6, <2>2, <3>5, <3>8 DEF CInv
  <2> QED BY <2>3, <2>4
<1> QED BY <1>1, <1>8, <1>9, <1>10

(* A request that begins starts nothing yet.                               *)
LEMMA PostsKeep ==
    ASSUME NEW h \in Handlers, CInv, PostSettings(h) \/ PostConfigure(h)
    PROVE  CInv'
<1>1. UNCHANGED <<flag, token, task, worker>>
    BY DEF PostSettings, PostConfigure, adapterVars
<1>2. Apart /\ WorkersShaped'
    BY <1>1, WorkersStay DEF Apart, CInv
<1>3. ASSUME NEW r, Onto(h, r), First(r.todo) \notin {29, 30}, (disk \in [on : Toggles, hidden : BOOLEAN])'
      PROVE  CInv'
  <2>1. MarksShaped'
      BY <1>1, <1>3 DEF CInv, MarksShaped
  <2>2. HandlersShaped' /\ CompanionFits'
      BY <1>2, <1>3, CalmStep DEF CInv
  <2> QED BY <1>2, <2>1, <2>2 DEF CInv
<1>4. disk \in [on : Toggles, hidden : BOOLEAN]
    BY DEF CInv, MarksShaped
<1>5. CASE PostSettings(h)
  <2>1. PICK new \in Toggles :
           /\ disk' = [disk EXCEPT !.on = new]
           /\ handler' = [handler EXCEPT ![h] =
                 IF new = disk.on THEN Idle
                 ELSE [Idle EXCEPT !.todo = Changes(disk.on, new), !.old = disk.on,
                                   !.new = new, !.hides = disk.hidden]]
      BY Zenon, <1>5 DEF PostSettings, Toggles
  <2>2. disk' \in [on : Toggles, hidden : BOOLEAN]
      BY <1>4, <2>1
  <2> DEFINE c == Changes(disk.on, new)
  <2>3. Planned(c) /\ First(c) \notin {29, 30}
      BY <1>4, PlannedChanges
  <2> HIDE DEF c
  <2>4. CASE new = disk.on
    <3>1. handler' = [handler EXCEPT ![h] = Idle]
        BY Zenon, <2>1, <2>4
    <3>2. Onto(h, Idle) /\ First(Idle.todo) \notin {29, 30}
        BY <3>1, IdleRecorded, PlannedLists DEF Onto
    <3> QED BY <1>3, <2>2, <3>2
  <2>5. CASE new # disk.on
    <3> DEFINE r == [Idle EXCEPT !.todo = c, !.old = disk.on, !.new = new, !.hides = disk.hidden]
    <3>1. r \in Recorded /\ r.todo = c
        BY <1>4, <2>3, IdleRecorded DEF Recorded, Planned
    <3>2. handler' = [handler EXCEPT ![h] = r]
        BY Zenon, <2>1, <2>5 DEF c
    <3> HIDE DEF r
    <3>3. Onto(h, r) /\ First(r.todo) \notin {29, 30}
        BY <2>3, <3>1, <3>2 DEF Onto
    <3> QED BY <1>3, <2>2, <3>3
  <2> QED BY <2>4, <2>5
<1>6. CASE PostConfigure(h)
  <2> DEFINE c == Configuration
  <2>1. Planned(c) /\ First(c) \notin {29, 30}
      BY PlannedLists
  <2>2. disk' = disk /\ handler' = [handler EXCEPT ![h] = [Idle EXCEPT !.todo = c]]
      BY <1>6 DEF PostConfigure
  <2> HIDE DEF c
  <2> DEFINE r == [Idle EXCEPT !.todo = c]
  <2>3. r \in Recorded /\ r.todo = c
      BY <2>1, IdleRecorded DEF Recorded, Planned
  <2> HIDE DEF r
  <2>4. Onto(h, r) /\ First(r.todo) \notin {29, 30}
      BY <2>1, <2>2, <2>3 DEF Onto, r
  <2> QED BY <1>3, <1>4, <2>2, <2>4
<1> QED BY <1>5, <1>6

(* Other steps that do not concern the companion.                          *)
LEMMA OtherSteps ==
    ASSUME CInv, PostHide \/ Commit \/ Deliver \/ UNCHANGED vars
    PROVE  CInv'
<1>1. UNCHANGED <<flag, token, task, worker, handler>>
    BY DEF PostHide, Commit, Deliver, vars, adapterVars
<1>2. disk' \in [on : Toggles, hidden : BOOLEAN]
  <2>1. disk \in [on : Toggles, hidden : BOOLEAN]
      BY DEF CInv, MarksShaped
  <2>2. disk' = disk \/ disk' = [disk EXCEPT !.hidden = TRUE]
      BY DEF PostHide, Commit, Deliver, vars
  <2> QED BY <2>1, <2>2
<1>3. Apart /\ WorkersShaped'
    BY <1>1, WorkersStay DEF Apart, CInv
<1>4. MarksShaped'
    BY <1>1, <1>2 DEF CInv, MarksShaped
<1>5. HandlersShaped' /\ CompanionFits'
    BY <1>1, <1>3, StillStep DEF CInv
<1> QED BY <1>3, <1>4, <1>5 DEF CInv

(* A worker that goes on: a run of the companion stays what it is.         *)
LEMMA GoesOn ==
    ASSUME CInv, NEW o \in Observers, NEW t \in Tokens, NEW w, "phase" \in DOMAIN w,
           Becomes(o, t, w), w.phase # "none" <=> worker[o][t].phase # "none",
           UNCHANGED <<disk, token, task, handler>>,
           flag' \in [Adapters -> BOOLEAN], flag'[Companion] = flag[Companion]
    PROVE  CInv'
<1>1. /\ WorkersShaped'
      /\ \A u \in Observers, v \in Tokens :
            worker'[u][v] = IF u = o /\ v = t THEN w ELSE worker[u][v]
    BY OneChanges DEF CInv
<1>2. Live(Companion)' = Live(Companion)
    BY <1>1 DEF Live, Observers
<1>3. Apart /\ MarksShaped'
    BY <1>2 DEF Apart, CInv, MarksShaped
<1>4. HandlersShaped' /\ CompanionFits'
    BY <1>3, StillStep DEF CInv
<1> QED BY <1>1, <1>3, <1>4 DEF CInv

(* The changes of a worker that leave it alive, or absent.                 *)
LEMMA Adjusted ==
    ASSUME NEW w, "phase" \in DOMAIN w
    PROVE  /\ \A x : /\ "phase" \in DOMAIN [w EXCEPT !.poll = x]
                     /\ [w EXCEPT !.poll = x].phase = w.phase
           /\ \A x : /\ "phase" \in DOMAIN [w EXCEPT !.out = x]
                     /\ [w EXCEPT !.out = x].phase = w.phase
           /\ \A x : /\ "phase" \in DOMAIN [w EXCEPT !.phase = x]
                     /\ [w EXCEPT !.phase = x].phase = x
OBVIOUS

(* A worker that polls, submits or fails.                                  *)
LEMMA ObservingKeeps ==
    ASSUME CInv, NEW o \in Observers, NEW t \in Tokens,
           \/ Poll(o, t) \/ Answer(o, t) \/ PollFails(o, t) \/ Submit(o, t) \/ Connected(o, t)
           \/ o = Main /\ RunFails(t)
    PROVE  CInv'
<1> DEFINE v == worker[o][t]
<1>1. "phase" \in DOMAIN v /\ flag \in [Adapters -> BOOLEAN]
    BY DEF CInv, WorkersShaped, MarksShaped
<1>2. UNCHANGED <<disk, token, task, handler>>
    BY DEF Poll, Answer, PollFails, RunFails, Submit, Connected, WorkerStep
<1>3. ASSUME NEW w, Becomes(o, t, w), "phase" \in DOMAIN w, w.phase # "none" <=> v.phase # "none",
             flag' \in [Adapters -> BOOLEAN], flag'[Companion] = flag[Companion]
      PROVE  CInv'
    BY <1>2, <1>3, GoesOn
<1>4. Companion \in Adapters
    BY DEF Adapters, Observers
<1>5. CASE Poll(o, t)
  <2> DEFINE w == [v EXCEPT !.poll = server, !.phase = IF @ = "first" THEN "connecting" ELSE @]
  <2>1. Becomes(o, t, w)
      BY <1>5 DEF Poll, Becomes
  <2>2. "phase" \in DOMAIN w /\ (w.phase # "none" <=> v.phase # "none")
      BY <1>1
  <2>3. UNCHANGED flag
      BY <1>5 DEF Poll
  <2> HIDE DEF w
  <2> QED BY <1>1, <1>3, <2>1, <2>2, <2>3
<1>6. CASE Answer(o, t)
  <2>1. PICK rest : worker' = [worker EXCEPT ![o][t].poll = NoServer,
                         ![o][t].out = <<[type |-> "zone", server |-> v.poll]>> \o rest]
      BY Zenon, <1>6 DEF Answer
  <2> DEFINE q == <<[type |-> "zone", server |-> v.poll]>> \o rest
  <2>2. worker' = [worker EXCEPT ![o][t].poll = NoServer, ![o][t].out = q]
      BY <2>1
  <2> HIDE DEF q
  <2> DEFINE w == [v EXCEPT !.poll = NoServer, !.out = q]
  <2>3. Becomes(o, t, w)
      BY <2>2 DEF Becomes
  <2>4. "phase" \in DOMAIN w /\ (w.phase # "none" <=> v.phase # "none")
      BY <1>1
  <2>5. UNCHANGED flag
      BY <1>6 DEF Answer
  <2> HIDE DEF w
  <2> QED BY <1>1, <1>3, <2>3, <2>4, <2>5
<1>7. CASE PollFails(o, t)
  <2> DEFINE w == [v EXCEPT !.poll = NoServer, !.phase = IF @ = "connecting" THEN "first" ELSE @]
  <2>1. Becomes(o, t, w)
      BY <1>7 DEF PollFails, Becomes
  <2>2. "phase" \in DOMAIN w /\ (w.phase # "none" <=> v.phase # "none")
      BY <1>1
  <2>3. UNCHANGED flag
      BY <1>7 DEF PollFails
  <2> HIDE DEF w
  <2> QED BY <1>1, <1>3, <2>1, <2>2, <2>3
<1>8. CASE Submit(o, t)
  <2> DEFINE w == [v EXCEPT !.out = Tail(@)]
  <2>1. Becomes(o, t, w)
      BY <1>8 DEF Submit, Becomes
  <2>2. "phase" \in DOMAIN w /\ (w.phase # "none" <=> v.phase # "none")
      BY <1>1
  <2>3. UNCHANGED flag
      BY <1>8 DEF Submit
  <2> HIDE DEF w
  <2> QED BY <1>1, <1>3, <2>1, <2>2, <2>3
<1>9. CASE Connected(o, t)
  <2> DEFINE w == [v EXCEPT !.phase = "up"]
  <2>1. Becomes(o, t, w) /\ v.phase = "connecting" /\ flag' = [flag EXCEPT ![o] = TRUE]
      BY <1>9 DEF Connected, Becomes
  <2>2. "phase" \in DOMAIN w /\ (w.phase # "none" <=> v.phase # "none")
      BY <1>1, <2>1
  <2> HIDE DEF w
  <2>3. flag' \in [Adapters -> BOOLEAN] /\ flag'[Companion] = flag[Companion]
    <3>1. CASE o = Companion
      <4>1. t \in Live(Companion)
          BY <2>1, <3>1 DEF Live
      <4>2. flag[Companion]
          BY <4>1 DEF CInv, CompanionFits
      <4> QED BY <1>1, <1>4, <2>1, <3>1, <4>2
    <3>2. CASE o # Companion
        BY <1>1, <1>4, <2>1, <3>2
    <3> QED BY <3>1, <3>2
  <2>4. Becomes(o, t, w)
      BY <2>1
  <2> QED BY ONLY <1>3, <2>2, <2>3, <2>4
<1>10. CASE o = Main /\ RunFails(t)
  <2> DEFINE w == [v EXCEPT !.poll = NoServer, !.phase = "first"]
  <2>1. Becomes(o, t, w) /\ v.phase = "up" /\ flag' = [flag EXCEPT ![Main] = FALSE]
    <3>1. /\ worker' = [worker EXCEPT ![o][t].poll = NoServer, ![o][t].phase = "first"]
          /\ v.phase = "up" /\ flag' = [flag EXCEPT ![Main] = FALSE]
        BY Zenon, <1>10 DEF RunFails
    <3>2. Becomes(o, t, w)
        BY <3>1 DEF Becomes
    <3> QED BY Zenon, <3>1, <3>2
  <2>2. "phase" \in DOMAIN w /\ (w.phase # "none" <=> v.phase # "none")
      BY <1>1, <2>1
  <2> HIDE DEF w
  <2>3. flag' \in [Adapters -> BOOLEAN] /\ flag'[Companion] = flag[Companion]
    <3>1. Main # Companion
        BY DEF Main, Companion
    <3> QED BY <1>1, <1>4, <2>1, <3>1
  <2> QED BY <1>3, <2>1, <2>2, <2>3
<1> QED BY <1>5, <1>6, <1>7, <1>8, <1>9, <1>10

(* A run that ends takes the mark with it, and there is no other.          *)
LEMMA EndedKeeps ==
    ASSUME CInv, NEW o \in Observers, NEW t \in Tokens, EndsCancelled(o, t) \/ EndsLagged(o, t)
    PROVE  CInv'
<1>1. /\ UNCHANGED <<disk, token, task, handler>> /\ t \in Live(o)
      /\ Becomes(o, t, Absent)
      /\ flag' = [flag EXCEPT ![o] = @ /\ o # Companion]
    BY DEF EndsCancelled, EndsLagged, Ended, WorkerStep, Becomes
<1>2. "phase" \in DOMAIN Absent /\ Absent.phase = "none"
    BY DEF Absent
<1>3. /\ WorkersShaped'
      /\ \A u \in Observers, v \in Tokens :
            worker'[u][v] = IF u = o /\ v = t THEN Absent ELSE worker[u][v]
    BY <1>1, <1>2, OneChanges DEF CInv
<1>4. flag \in [Adapters -> BOOLEAN] /\ Companion \in Observers /\ Companion \in Adapters
    BY DEF CInv, MarksShaped, Observers, Adapters
<1>5. flag' \in [Adapters -> BOOLEAN] /\ (o # Companion => flag'[Companion] = flag[Companion])
    BY <1>1, <1>4
<1>6. MarksShaped'
    BY <1>1, <1>5 DEF CInv, MarksShaped
<1>7. CASE o # Companion
  <2>1. Live(Companion)' = Live(Companion)
      BY <1>3, <1>4, <1>7 DEF Live
  <2>2. Apart
      BY <1>1, <1>5, <1>7, <2>1 DEF Apart
  <2>3. HandlersShaped' /\ CompanionFits'
      BY <1>1, <2>2, StillStep DEF CInv
  <2> QED BY <1>3, <1>6, <2>3 DEF CInv
<1>8. CASE o = Companion
  <2>1. Live(Companion) = {t} /\ \A g \in Handlers : ~Starting(g)
      BY <1>1, <1>8 DEF CInv, CompanionFits
  <2>2. Live(Companion)' = {}
      BY <1>2, <1>3, <1>4, <1>8, <2>1 DEF Live
  <2>3. HandlersShaped' /\ \A g \in Handlers : At(g)' = At(g)
      BY <1>1 DEF CInv, HandlersShaped, At
  <2>4. \A g \in Handlers : ~(Starting(g)') /\ At(g)' # 30
      BY <2>1, <2>3 DEF Starting
  <2>5. CompanionFits'
      BY <2>2, <2>4 DEF CompanionFits
  <2> QED BY <1>3, <1>6, <2>3, <2>5 DEF CInv
<1> QED BY <1>7, <1>8

(* Every step keeps it, and it holds at the beginning.                     *)
LEMMA CompanionInvariance ==
    ASSUME CInv, [Next]_vars
    PROVE  CInv'
<1>1. ASSUME NEW h \in Handlers, PostSettings(h) \/ PostConfigure(h) PROVE CInv'
    BY <1>1, PostsKeep
<1>2. ASSUME NEW h \in Handlers, Serve(h) PROVE CInv'
    BY <1>2, PlainSteps, UnsaveKeeps, StoppedKeeps, MarkKeeps, CancelKeeps, RestoreKeeps, ToggleKeeps,
       FreshTokenKeeps, SpawnKeeps, ClaimFits DEF Serve
<1>3. ASSUME NEW o \in Observers, NEW t \in Tokens, Work(o, t) PROVE CInv'
    BY <1>3, ObservingKeeps, EndedKeeps DEF Work
<1>4. ASSUME PostHide \/ Commit \/ Deliver \/ UNCHANGED vars PROVE CInv'
    BY <1>4, OtherSteps
<1> QED BY <1>1, <1>2, <1>3, <1>4 DEF Next

LEMMA CompanionInitially == Init => CInv
<1> SUFFICES ASSUME Init PROVE CInv
    OBVIOUS
<1>1. /\ disk = [on |-> [p \in Providers |-> FALSE], hidden |-> FALSE]
      /\ flag = [a \in Adapters |-> FALSE]
      /\ token = [o \in Observers |-> NoToken] /\ task = [o \in Observers |-> NoToken]
      /\ worker = [o \in Observers |-> [t \in Tokens |-> Absent]]
      /\ handler = [h \in Handlers |-> Idle]
    BY DEF Init
<1>2. MarksShaped
  <2>1. [p \in Providers |-> FALSE] \in Toggles
      BY DEF Toggles
  <2> QED BY <1>1, <2>1 DEF MarksShaped, NoToken
<1>3. Absent.phase = "none" /\ "phase" \in DOMAIN Absent
    BY DEF Absent
<1>4. WorkersShaped /\ Live(Companion) = {}
    BY <1>1, <1>3 DEF WorkersShaped, Live, Observers
<1>5. HandlersShaped
    BY <1>1, IdleRecorded, PlannedLists DEF HandlersShaped
<1>6. \A h \in Handlers : At(h) = 0
    BY <1>1, IdleRecorded DEF At
<1>7. CompanionFits
    BY <1>4, <1>6 DEF CompanionFits, Starting
<1> QED BY <1>2, <1>4, <1>5, <1>7 DEF CInv

(* However requests overlap, a run of the companion that is alive has the  *)
(* current token, so that the next stop cancels it: its mark is set by the *)
(* start and cleared by the run alone, so one start at most lies between   *)
(* the claim and the spawn, and none while there is a run.                 *)
THEOREM CompanionIsReachable == Spec => []CompanionReachable
<1>1. CInv /\ [Next]_vars => CInv'
    BY CompanionInvariance
<1>2. CInv => CompanionReachable
    BY DEF CInv, CompanionFits, CompanionReachable
<1> QED BY <1>1, <1>2, CompanionInitially, PTL DEF Spec
===============================================================================
