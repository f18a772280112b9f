-------------------------- MODULE MqttPublisher_proofs --------------------------
(***************************************************************************)
(* That a quiet publisher has brought the broker to what the aggregator    *)
(* and the knob store hold, for any number of zones, knobs and documents,  *)
(* any capacities, and as many changes, faults and tasks as one likes.     *)
(*                                                                         *)
(* The argument follows each topic from the cache to the broker: the last  *)
(* queued message about it says what the cache holds, and where none is    *)
(* queued the broker has it (BrokerFollows).  What the cache does not yet  *)
(* hold of a zone is told by an event that is due (BusTells, ZoneServed);  *)
(* what is gone was missed, is told by an event, or its last word is its   *)
(* retraction (Retracted).  The first half of the module says what         *)
(* publishing does to one task record; the second goes through the steps.  *)
(***************************************************************************)
EXTENDS MqttPublisher, FiniteSetTheorems, SequenceTheorems, TLAPS

(* What the messages and the events are.                                   *)
Payloads == Docs \cup KnobDocs \cup {Absent, "online"}
Messages == [topic : Topics \cup {Subscription}, payload : Payloads]
Events == [kind : {"discovered", "removed", "updated", "volume"}, zones : SUBSET Zones,
           doc : Docs \cup {Absent}]
Tasks == [running : BOOLEAN, cancelled : BOOLEAN, stuck : BOOLEAN, connected : BOOLEAN,
          cache : [Topics -> Payloads \cup {Unknown}], requests : Seq(Messages),
          slugs : SUBSET Zones, known : SUBSET Knobs, bus : Seq(Events), lagged : BOOLEAN,
          missed : SUBSET (Zones \cup Knobs)]
Typed ==
    /\ zones \in [Zones -> Docs \cup {Absent}]
    /\ knobs \in [Knobs -> Docs \cup {Absent}]
    /\ session \in BOOLEAN
    /\ retained \in [Topics -> Payloads \cup {"offline"}]
    /\ task \in Tasks

(* The last request about the topic t, if there is any, says v; and, with  *)
(* the broker r, it is v that the broker comes to retain.                  *)
About(s, t) == \E i \in 1 .. Len(s) : s[i].topic = t
LastSays(s, t, v) ==
    \A i \in 1 .. Len(s) :
        s[i].topic = t /\ (\A j \in 1 .. Len(s) : j > i => s[j].topic # t) => s[i].payload = v
Becomes(s, r, t, v) == LastSays(s, t, v) /\ (~About(s, t) => r[t] = v)

(* The cache knows what was sent last.                                     *)
CacheKnows(p) ==
    \A t \in Topics : p.cache[t] # Unknown => LastSays(p.requests, t, p.cache[t])
BrokerFollows(p, r) ==
    \A t \in Topics : p.cache[t] # Unknown => Becomes(p.requests, r, t, p.cache[t])

(* The events that are due tell of each zone what it has come to.          *)
Tells(e, z, kinds) == z \in e.zones /\ e.kind \in kinds
DueAfter(b, n, z, kinds) == \E i \in 1 .. Len(b) : i > n /\ Tells(b[i], z, kinds)
Kinds == {"discovered", "removed", "updated", "volume"}
BusTells(b, z) ==
    /\ zones[z] # Absent =>
          \A i \in 1 .. Len(b) :
              /\ Tells(b[i], z, {"removed"}) => DueAfter(b, i, z, {"discovered"})
              /\ Tells(b[i], z, {"discovered"}) =>
                    b[i].doc = zones[z] \/ DueAfter(b, i, z, Kinds)
    /\ zones[z] = Absent =>
          \A i \in 1 .. Len(b) :
              Tells(b[i], z, Kinds) => b[i].kind = "removed" \/ DueAfter(b, i, z, {"removed"})

(* A zone is routed and its documents are sent, or an event is due.        *)
ZoneServed(p, z) ==
    zones[z] # Absent =>
        /\ z \in p.slugs \/ DueAfter(p.bus, 0, z, {"discovered"})
        /\ p.cache[z] = zones[z] \/ DueAfter(p.bus, 0, z, Kinds)

(* What is gone: the last word about it is its retraction.                 *)
Excused(p, x) == x \in p.missed \/ DueAfter(p.bus, 0, x, {"removed"})
GoneOnes(p) == (Zones \ Present) \cup (Knobs \ p.known)
Retracts(p) == \A x \in GoneOnes(p) : Excused(p, x) \/ LastSays(p.requests, x, Absent)
Retracted(p, r) == \A x \in GoneOnes(p) : Excused(p, x) \/ Becomes(p.requests, r, x, Absent)

Sound(p) ==
    /\ CacheKnows(p)
    /\ \A z \in Zones : BusTells(p.bus, z)
    /\ Retracts(p)
Served(p, r) ==
    /\ BrokerFollows(p, r)
    /\ p.cache[Availability] = "online"
    /\ ~p.lagged => \A z \in Zones : ZoneServed(p, z)
    /\ Retracted(p, r)

(* A task that is not live has nothing to say and hears nothing.           *)
Resting(p) ==
    p.stuck \/ ~p.running =>
        p.requests = <<>> /\ p.bus = <<>> /\ p.cache = [t \in Topics |-> Unknown]

IInv == Typed /\ Sound(task) /\ Resting(task) /\ (Serving => Served(task, retained))
-------------------------------------------------------------------------------
(* Sequences of messages *)

(* A finite set is listed with all its members.                            *)
LEMMA Listed ==
    ASSUME NEW S, IsFiniteSet(S)
    PROVE  /\ SetToSeq(S) \in Seq(S)
           /\ \A x \in S : \E i \in 1 .. Len(SetToSeq(S)) : SetToSeq(S)[i] = x
<1> DEFINE n == Cardinality(S)
           f == SetToSeq(S)
<1>1. n \in Nat /\ ExistsBijection(1 .. n, S)
    BY FS_CardinalityType
<1>2. \E g \in [1 .. n -> S] : IsInjective(g)
    BY <1>1 DEF ExistsBijection, Bijection, Injection
<1>3. f \in [1 .. n -> S] /\ IsInjective(f)
    BY <1>2 DEF SetToSeq
<1>4. f \in Injection(1 .. n, S)
    BY <1>3 DEF Injection
<1>5. Cardinality(1 .. n) = n
    BY <1>1, FS_Interval
<1>6. f \in Surjection(1 .. n, S)
    BY <1>4, <1>5, FS_Injection
<1>7. f \in Seq(S) /\ Len(f) = n
    BY <1>1, <1>3
<1> QED BY <1>6, <1>7 DEF Surjection

(* What is appended has the last word on its topics, and on no others.     *)
LEMMA Appended ==
    ASSUME NEW s \in Seq(Messages), NEW e \in Seq(Messages),
           \A i, j \in 1 .. Len(e) : e[i].topic = e[j].topic => e[i] = e[j]
    PROVE  /\ s \o e \in Seq(Messages)
           /\ \A i \in 1 .. Len(e) :
                 About(s \o e, e[i].topic) /\ LastSays(s \o e, e[i].topic, e[i].payload)
           /\ \A t : ~About(e, t) => /\ About(s \o e, t) <=> About(s, t)
                                     /\ \A v : LastSays(s, t, v) => LastSays(s \o e, t, v)
<1> DEFINE c == s \o e
           l == Len(s)
<1>1. /\ c \in Seq(Messages) /\ Len(c) = l + Len(e) /\ l \in Nat /\ Len(e) \in Nat
      /\ \A i \in 1 .. l : c[i] = s[i]
      /\ \A i \in 1 .. Len(c) : i > l => c[i] = e[i - l]
    BY ConcatProperties
<1>2. \A i \in 1 .. Len(e) : l + i \in 1 .. Len(c) /\ c[l + i] = e[i]
    BY <1>1
<1>3. \A i \in 1 .. l : i \in 1 .. Len(c)
    BY <1>1
<1>4. \A i \in 1 .. Len(c) : i \in 1 .. l \/ (i > l /\ i - l \in 1 .. Len(e))
    BY <1>1
<1> HIDE DEF c, l
<1>5. ASSUME NEW i \in 1 .. Len(e)
      PROVE  About(c, e[i].topic) /\ LastSays(c, e[i].topic, e[i].payload)
  <2>1. About(c, e[i].topic)
      BY <1>2 DEF About
  <2>2. ASSUME NEW k \in 1 .. Len(c), c[k].topic = e[i].topic,
               \A j \in 1 .. Len(c) : j > k => c[j].topic # e[i].topic
        PROVE  c[k].payload = e[i].payload
    <3>1. ~(l + i > k)
        BY <1>2, <2>2
    <3>2. k > l /\ k - l \in 1 .. Len(e)
        BY <1>1, <1>4, <3>1
    <3>3. c[k] = e[k - l]
        BY <1>1, <3>2
    <3> QED BY <2>2, <3>2, <3>3
  <2> QED BY <2>1, <2>2 DEF LastSays
<1>6. ASSUME NEW t, ~About(e, t)
      PROVE  /\ About(c, t) <=> About(s, t)
             /\ \A v : LastSays(s, t, v) => LastSays(c, t, v)
  <2>1. \A k \in 1 .. Len(c) : c[k].topic = t => k \in 1 .. l
      BY <1>1, <1>4, <1>6 DEF About
  <2>2. About(c, t) <=> About(s, t)
      BY <1>1, <1>3, <2>1 DEF About, l
  <2>3. ASSUME NEW v, LastSays(s, t, v), NEW k \in 1 .. Len(c), c[k].topic = t,
               \A j \in 1 .. Len(c) : j > k => c[j].topic # t
        PROVE  c[k].payload = v
    <3>1. k \in 1 .. l /\ s[k].topic = t /\ \A j \in 1 .. l : j > k => s[j].topic # t
        BY <1>1, <1>3, <2>1, <2>3
    <3>2. s[k].payload = v
        BY <2>3, <3>1 DEF LastSays, l
    <3> QED BY <1>1, <3>1, <3>2
  <2> QED BY <2>2, <2>3 DEF LastSays
<1> QED BY <1>1, <1>5, <1>6 DEF c

(* What remains when the first request has been sent.                      *)
LEMMA Sent ==
    ASSUME NEW s \in Seq(Messages), s # <<>>, NEW r, NEW q, NEW t, NEW v,
           q[t] = IF Head(s).topic = t THEN Head(s).payload ELSE r[t]
    PROVE  /\ Tail(s) \in Seq(Messages)
           /\ LastSays(s, t, v) => LastSays(Tail(s), t, v)
           /\ Becomes(s, r, t, v) => Becomes(Tail(s), q, t, v)
<1> DEFINE c == Tail(s)
<1>1. /\ c \in Seq(Messages) /\ Len(s) \in Nat /\ Len(c) = Len(s) - 1 /\ Head(s) = s[1]
      /\ 1 \in 1 .. Len(s)
      /\ \A i \in 1 .. Len(c) : i + 1 \in 1 .. Len(s) /\ c[i] = s[i + 1]
    BY HeadTailProperties, EmptySeq
<1>2. \A i \in 1 .. Len(s) : i # 1 => i - 1 \in 1 .. Len(c) /\ c[i - 1] = s[i]
    BY <1>1
<1> HIDE DEF c
<1>3. ASSUME LastSays(s, t, v), NEW k \in 1 .. Len(c), c[k].topic = t,
             \A j \in 1 .. Len(c) : j > k => c[j].topic # t
      PROVE  c[k].payload = v
  <2>1. ASSUME NEW j \in 1 .. Len(s), j > k + 1
        PROVE  s[j].topic # t
    <3>1. j # 1 /\ j - 1 > k
        BY <2>1
    <3> QED BY <1>2, <1>3, <3>1
  <2>2. s[k + 1].topic = t /\ k + 1 \in 1 .. Len(s)
      BY <1>1, <1>3
  <2>3. s[k + 1].payload = v
      BY <1>3, <2>1, <2>2 DEF LastSays
  <2> QED BY <1>1, <2>3
<1>4. LastSays(s, t, v) => LastSays(c, t, v)
    BY <1>3 DEF LastSays
<1>5. ASSUME Becomes(s, r, t, v), ~About(c, t)
      PROVE  q[t] = v
  <2>1. \A i \in 1 .. Len(s) : s[i].topic = t => i = 1
      BY <1>2, <1>5 DEF About
  <2>2. CASE s[1].topic = t
    <3>1. \A j \in 1 .. Len(s) : j > 1 => s[j].topic # t
        BY <2>1
    <3>2. s[1].payload = v
        BY <1>1, <1>5, <2>2, <3>1 DEF Becomes, LastSays
    <3> QED BY <1>1, <2>2, <3>2
  <2>3. CASE s[1].topic # t
    <3>1. ~About(s, t)
        BY <2>1, <2>3 DEF About
    <3> QED BY <1>1, <1>5, <2>3, <3>1 DEF Becomes
  <2> QED BY <2>2, <2>3
<1> QED BY <1>1, <1>4, <1>5 DEF Becomes, c
-------------------------------------------------------------------------------
(* What a handler sends *)

(* A task that waits for ever has forgotten everything.                    *)
Waits(q) ==
    /\ q \in Tasks /\ q.stuck /\ q.running
    /\ q.requests = <<>> /\ q.bus = <<>> /\ q.cache = [t \in Topics |-> Unknown]

(* Of the topic t nothing is sent, or v is sent last.                      *)
Kept(p, q, t) ==
    /\ q.cache[t] = p.cache[t]
    /\ About(q.requests, t) <=> About(p.requests, t)
    /\ \A v : LastSays(p.requests, t, v) => LastSays(q.requests, t, v)
Told(q, t, v) == q.cache[t] = v /\ About(q.requests, t) /\ LastSays(q.requests, t, v)

(* Messages of D are sent, and the cache has them all.                     *)
Same(p, q) ==
    /\ q.running = p.running /\ q.cancelled = p.cancelled /\ q.stuck = p.stuck
    /\ q.connected = p.connected /\ q.bus = p.bus /\ q.lagged = p.lagged /\ q.missed = p.missed
Sends(p, q, D) ==
    /\ Same(p, q)
    /\ \A t \in Topics : Kept(p, q, t) \/ \E m \in D : m.topic = t /\ Told(q, t, m.payload)
Carries(q, D) == \A m \in D : q.cache[m.topic] = m.payload

(* Retained messages on different topics.                                  *)
Plain(D) ==
    /\ IsFiniteSet(D) /\ D \subseteq Messages
    /\ \A m \in D : m.topic \in Topics
    /\ \A m, n \in D : m.topic = n.topic => m = n

(* A message queued takes its room, or the task waits.                     *)
LEMMA Waiting ==
    ASSUME NEW p \in Tasks
    PROVE  Waits(Stuck(p))
<1> DEFINE q == Stuck(p)
<1>1. ASSUME NEW r,
             r = [NoTask EXCEPT !.running = TRUE, !.cancelled = p.cancelled, !.stuck = TRUE]
      PROVE  r = [running |-> TRUE, cancelled |-> p.cancelled, stuck |-> TRUE, connected |-> FALSE,
                  cache |-> [t \in Topics |-> Unknown], requests |-> <<>>,
                  slugs |-> {}, known |-> {}, bus |-> <<>>, lagged |-> FALSE, missed |-> {}]
    BY <1>1 DEF NoTask
<1>2. q = [running |-> TRUE, cancelled |-> p.cancelled, stuck |-> TRUE, connected |-> FALSE,
           cache |-> [t \in Topics |-> Unknown], requests |-> <<>>,
           slugs |-> {}, known |-> {}, bus |-> <<>>, lagged |-> FALSE, missed |-> {}]
    BY <1>1 DEF Stuck
<1>3. p.cancelled \in BOOLEAN
    BY DEF Tasks
<1>4. <<>> \in Seq(Messages) /\ <<>> \in Seq(Events)
    OBVIOUS
<1>5. [t \in Topics |-> Unknown] \in [Topics -> Payloads \cup {Unknown}]
    OBVIOUS
<1>6. q \in Tasks
    BY <1>2, <1>3, <1>4, <1>5 DEF Tasks
<1> QED BY <1>2, <1>6 DEF Waits

Takes(p, q, e, c) ==
    \/ Waits(q)
    \/ /\ ~p.stuck /\ q \in Tasks /\ Same(p, q) /\ q.slugs = p.slugs /\ q.known = p.known
       /\ q.requests = p.requests \o e /\ q.cache = c

(* Some messages are queued together.                                    *)
LEMMA Queued ==
    ASSUME NEW p \in Tasks, NEW e \in Seq(Messages), NEW c \in [Topics -> Payloads \cup {Unknown}],
           NEW q, q = Queue(p, e, c)
    PROVE  Takes(p, q, e, c)
<1>1. CASE p.stuck \/ Len(p.requests \o e) > Capacity
    BY <1>1, Waiting DEF Queue, Takes
<1>2. CASE ~p.stuck /\ ~(Len(p.requests \o e) > Capacity)
  <2>1. q = [p EXCEPT !.requests = p.requests \o e, !.cache = c]
      BY <1>2 DEF Queue
  <2>2. p.requests \o e \in Seq(Messages)
    <3>1. p.requests \in Seq(Messages)
        BY DEF Tasks
    <3> QED BY <3>1, ConcatProperties
  <2>3. q \in Tasks
      BY <2>1, <2>2 DEF Tasks
  <2>4. /\ Same(p, q) /\ q.slugs = p.slugs /\ q.known = p.known
        /\ q.requests = p.requests \o e /\ q.cache = c
      BY <2>1 DEF Tasks, Same
  <2> QED BY <1>2, <2>3, <2>4 DEF Takes
<1> QED BY <1>1, <1>2

(* What publishing some messages does.                                     *)
LEMMA Published ==
    ASSUME NEW p \in Tasks, CacheKnows(p), NEW D, Plain(D), NEW q, q = Publish(p, D)
    PROVE  \/ Waits(q)
           \/ /\ ~p.stuck /\ q \in Tasks /\ q.slugs = p.slugs /\ q.known = p.known
              /\ Sends(p, q, D) /\ Carries(q, D)
<1> DEFINE S == Fresh(p, D)
           e == SetToSeq(S)
           c == Recorded(p.cache, S)
<1>1. S \subseteq D /\ IsFiniteSet(S) /\ \A m \in D : m \in S <=> p.cache[m.topic] # m.payload
  <2>1. S \subseteq D /\ \A m \in D : m \in S <=> p.cache[m.topic] # m.payload
      BY DEF Fresh
  <2> QED BY <2>1, FS_Subset DEF Plain
<1>2. /\ \A m \in S : m \in Messages /\ m.topic \in Topics /\ m.payload \in Payloads
      /\ \A m, n \in S : m.topic = n.topic => m = n
    BY <1>1 DEF Plain, Messages
<1>3. /\ e \in Seq(S)
      /\ \A m \in S : \E i \in 1 .. Len(e) : e[i] = m
    BY <1>1, Listed
<1>4. e \in Seq(Messages) /\ \A i \in 1 .. Len(e) : e[i] \in S
    BY <1>2, <1>3
<1>5. q = Queue(p, e, c)
    BY DEF Publish
<1> HIDE DEF S, e
<1>6. /\ c \in [Topics -> Payloads \cup {Unknown}]
      /\ \A m \in S : c[m.topic] = m.payload
      /\ \A t \in Topics : (\A m \in S : m.topic # t) => c[t] = p.cache[t]
  <2>1. ASSUME NEW m \in S
        PROVE  c[m.topic] = m.payload
    <3>1. PICK n : n \in S /\ n.topic = m.topic /\ n = CHOOSE k \in S : k.topic = m.topic
        OBVIOUS
    <3>2. n = m
        BY <1>2, <3>1
    <3> QED BY <1>2, <3>1, <3>2 DEF Recorded
  <2>2. \A t \in Topics : (\A m \in S : m.topic # t) => c[t] = p.cache[t]
      BY DEF Recorded
  <2>3. c = [t \in Topics |-> c[t]]
      BY DEF Recorded
  <2>4. ASSUME NEW t \in Topics
        PROVE  c[t] \in Payloads \cup {Unknown}
    <3>1. CASE \E m \in S : m.topic = t
        BY <1>2, <2>1, <3>1
    <3>2. CASE \A m \in S : m.topic # t
      <4>1. p.cache[t] \in Payloads \cup {Unknown}
          BY DEF Tasks
      <4> QED BY <2>2, <3>2, <4>1
    <3> QED BY <3>1, <3>2
  <2> HIDE DEF c
  <2> QED BY <2>1, <2>2, <2>3, <2>4
<1> HIDE DEF c
<1>7. SUFFICES ASSUME ~p.stuck, q \in Tasks, Same(p, q), q.slugs = p.slugs, q.known = p.known,
                      q.requests = p.requests \o e, q.cache = c
               PROVE  Sends(p, q, D) /\ Carries(q, D)
    BY <1>4, <1>5, <1>6, Queued DEF Takes
<1>8. p.requests \in Seq(Messages)
    BY DEF Tasks
<1>9. /\ \A i \in 1 .. Len(e) :
            About(q.requests, e[i].topic) /\ LastSays(q.requests, e[i].topic, e[i].payload)
      /\ \A t : ~About(e, t) => /\ About(q.requests, t) <=> About(p.requests, t)
                                /\ \A v : LastSays(p.requests, t, v) => LastSays(q.requests, t, v)
  <2>1. \A i, j \in 1 .. Len(e) : e[i].topic = e[j].topic => e[i] = e[j]
      BY <1>2, <1>4
  <2>2. /\ \A i \in 1 .. Len(e) :
              /\ About(p.requests \o e, e[i].topic)
              /\ LastSays(p.requests \o e, e[i].topic, e[i].payload)
        /\ \A t : ~About(e, t) => 
              /\ About(p.requests \o e, t) <=> About(p.requests, t)
              /\ \A v : LastSays(p.requests, t, v) => LastSays(p.requests \o e, t, v)
      BY Zenon, <1>4, <1>8, <2>1, Appended
  <2> QED BY Zenon, <1>7, <2>2
<1>10. ASSUME NEW m \in S
       PROVE  Told(q, m.topic, m.payload)
  <2>1. PICK i \in 1 .. Len(e) : e[i] = m
      BY <1>3
  <2> QED BY <1>6, <1>7, <1>9, <2>1 DEF Told
<1>11. ASSUME NEW t \in Topics, \A m \in S : m.topic # t
       PROVE  Kept(p, q, t)
  <2>1. ~About(e, t)
      BY <1>4, <1>11 DEF About
  <2> QED BY <1>6, <1>7, <1>9, <1>11, <2>1 DEF Kept
<1>12. Carries(q, D)
  <2> SUFFICES ASSUME NEW m \in D PROVE q.cache[m.topic] = m.payload
      BY DEF Carries
  <2>1. CASE m \in S
      BY <1>10, <2>1 DEF Told
  <2>2. CASE m \notin S
    <3>1. p.cache[m.topic] = m.payload /\ m.topic \in Topics
        BY <1>1, <2>2 DEF Plain
    <3>2. \A n \in S : n.topic # m.topic
        BY <1>1, <2>2 DEF Plain
    <3> QED BY <1>11, <3>1, <3>2 DEF Kept
  <2> QED BY <2>1, <2>2
<1>13. ASSUME NEW t \in Topics
       PROVE  Kept(p, q, t) \/ \E m \in D : m.topic = t /\ Told(q, t, m.payload)
    BY <1>1, <1>10, <1>11
<1> QED BY <1>7, <1>12, <1>13 DEF Sends

(* What follows from what is sent.                                         *)
LEMMA Sending ==
    ASSUME NEW p, NEW q, NEW D, CacheKnows(p), Sends(p, q, D)
    PROVE  /\ CacheKnows(q)
           /\ \A r : BrokerFollows(p, r) => BrokerFollows(q, r)
           /\ \A t \in Topics : About(p.requests, t) => About(q.requests, t)
           /\ \A t \in Topics : ~About(q.requests, t) => q.cache[t] = p.cache[t]
<1>1. \A t \in Topics : Kept(p, q, t) \/ \E v : Told(q, t, v)
    BY DEF Sends
<1>2. CacheKnows(q)
    BY <1>1 DEF CacheKnows, Kept, Told
<1>3. ASSUME NEW r, BrokerFollows(p, r)
      PROVE  BrokerFollows(q, r)
    BY <1>1, <1>3 DEF BrokerFollows, Becomes, Kept, Told
<1>4. \A t \in Topics : About(p.requests, t) => About(q.requests, t)
    BY <1>1 DEF Kept, Told
<1>5. \A t \in Topics : ~About(q.requests, t) => q.cache[t] = p.cache[t]
    BY <1>1 DEF Kept, Told
<1> QED BY <1>2, <1>3, <1>4, <1>5

(* One handler sends after the other.                                      *)
LEMMA SendsBoth ==
    ASSUME NEW p, NEW q, NEW s, NEW D, NEW E, Sends(p, q, D), Sends(q, s, E)
    PROVE  Sends(p, s, D \cup E)
<1>1. Same(p, s)
    BY DEF Sends, Same
<1>2. ASSUME NEW t \in Topics
      PROVE  Kept(p, s, t) \/ \E m \in D \cup E : m.topic = t /\ Told(s, t, m.payload)
  <2>1. CASE \E m \in E : m.topic = t /\ Told(s, t, m.payload)
      BY <2>1
  <2>2. CASE Kept(q, s, t) /\ Kept(p, q, t)
      BY <2>2 DEF Kept
  <2>3. CASE Kept(q, s, t) /\ \E m \in D : m.topic = t /\ Told(q, t, m.payload)
      BY <2>3 DEF Kept, Told
  <2> QED BY <2>1, <2>2, <2>3 DEF Sends
<1> QED BY <1>1, <1>2 DEF Sends

(* The cache still has what the earlier handler sent.                    *)
LEMMA CarriesBoth ==
    ASSUME NEW q, NEW s, NEW D, NEW E, Carries(q, D), Sends(q, s, E), Carries(s, E),
           \A m \in D : m.topic \in Topics /\ \A n \in E : m.topic = n.topic => m = n
    PROVE  Carries(s, D \cup E)
BY DEF Carries, Sends, Kept, Told

(* What is said of some zones or knobs.                                    *)
LEMMA EachPlain ==
    ASSUME NEW d, DOMAIN d \subseteq Topics, IsFiniteSet(DOMAIN d),
           \A x \in DOMAIN d : d[x] \in Payloads
    PROVE  /\ Plain(Each(d))
           /\ \A m \in Each(d) : m.topic \in DOMAIN d /\ m.payload = d[m.topic]
           /\ \A x \in DOMAIN d : Message(x, d[x]) \in Each(d)
           /\ \A x, v : Message(x, v).topic = x /\ Message(x, v).payload = v
<1>1. \A x, v : Message(x, v).topic = x /\ Message(x, v).payload = v
    BY DEF Message
<1>2. \A m \in Each(d) : m.topic \in DOMAIN d /\ m.payload = d[m.topic]
    BY <1>1 DEF Each
<1>3. \A x \in DOMAIN d : Message(x, d[x]) \in Each(d)
    BY DEF Each
<1>4. IsFiniteSet(Each(d))
  <2> DEFINE f == [x \in DOMAIN d |-> Message(x, d[x])]
  <2>1. f \in Surjection(DOMAIN d, Each(d))
      BY DEF Surjection, Each
  <2> QED BY <2>1, FS_Surjection
<1>5. Each(d) \subseteq Messages
    BY DEF Each, Message, Messages
<1>6. \A m, n \in Each(d) : m.topic = n.topic => m = n
    BY <1>1 DEF Each
<1> QED BY <1>1, <1>2, <1>3, <1>4, <1>5, <1>6 DEF Plain

(* What an announcement of the knobs says.                                 *)
KnobMessages(p) == Each(Gone(p.known \ Paired)) \cup Each([k \in Paired |-> KnobDoc(k)])

(* Each is about a knob: its documents, or its retraction.               *)
LEMMA KnobMessagesPlain ==
    ASSUME Typed, NEW p \in Tasks
    PROVE  /\ Plain(Each(Gone(p.known \ Paired))) /\ Plain(Each([k \in Paired |-> KnobDoc(k)]))
           /\ \A m \in KnobMessages(p) :
                 /\ m.topic \in Knobs /\ m.topic \in p.known \cup Paired
                 /\ m.payload = IF m.topic \in Paired THEN KnobDoc(m.topic) ELSE Absent
           /\ \A k \in Paired : Message(k, KnobDoc(k)) \in KnobMessages(p)
           /\ \A k \in p.known \ Paired : Message(k, Absent) \in KnobMessages(p)
           /\ \A x, v : Message(x, v).topic = x /\ Message(x, v).payload = v
<1> DEFINE g == Gone(p.known \ Paired)
           d == [k \in Paired |-> KnobDoc(k)]
<1>1. p.known \subseteq Knobs /\ Paired \subseteq Knobs /\ Knobs \subseteq Topics /\ IsFiniteSet(Knobs)
    BY PublisherAssumption DEF Tasks, Paired, Topics
<1>2. DOMAIN g = p.known \ Paired /\ (\A x \in DOMAIN g : g[x] = Absent) /\ Absent \in Payloads
    BY DEF Gone, Payloads
<1>3. DOMAIN d = Paired /\ \A k \in Paired : d[k] = KnobDoc(k) /\ KnobDoc(k) \in Payloads
    BY DEF Payloads, KnobDocs, KnobDoc, Typed, Paired, Present
<1>4. IsFiniteSet(DOMAIN g) /\ IsFiniteSet(DOMAIN d)
    BY <1>1, <1>2, <1>3, FS_Subset
<1> HIDE DEF g, d
<1>5. /\ Plain(Each(g))
      /\ \A m \in Each(g) : m.topic \in DOMAIN g /\ m.payload = g[m.topic]
      /\ \A x \in DOMAIN g : Message(x, g[x]) \in Each(g)
      /\ \A x, v : Message(x, v).topic = x /\ Message(x, v).payload = v
    BY <1>1, <1>2, <1>4, EachPlain
<1>6. /\ Plain(Each(d))
      /\ \A m \in Each(d) : m.topic \in DOMAIN d /\ m.payload = d[m.topic]
      /\ \A x \in DOMAIN d : Message(x, d[x]) \in Each(d)
    BY <1>1, <1>3, <1>4, EachPlain
<1>7. KnobMessages(p) = Each(g) \cup Each(d)
    BY DEF KnobMessages, g, d
<1>8. Plain(Each(Gone(p.known \ Paired))) /\ Plain(Each([k \in Paired |-> KnobDoc(k)]))
    BY <1>5, <1>6 DEF g, d
<1> QED BY <1>1, <1>2, <1>3, <1>5, <1>6, <1>7, <1>8

(* A task that knows other knobs or zones has sent nothing.                *)
LEMMA Learnt ==
    ASSUME NEW p \in Tasks, CacheKnows(p), NEW q \in Tasks, Same(p, q),
           q.cache = p.cache, q.requests = p.requests
    PROVE  CacheKnows(q) /\ Sends(p, q, {})
BY DEF CacheKnows, Sends, Kept

(* announce_all_knobs sends these, and knows the paired ones after it.   *)
LEMMA KnobsAnnounced ==
    ASSUME Typed, NEW p \in Tasks, CacheKnows(p), NEW q, q = AnnounceKnobs(p)
    PROVE  \/ Waits(q)
           \/ /\ ~p.stuck /\ q \in Tasks /\ q.slugs = p.slugs /\ q.known = Paired
              /\ Sends(p, q, KnobMessages(p)) /\ Carries(q, KnobMessages(p)) /\ CacheKnows(q)
<1> DEFINE a == [p EXCEPT !.known = Paired]
           G == Each(Gone(p.known \ Paired))
           K == Each([k \in Paired |-> KnobDoc(k)])
           gone == Publish(a, G)
           shown == Publish(gone, K)
<1>1. q = Queue(shown, <<Subscribe>>, shown.cache)
    BY DEF AnnounceKnobs
<1>2. Plain(G) /\ Plain(K) /\ KnobMessages(p) = G \cup K
    BY KnobMessagesPlain DEF KnobMessages
<1>3. \A m \in G : m.topic \in Topics /\ \A n \in K : m.topic = n.topic => m = n
  <2>1. \A m \in G : m.topic \in Topics /\ m.topic \in p.known \ Paired
      BY <1>2 DEF Plain, Each, Gone, Message
  <2>2. \A n \in K : n.topic \in Paired
      BY DEF Each, Message
  <2> QED BY <2>1, <2>2
<1>4. /\ a \in Tasks /\ Same(p, a) /\ a.cache = p.cache /\ a.requests = p.requests
      /\ a.slugs = p.slugs /\ a.known = Paired /\ a.stuck = p.stuck
  <2>1. Paired \in SUBSET Knobs
      BY DEF Paired
  <2> QED BY <2>1 DEF Tasks, Same
<1>5. CacheKnows(a) /\ Sends(p, a, {})
    BY <1>4, Learnt
<1> HIDE DEF a, G, K
<1>6. \/ Waits(gone)
      \/ /\ ~a.stuck /\ gone \in Tasks /\ gone.slugs = a.slugs /\ gone.known = a.known
         /\ Sends(a, gone, G) /\ Carries(gone, G) /\ CacheKnows(gone)
    BY <1>2, <1>4, <1>5, Published, Sending
<1>7. gone \in Tasks /\ CacheKnows(gone)
  <2>1. CASE Waits(gone)
      BY <2>1 DEF Waits, CacheKnows
  <2> QED BY <1>6, <2>1
<1> HIDE DEF gone
<1>8. \/ Waits(shown)
      \/ /\ ~gone.stuck /\ shown \in Tasks /\ shown.slugs = gone.slugs /\ shown.known = gone.known
         /\ Sends(gone, shown, K) /\ Carries(shown, K) /\ CacheKnows(shown)
    BY <1>2, <1>7, Published, Sending
<1>9. shown \in Tasks /\ CacheKnows(shown)
  <2>1. CASE Waits(shown)
      BY <2>1 DEF Waits, CacheKnows
  <2> QED BY <1>8, <2>1
<1> HIDE DEF shown
<1>10. /\ Subscribe \in Messages /\ Subscribe.topic \notin Topics
       /\ <<Subscribe>> \in Seq(Messages) /\ Len(<<Subscribe>>) = 1 /\ <<Subscribe>>[1] = Subscribe
    BY PublisherAssumption DEF Subscribe, Message, Messages, Payloads, Topics
<1>11. \/ Waits(q)
       \/ /\ ~shown.stuck /\ q \in Tasks /\ Same(shown, q) /\ q.slugs = shown.slugs
          /\ q.known = shown.known
          /\ q.requests = shown.requests \o <<Subscribe>> /\ q.cache = shown.cache
  <2>1. shown.cache \in [Topics -> Payloads \cup {Unknown}]
      BY <1>9 DEF Tasks
  <2>2. Takes(shown, q, <<Subscribe>>, shown.cache)
      BY Zenon, <1>1, <1>9, <1>10, <2>1, Queued
  <2> QED BY <2>2 DEF Takes
<1>12. CASE ~Waits(q)
  <2>1. Sends(shown, q, {})
    <3>1. \A t \in Topics : ~About(<<Subscribe>>, t)
        BY <1>10 DEF About
    <3>2. shown.requests \in Seq(Messages)
        BY <1>9 DEF Tasks
    <3>3. \A i, j \in 1 .. Len(<<Subscribe>>) : <<Subscribe>>[i] = <<Subscribe>>[j]
        BY <1>10
    <3>4. \A t : ~About(<<Subscribe>>, t) => 
              /\ About(shown.requests \o <<Subscribe>>, t) <=> About(shown.requests, t)
              /\ \A v : LastSays(shown.requests, t, v) =>
                        LastSays(shown.requests \o <<Subscribe>>, t, v)
        BY ZenonT(40), <1>10, <3>2, <3>3, Appended
    <3> QED BY <1>11, <1>12, <3>1, <3>4 DEF Sends, Kept
  <2>2. ~Waits(shown) /\ ~Waits(gone)
      BY <1>8, <1>11, <1>12 DEF Waits
  <2>3. Sends(p, gone, {} \cup G)
      BY <1>5, <1>6, <2>2, SendsBoth
  <2>4. Sends(p, shown, ({} \cup G) \cup K)
      BY <1>8, <2>2, <2>3, SendsBoth
  <2>5. Sends(p, q, (({} \cup G) \cup K) \cup {})
      BY <2>1, <2>4, SendsBoth
  <2>6. (({} \cup G) \cup K) \cup {} = KnobMessages(p)
      BY <1>2
  <2>7. Carries(shown, G \cup K)
      BY <1>3, <1>6, <1>8, <2>2, CarriesBoth
  <2>8. Carries(q, G \cup K)
      BY <1>11, <1>12, <2>7 DEF Carries
  <2>9. CacheKnows(q)
      BY <1>9, <2>1, Sending
  <2> QED BY <1>2, <1>4, <1>6, <1>8, <1>11, <1>12, <2>2, <2>5, <2>6, <2>8, <2>9
<1> QED BY <1>12

(* What an announcement of the zones says.                                 *)
Online == Message(Availability, "online")
ZoneMessages(S) == Each(Shown(S))

(* Each is the document of a zone that is there.                         *)
LEMMA ZoneMessagesPlain ==
    ASSUME Typed, NEW S, S \subseteq Present
    PROVE  /\ Plain(ZoneMessages(S))
           /\ \A m \in ZoneMessages(S) : m.topic \in S /\ m.payload = zones[m.topic]
           /\ \A z \in S : Message(z, zones[z]) \in ZoneMessages(S)
           /\ \A x, v : Message(x, v).topic = x /\ Message(x, v).payload = v
<1> DEFINE d == Shown(S)
<1>1. S \subseteq Topics /\ IsFiniteSet(S)
  <2>1. S \subseteq Zones
      BY DEF Present
  <2> QED BY <2>1, PublisherAssumption, FS_Subset DEF Topics
<1>2. DOMAIN d = S /\ \A z \in S : d[z] = zones[z] /\ zones[z] \in Payloads
    BY DEF Shown, Payloads, Typed, Present
<1> HIDE DEF d
<1>3. /\ Plain(Each(d))
      /\ \A m \in Each(d) : m.topic \in DOMAIN d /\ m.payload = d[m.topic]
      /\ \A x \in DOMAIN d : Message(x, d[x]) \in Each(d)
      /\ \A x, v : Message(x, v).topic = x /\ Message(x, v).payload = v
    BY <1>1, <1>2, EachPlain
<1> QED BY <1>2, <1>3 DEF ZoneMessages, d

(* The availability is a message of its own.                             *)
LEMMA OnlinePlain ==
    Plain({Online}) /\ Online.topic = Availability /\ Online.payload = "online"
<1>1. IsFiniteSet({Online})
    BY FS_Singleton
<1>2. Online.topic = Availability /\ Online.payload = "online" /\ Online \in Messages
    BY DEF Online, Message, Messages, Payloads, Topics
<1> QED BY <1>1, <1>2 DEF Plain, Topics

(* A handler that publishes D after it has noted other zones.              *)
LEMMA SlugsPublished ==
    ASSUME NEW p \in Tasks, CacheKnows(p), NEW S \in SUBSET Zones, NEW D, Plain(D),
           NEW q, q = Publish([p EXCEPT !.slugs = S], D)
    PROVE  \/ Waits(q)
           \/ /\ ~p.stuck /\ q \in Tasks /\ q.slugs = S /\ q.known = p.known
              /\ Sends(p, q, D) /\ Carries(q, D) /\ CacheKnows(q)
<1> DEFINE a == [p EXCEPT !.slugs = S]
<1>1. /\ a \in Tasks /\ Same(p, a) /\ a.cache = p.cache /\ a.requests = p.requests
      /\ a.slugs = S /\ a.known = p.known /\ a.stuck = p.stuck
    BY DEF Tasks, Same
<1>2. CacheKnows(a) /\ Sends(p, a, {})
    BY <1>1, Learnt
<1>3. q = Publish(a, D)
    OBVIOUS
<1> HIDE DEF a
<1>4. \/ Waits(q)
      \/ /\ ~a.stuck /\ q \in Tasks /\ q.slugs = a.slugs /\ q.known = a.known
         /\ Sends(a, q, D) /\ Carries(q, D)
    BY <1>1, <1>2, <1>3, Published
<1>5. Sends(a, q, D) => Sends(p, q, D) /\ CacheKnows(q)
  <2> SUFFICES ASSUME Sends(a, q, D) PROVE Sends(p, q, D) /\ CacheKnows(q)
      OBVIOUS
  <2>1. Sends(p, q, {} \cup D)
      BY <1>2, SendsBoth
  <2>2. {} \cup D = D
      OBVIOUS
  <2> QED BY <1>2, <2>1, <2>2, Sending
<1> QED BY <1>1, <1>4, <1>5

(* What an announcement of everything says.                                *)
AllMessages(p) == ({Online} \cup ZoneMessages(Present)) \cup KnobMessages(p)

(* announce_all_zones and announce_all_knobs send all these.             *)
LEMMA AllAnnounced ==
    ASSUME Typed, NEW p \in Tasks, CacheKnows(p), NEW q, q = AnnounceAll(p)
    PROVE  \/ Waits(q)
           \/ /\ ~p.stuck /\ q \in Tasks /\ q.slugs = Present /\ q.known = Paired
              /\ Sends(p, q, AllMessages(p)) /\ Carries(q, AllMessages(p)) /\ CacheKnows(q)
<1> DEFINE one == Publish([p EXCEPT !.slugs = Present], {Online})
           Z == ZoneMessages(Present)
           mid == Publish(one, Z)
<1>1. q = AnnounceKnobs(mid)
    BY DEF AnnounceAll, AnnounceZones, Online, ZoneMessages
<1>2. Present \in SUBSET Zones
    BY DEF Present
<1>3. /\ Plain(Z) /\ \A m \in Z : m.topic \in Zones
      /\ Plain({Online}) /\ Online.topic = Availability
    BY <1>2, ZoneMessagesPlain, OnlinePlain
<1>4. \/ Waits(one)
      \/ /\ ~p.stuck /\ one \in Tasks /\ one.slugs = Present /\ one.known = p.known
         /\ Sends(p, one, {Online}) /\ Carries(one, {Online}) /\ CacheKnows(one)
    BY <1>2, <1>3, SlugsPublished
<1> HIDE DEF one, Z
<1>5. one \in Tasks /\ CacheKnows(one)
    BY <1>4 DEF Waits, CacheKnows
<1>6. \/ Waits(mid)
      \/ /\ ~one.stuck /\ mid \in Tasks /\ mid.slugs = one.slugs /\ mid.known = one.known
         /\ Sends(one, mid, Z) /\ Carries(mid, Z)
    BY <1>3, <1>5, Published
<1> HIDE DEF mid
<1>7. mid \in Tasks /\ CacheKnows(mid)
  <2>1. CASE Waits(mid)
      BY <2>1 DEF Waits, CacheKnows
  <2>2. CASE ~Waits(mid)
      BY <1>5, <1>6, <2>2, Sending
  <2> QED BY <2>1, <2>2
<1>8. \/ Waits(q)
      \/ /\ ~mid.stuck /\ q \in Tasks /\ q.slugs = mid.slugs /\ q.known = Paired
         /\ Sends(mid, q, KnobMessages(mid)) /\ Carries(q, KnobMessages(mid)) /\ CacheKnows(q)
    BY <1>1, <1>7, KnobsAnnounced
<1>9. CASE ~Waits(q)
  <2>1. ~Waits(mid) /\ ~Waits(one)
      BY <1>6, <1>8, <1>9 DEF Waits
  <2>2. KnobMessages(mid) = KnobMessages(p)
      BY <1>4, <1>6, <2>1 DEF KnobMessages
  <2>3. Sends(p, mid, {Online} \cup Z)
      BY <1>4, <1>6, <2>1, SendsBoth
  <2>4. Sends(p, q, ({Online} \cup Z) \cup KnobMessages(p))
      BY <1>8, <1>9, <2>2, <2>3, SendsBoth
  <2>5. Carries(mid, {Online} \cup Z)
    <3>1. \A m \in {Online} : m.topic \in Topics /\ \A n \in Z : m.topic = n.topic => m = n
        BY <1>3, PublisherAssumption DEF Topics
    <3> QED BY <1>4, <1>6, <2>1, <3>1, CarriesBoth
  <2>6. Carries(q, ({Online} \cup Z) \cup KnobMessages(p))
    <3>1. \A m \in {Online} \cup Z : m.topic \in Zones \cup {Availability}
        BY <1>3
    <3>2. \A n \in KnobMessages(p) : n.topic \in Knobs
        BY KnobMessagesPlain
    <3>3. \A m \in {Online} \cup Z :
             m.topic \in Topics /\ \A n \in KnobMessages(p) : m.topic = n.topic => m = n
        BY <3>1, <3>2, PublisherAssumption DEF Topics
    <3> QED BY <1>8, <1>9, <2>2, <2>5, <3>3, CarriesBoth
  <2> QED BY <1>4, <1>6, <1>8, <1>9, <2>1, <2>4, <2>6 DEF AllMessages, Z
<1> QED BY <1>9
-------------------------------------------------------------------------------
(* What announcements keep *)

(* Zones, knobs and the availability have topics of their own.             *)
LEMMA TopicsDiffer ==
    /\ \A x \in Zones : x \notin Knobs /\ x # Availability
    /\ \A x \in Knobs : x \notin Zones /\ x # Availability
BY PublisherAssumption

(* What is gone stays retracted, or comes to be.                           *)
Owed(o, q, r) ==
    \A x \in GoneOnes(o) \cap GoneOnes(q) : Excused(o, x) \/ Becomes(o.requests, r, x, Absent)

(* Retracting holds for a task that sends D: it is p and becomes q.      *)
LEMMA Retracting ==
    ASSUME NEW o, NEW p, NEW q, NEW D, Retracts(o), p.requests = o.requests,
           Sends(p, q, D), CacheKnows(q),
           \A x \in GoneOnes(q) :
              \/ Excused(q, x) \/ q.cache[x] = Absent
              \/ /\ x \in GoneOnes(o) /\ ~Excused(o, x)
                 /\ \A m \in D : m.topic = x => m.payload = Absent
    PROVE  /\ Retracts(q)
           /\ \A r : BrokerFollows(q, r) /\ Owed(o, q, r) => Retracted(q, r)
           /\ \A r : BrokerFollows(q, r) /\ Retracted(o, r) => Retracted(q, r)
<1>1. \A x \in GoneOnes(q) : x \in Topics
    BY DEF GoneOnes, Topics
<1>2. Absent # Unknown
    BY PublisherAssumption
<1>3. ASSUME NEW x \in GoneOnes(q), q.cache[x] = Absent
      PROVE  /\ LastSays(q.requests, x, Absent)
             /\ \A r : BrokerFollows(q, r) => Becomes(q.requests, r, x, Absent)
    BY <1>1, <1>2, <1>3 DEF CacheKnows, BrokerFollows
<1>4. ASSUME NEW x \in GoneOnes(q), \A m \in D : m.topic = x => m.payload = Absent
      PROVE  /\ LastSays(o.requests, x, Absent) => LastSays(q.requests, x, Absent)
             /\ \A r : Becomes(o.requests, r, x, Absent) => Becomes(q.requests, r, x, Absent)
  <2>1. Kept(p, q, x) \/ Told(q, x, Absent)
      BY <1>1, <1>4 DEF Sends
  <2> QED BY <2>1 DEF Kept, Told, Becomes
<1>5. Retracts(q)
  <2> SUFFICES ASSUME NEW x \in GoneOnes(q), ~Excused(q, x) PROVE LastSays(q.requests, x, Absent)
      BY DEF Retracts
  <2>1. CASE q.cache[x] = Absent
      BY <1>3, <2>1
  <2>2. CASE x \in GoneOnes(o) /\ ~Excused(o, x) /\ \A m \in D : m.topic = x => m.payload = Absent
      BY <1>4, <2>2 DEF Retracts
  <2> QED BY <2>1, <2>2
<1>6. ASSUME NEW r, BrokerFollows(q, r), Owed(o, q, r)
      PROVE  Retracted(q, r)
  <2> SUFFICES ASSUME NEW x \in GoneOnes(q), ~Excused(q, x) PROVE Becomes(q.requests, r, x, Absent)
      BY DEF Retracted
  <2>1. CASE q.cache[x] = Absent
      BY <1>3, <1>6, <2>1
  <2>2. CASE x \in GoneOnes(o) /\ ~Excused(o, x) /\ \A m \in D : m.topic = x => m.payload = Absent
      BY <1>4, <1>6, <2>2 DEF Owed
  <2> QED BY <2>1, <2>2
<1>7. \A r : Retracted(o, r) => Owed(o, q, r)
    BY DEF Retracted, Owed
<1> QED BY <1>5, <1>6, <1>7

(* An announcement of the knobs retracts those that are no longer paired.  *)
LEMMA KnobsRetracted ==
    ASSUME Typed, NEW p \in Tasks, NEW q \in Tasks, q.known = Paired, NEW D,
           Carries(q, KnobMessages(p)), \A m \in D : m.topic \in Zones \cup {Availability},
           NEW x \in Knobs, x \notin q.known
    PROVE  \/ q.cache[x] = Absent
           \/ x \notin p.known /\ \A m \in D \cup KnobMessages(p) : m.topic # x
<1>1. CASE x \in p.known
  <2>1. Message(x, Absent) \in KnobMessages(p) /\ Message(x, Absent).topic = x
        /\ Message(x, Absent).payload = Absent
      BY <1>1, KnobMessagesPlain
  <2> QED BY <2>1 DEF Carries
<1>2. CASE x \notin p.known
  <2>1. \A m \in KnobMessages(p) : m.topic \in p.known \cup Paired
      BY KnobMessagesPlain
  <2>2. \A m \in KnobMessages(p) : m.topic # x
      BY <1>2, <2>1
  <2>3. \A m \in D : m.topic # x
      BY TopicsDiffer
  <2> QED BY <1>2, <2>2, <2>3
<1> QED BY <1>1, <1>2

(* An announcement of everything by a task whose cache has been kept or    *)
(* forgotten: p is what o has become by then.                              *)
LEMMA AllServed ==
    ASSUME Typed, NEW o, Sound(o), NEW p \in Tasks, CacheKnows(p),
           p.requests = o.requests, p.known = o.known, p.bus = o.bus,
           \A x : Excused(o, x) => Excused(p, x),
           NEW q, q = AnnounceAll(p)
    PROVE  \/ Waits(q)
           \/ /\ q \in Tasks /\ Sound(q) /\ Same(p, q) /\ q.known = Paired
              /\ \A r : BrokerFollows(p, r) /\ Owed(p, q, r) => Served(q, r)
<1>1. CASE Waits(q)
    BY <1>1
<1>2. CASE ~Waits(q)
  <2>1. /\ q \in Tasks /\ q.slugs = Present /\ q.known = Paired
        /\ Sends(p, q, AllMessages(p)) /\ Carries(q, AllMessages(p)) /\ CacheKnows(q)
      BY <1>2, AllAnnounced
  <2> DEFINE D == {Online} \cup ZoneMessages(Present)
  <2>2. AllMessages(p) = D \cup KnobMessages(p)
      BY DEF AllMessages
  <2>3. \A m \in D : /\ m.topic \in Present \cup {Availability} /\ m.topic \in Zones \cup {Availability}
    <3>1. \A m \in ZoneMessages(Present) : m.topic \in Present
        BY ZoneMessagesPlain
    <3> QED BY <3>1, OnlinePlain DEF Present
  <2>4. Carries(q, KnobMessages(p)) /\ Carries(q, D)
      BY <2>1, <2>2 DEF Carries
  <2>5. Same(p, q) /\ q.missed = p.missed /\ q.bus = p.bus
      BY <2>1 DEF Sends, Same
  <2>6. \A x : Excused(p, x) => Excused(q, x)
      BY <2>5 DEF Excused
  <2>7. Retracts(p)
      BY DEF Sound, Retracts, GoneOnes
  <2>8. ASSUME NEW x \in GoneOnes(q)
        PROVE  \/ Excused(q, x) \/ q.cache[x] = Absent
               \/ /\ x \in GoneOnes(p) /\ ~Excused(p, x)
                  /\ \A m \in AllMessages(p) : m.topic = x => m.payload = Absent
    <3>1. CASE x \in Zones \ Present
      <4>1. \A m \in D : m.topic # x
          BY <2>3, <3>1, TopicsDiffer
      <4>2. \A m \in KnobMessages(p) : m.topic # x
          BY <3>1, KnobMessagesPlain, TopicsDiffer
      <4> QED BY <2>2, <2>6, <3>1, <4>1, <4>2 DEF GoneOnes
    <3>2. CASE x \in Knobs \ q.known
      <4>1. \/ q.cache[x] = Absent
            \/ x \notin p.known /\ \A m \in D \cup KnobMessages(p) : m.topic # x
          BY ZenonT(40), <2>1, <2>3, <2>4, <3>2, KnobsRetracted
      <4> QED BY <2>2, <2>6, <3>2, <4>1 DEF GoneOnes
    <3> QED BY <3>1, <3>2 DEF GoneOnes
  <2> HIDE DEF D
  <2>9. /\ Retracts(q)
        /\ \A r : BrokerFollows(q, r) /\ Owed(p, q, r) => Retracted(q, r)
      BY <2>1, <2>7, <2>8, Retracting
  <2>10. Sound(q)
      BY <2>1, <2>5, <2>9 DEF Sound
  <2>11. ASSUME NEW r, BrokerFollows(p, r), Owed(p, q, r)
         PROVE  Served(q, r)
    <3>1. BrokerFollows(q, r) /\ Retracted(q, r)
        BY <2>1, <2>9, <2>11, Sending
    <3>2. q.cache[Availability] = "online"
        BY <2>4, OnlinePlain DEF Carries, D
    <3>3. ASSUME NEW z \in Zones
          PROVE  ZoneServed(q, z)
      <4>1. CASE z \in Present
        <5>1. Message(z, zones[z]) \in D /\ Message(z, zones[z]).topic = z
              /\ Message(z, zones[z]).payload = zones[z]
            BY <4>1, ZoneMessagesPlain DEF D
        <5>2. q.cache[z] = zones[z]
            BY <2>4, <5>1 DEF Carries
        <5> QED BY <2>1, <4>1, <5>2 DEF ZoneServed
      <4>2. CASE z \notin Present
          BY <4>2 DEF ZoneServed, Present
      <4> QED BY <4>1, <4>2
    <3> QED BY <3>1, <3>2, <3>3 DEF Served
  <2> QED BY <2>1, <2>5, <2>10, <2>11
<1> QED BY <1>1, <1>2
-------------------------------------------------------------------------------
(* What handling an event keeps *)

(* The documents of zones are sent, and the knobs announced after them.    *)
LEMMA ThenKnobs ==
    ASSUME Typed, NEW a \in Tasks, CacheKnows(a), NEW D, Plain(D), \A m \in D : m.topic \in Zones,
           NEW q, q = AnnounceKnobs(Publish(a, D))
    PROVE  \/ Waits(q)
           \/ /\ q \in Tasks /\ q.slugs = a.slugs /\ q.known = Paired /\ CacheKnows(q)
              /\ Sends(a, q, D \cup KnobMessages(a))
              /\ Carries(q, D) /\ Carries(q, KnobMessages(a))
<1> DEFINE mid == Publish(a, D)
<1>1. q = AnnounceKnobs(mid)
    OBVIOUS
<1>2. \/ Waits(mid)
      \/ /\ ~a.stuck /\ mid \in Tasks /\ mid.slugs = a.slugs /\ mid.known = a.known
         /\ Sends(a, mid, D) /\ Carries(mid, D) /\ CacheKnows(mid)
    BY Published, Sending
<1> HIDE DEF mid
<1>3. mid \in Tasks /\ CacheKnows(mid)
    BY <1>2 DEF Waits, CacheKnows
<1>4. \/ Waits(q)
      \/ /\ ~mid.stuck /\ q \in Tasks /\ q.slugs = mid.slugs /\ q.known = Paired
         /\ Sends(mid, q, KnobMessages(mid)) /\ Carries(q, KnobMessages(mid)) /\ CacheKnows(q)
    BY <1>1, <1>3, KnobsAnnounced
<1>5. CASE ~Waits(q)
  <2>1. ~Waits(mid)
      BY <1>4, <1>5 DEF Waits
  <2>2. KnobMessages(mid) = KnobMessages(a)
      BY <1>2, <2>1 DEF KnobMessages
  <2>3. Sends(a, q, D \cup KnobMessages(a))
      BY <1>2, <1>4, <1>5, <2>1, <2>2, SendsBoth
  <2>4. \A m \in D : m.topic \in Topics /\ \A n \in KnobMessages(a) : m.topic = n.topic => m = n
    <3>1. \A n \in KnobMessages(a) : n.topic \in Knobs
        BY KnobMessagesPlain
    <3> QED BY <3>1, TopicsDiffer DEF Topics
  <2>5. Carries(q, D \cup KnobMessages(a))
      BY <1>2, <1>4, <1>5, <2>1, <2>2, <2>4, CarriesBoth
  <2> QED BY <1>2, <1>4, <1>5, <2>1, <2>3, <2>5 DEF Carries
<1> QED BY <1>5

(* What a handler that says D of some zones keeps of the rest.             *)
Says(a, q, D) ==
    /\ q \in Tasks /\ q.slugs = a.slugs /\ CacheKnows(q) /\ Carries(q, D)
    /\ \A m \in D : m.topic \in Zones
    /\ \/ Sends(a, q, D) /\ q.known = a.known
       \/ /\ Sends(a, q, D \cup KnobMessages(a)) /\ q.known = Paired
          /\ Carries(q, KnobMessages(a))

(* What the handler of an event that said D leaves as it was.            *)
LEMMA Saying ==
    ASSUME Typed, NEW o, Retracts(o), NEW a \in Tasks, CacheKnows(a),
           a.requests = o.requests, a.known = o.known, NEW D, NEW q, Says(a, q, D),
           \A x \in Knobs : Excused(o, x) => Excused(q, x),
           \A x \in Zones \ Present :
              \/ Excused(q, x) \/ q.cache[x] = Absent
              \/ ~Excused(o, x) /\ \A m \in D : m.topic = x => m.payload = Absent
    PROVE  /\ Same(a, q) /\ Retracts(q)
           /\ \A r : BrokerFollows(a, r) => BrokerFollows(q, r)
           /\ \A r : BrokerFollows(a, r) /\ Retracted(o, r) => Retracted(q, r)
           /\ q.cache[Availability] = a.cache[Availability]
           /\ \A z \in Zones : (\A m \in D : m.topic # z) => q.cache[z] = a.cache[z]
           /\ \A m \in D : q.cache[m.topic] = m.payload
<1>1. PICK E : /\ Sends(a, q, E)
               /\ \/ E = D /\ q.known = a.known
                  \/ /\ E = D \cup KnobMessages(a) /\ q.known = Paired
                     /\ Carries(q, KnobMessages(a))
    BY DEF Says
<1>2. /\ q \in Tasks /\ CacheKnows(q) /\ Carries(q, D) /\ \A m \in D : m.topic \in Zones
    BY DEF Says
<1>3. \A m \in KnobMessages(a) : m.topic \in Knobs
    BY KnobMessagesPlain
<1>4. \A m \in E : m.topic \in Zones => m \in D
    BY <1>1, <1>3, TopicsDiffer
<1>5. ASSUME NEW x \in GoneOnes(q)
      PROVE  \/ Excused(q, x) \/ q.cache[x] = Absent
             \/ /\ x \in GoneOnes(o) /\ ~Excused(o, x)
                /\ \A m \in E : m.topic = x => m.payload = Absent
  <2>1. CASE x \in Zones \ Present
      BY <1>4, <2>1 DEF GoneOnes
  <2>2. CASE x \in Knobs \ q.known /\ E = D /\ q.known = a.known
    <3>1. \A m \in E : m.topic # x
        BY <1>2, <2>2, TopicsDiffer
    <3>2. x \in GoneOnes(o)
        BY <2>2 DEF GoneOnes
    <3> QED BY <2>2, <3>1, <3>2
  <2>3. CASE /\ x \in Knobs \ q.known /\ E = D \cup KnobMessages(a) /\ q.known = Paired
             /\ Carries(q, KnobMessages(a))
    <3>1. \/ q.cache[x] = Absent
          \/ x \notin a.known /\ \A m \in D \cup KnobMessages(a) : m.topic # x
      <4>1. \A m \in D : m.topic \in Zones \cup {Availability}
          BY <1>2
      <4> QED BY Zenon, <1>2, <2>3, <4>1, KnobsRetracted
    <3> QED BY <2>3, <3>1 DEF GoneOnes
  <2> QED BY <1>1, <2>1, <2>2, <2>3 DEF GoneOnes
<1>6. /\ Retracts(q)
      /\ \A r : BrokerFollows(q, r) /\ Retracted(o, r) => Retracted(q, r)
    BY <1>1, <1>2, <1>5, Retracting
<1>7. \A r : BrokerFollows(a, r) => BrokerFollows(q, r)
    BY <1>1, Sending
<1>8. \A t \in Topics : (\A m \in E : m.topic # t) => q.cache[t] = a.cache[t]
    BY <1>1 DEF Sends, Kept
<1>9. q.cache[Availability] = a.cache[Availability]
  <2>1. \A m \in E : m.topic # Availability
      BY <1>1, <1>2, <1>3, TopicsDiffer
  <2> QED BY <1>8, <2>1 DEF Topics
<1>10. \A z \in Zones : (\A m \in D : m.topic # z) => q.cache[z] = a.cache[z]
    BY <1>4, <1>8 DEF Topics
<1>11. Same(a, q)
    BY <1>1 DEF Sends
<1> QED BY <1>2, <1>6, <1>7, <1>9, <1>10, <1>11 DEF Carries

(* What is due after the first event.                                      *)
LEMMA Shifted ==
    ASSUME NEW b \in Seq(Events), b # <<>>
    PROVE  /\ Tail(b) \in Seq(Events) /\ Head(b) \in Events
           /\ \A z, K : /\ DueAfter(b, 0, z, K) <=> Tells(Head(b), z, K) \/ DueAfter(Tail(b), 0, z, K)
                        /\ DueAfter(b, 1, z, K) <=> DueAfter(Tail(b), 0, z, K)
           /\ \A z : BusTells(b, z) => BusTells(Tail(b), z)
           /\ \A z : /\ BusTells(b, z) /\ zones[z] = Absent /\ Tells(Head(b), z, Kinds) =>
                           Head(b).kind = "removed" \/ DueAfter(Tail(b), 0, z, {"removed"})
                     /\ BusTells(b, z) /\ zones[z] # Absent =>
                           /\ Tells(Head(b), z, {"removed"}) => DueAfter(Tail(b), 0, z, {"discovered"})
                           /\ Tells(Head(b), z, {"discovered"}) =>
                                 Head(b).doc = zones[z] \/ DueAfter(Tail(b), 0, z, Kinds)
<1> DEFINE c == Tail(b)
<1>1. /\ c \in Seq(Events) /\ Len(b) \in Nat /\ Len(c) = Len(b) - 1 /\ Head(b) = b[1]
      /\ 1 \in 1 .. Len(b) /\ b[1] \in Events
      /\ \A i \in 1 .. Len(c) : i + 1 \in 1 .. Len(b) /\ c[i] = b[i + 1]
    BY HeadTailProperties, EmptySeq
<1>2. \A i \in 1 .. Len(b) : i # 1 => i - 1 \in 1 .. Len(c) /\ c[i - 1] = b[i]
    BY <1>1
<1> HIDE DEF c
<1>3. ASSUME NEW n \in Nat, NEW z, NEW K
      PROVE  DueAfter(b, n + 1, z, K) <=> DueAfter(c, n, z, K)
  <2>1. ASSUME NEW i \in 1 .. Len(b), i > n + 1, Tells(b[i], z, K)
        PROVE  DueAfter(c, n, z, K)
    <3>1. i # 1 /\ i - 1 > n
        BY <2>1
    <3> QED BY <1>2, <2>1, <3>1 DEF DueAfter
  <2>2. ASSUME NEW i \in 1 .. Len(c), i > n, Tells(c[i], z, K)
        PROVE  DueAfter(b, n + 1, z, K)
    <3>1. i + 1 > n + 1
        BY <2>2
    <3> QED BY <1>1, <2>2, <3>1 DEF DueAfter
  <2> QED BY <2>1, <2>2 DEF DueAfter
<1>4. \A z, K : DueAfter(b, 1, z, K) <=> DueAfter(c, 0, z, K)
  <2>1. 0 \in Nat /\ 0 + 1 = 1
      OBVIOUS
  <2> QED BY <1>3, <2>1
<1>5. ASSUME NEW z, NEW K
      PROVE  DueAfter(b, 0, z, K) <=> Tells(Head(b), z, K) \/ DueAfter(c, 0, z, K)
  <2>1. DueAfter(b, 0, z, K) <=> Tells(b[1], z, K) \/ DueAfter(b, 1, z, K)
    <3>1. \A i \in 1 .. Len(b) : i > 0 /\ (i = 1 \/ i > 1)
        BY <1>1
    <3> QED BY <1>1, <3>1 DEF DueAfter
  <2> QED BY <1>1, <1>4, <2>1
<1>6. ASSUME NEW z, BusTells(b, z)
      PROVE  BusTells(c, z)
  <2>1. ASSUME NEW i \in 1 .. Len(c)
        PROVE  /\ i + 1 \in 1 .. Len(b) /\ c[i] = b[i + 1]
               /\ \A K : DueAfter(b, i + 1, z, K) <=> DueAfter(c, i, z, K)
      BY <1>1, <1>3
  <2>2. ASSUME zones[z] # Absent, NEW i \in 1 .. Len(c)
        PROVE  /\ Tells(c[i], z, {"removed"}) => DueAfter(c, i, z, {"discovered"})
               /\ Tells(c[i], z, {"discovered"}) => c[i].doc = zones[z] \/ DueAfter(c, i, z, Kinds)
      BY <1>6, <2>1, <2>2 DEF BusTells
  <2>3. ASSUME zones[z] = Absent, NEW i \in 1 .. Len(c), Tells(c[i], z, Kinds)
        PROVE  c[i].kind = "removed" \/ DueAfter(c, i, z, {"removed"})
      BY <1>6, <2>1, <2>3 DEF BusTells
  <2> QED BY <2>2, <2>3 DEF BusTells
<1>7. ASSUME NEW z, BusTells(b, z)
      PROVE  /\ zones[z] = Absent /\ Tells(b[1], z, Kinds) =>
                   b[1].kind = "removed" \/ DueAfter(c, 0, z, {"removed"})
             /\ zones[z] # Absent =>
                   /\ Tells(b[1], z, {"removed"}) => DueAfter(c, 0, z, {"discovered"})
                   /\ Tells(b[1], z, {"discovered"}) => b[1].doc = zones[z] \/ DueAfter(c, 0, z, Kinds)
    BY <1>1, <1>4, <1>7 DEF BusTells
<1> QED BY <1>1, <1>4, <1>5, <1>6, <1>7 DEF c

(* What a handler that begins has read.                                    *)
Still(o, q) ==
    /\ q.running = o.running /\ q.cancelled = o.cancelled /\ q.stuck = o.stuck
    /\ q.connected = o.connected /\ q.lagged = o.lagged /\ q.bus = Tail(o.bus)
Reads(o, a) ==
    /\ a \in Tasks /\ Still(o, a)
    /\ a.cache = o.cache /\ a.requests = o.requests /\ a.known = o.known
    /\ \A x \in o.missed : x \in a.missed \/ Tells(Head(o.bus), x, {"removed"})

(* What the event e means for the zones.                                   *)
Effects(o, q, e) ==
    \A z \in Zones :
        /\ Tells(e, z, {"discovered"}) => z \in q.slugs /\ q.cache[z] = e.doc
        /\ zones[z] # Absent /\ Tells(e, z, {"updated"}) => z \in q.slugs /\ q.cache[z] = zones[z]
        /\ zones[z] # Absent /\ Tells(e, z, {"volume"}) /\ z \in o.slugs => q.cache[z] = zones[z]
        /\ z \in o.slugs => z \in q.slugs \/ Tells(e, z, {"removed"})
        /\ ~Tells(e, z, Kinds) => \/ q.cache[z] = o.cache[z]
                                  \/ zones[z] # Absent /\ q.cache[z] = zones[z]
Handling(o, q) ==
    /\ q \in Tasks /\ Still(o, q) /\ CacheKnows(q) /\ Retracts(q)
    /\ \A r : BrokerFollows(o, r) => BrokerFollows(q, r)
    /\ \A r : BrokerFollows(o, r) /\ Retracted(o, r) => Retracted(q, r)
    /\ q.cache[Availability] = o.cache[Availability]

GoneOf(o, D) ==
    \A x \in Zones \ Present :
       \/ Tells(Head(o.bus), x, {"removed"}) /\ \E m \in D : m.topic = x /\ m.payload = Absent
       \/ DueAfter(Tail(o.bus), 0, x, {"removed"})
       \/ ~Tells(Head(o.bus), x, {"removed"}) /\ \A m \in D : m.topic # x
HandlingOf(o, q, D) ==
    /\ Handling(o, q)
    /\ \A z \in Zones : (\A m \in D : m.topic # z) => q.cache[z] = o.cache[z]
    /\ \A m \in D : q.cache[m.topic] = m.payload

(* The same from the task o that begins to handle its first event.       *)
LEMMA HandlingBy ==
    ASSUME Typed, NEW o \in Tasks, Sound(o), o.bus # <<>>, NEW a, Reads(o, a),
           NEW D, NEW q, Says(a, q, D), GoneOf(o, D)
    PROVE  HandlingOf(o, q, D)
<1>1. /\ a \in Tasks /\ Still(o, a) /\ a.cache = o.cache /\ a.requests = o.requests
      /\ a.known = o.known /\ \A x \in o.missed : x \in a.missed \/ Tells(Head(o.bus), x, {"removed"})
    BY DEF Reads
<1>2. CacheKnows(a) /\ \A r : BrokerFollows(o, r) <=> BrokerFollows(a, r)
    BY <1>1 DEF Sound, CacheKnows, BrokerFollows
<1>3. o.bus \in Seq(Events)
    BY DEF Tasks
<1>4. q \in Tasks /\ Carries(q, D) /\ \A m \in D : m.topic \in Zones
    BY DEF Says
<1>5. Same(a, q) /\ CacheKnows(q)
    BY DEF Says, Sends
<1>6. \A x : Excused(o, x) => Excused(q, x) \/ Tells(Head(o.bus), x, {"removed"})
  <2>1. q.bus = Tail(o.bus) /\ q.missed = a.missed
      BY <1>1, <1>5 DEF Same, Still
  <2> QED BY <1>1, <1>3, <2>1, Shifted DEF Excused
<1>7. \A x \in Knobs : Excused(o, x) => Excused(q, x)
  <2>1. \A x \in Knobs : ~Tells(Head(o.bus), x, {"removed"})
      BY <1>3, Shifted, TopicsDiffer DEF Tells, Events
  <2> QED BY <1>6, <2>1
<1>8. ASSUME NEW x \in Zones \ Present
      PROVE  \/ Excused(q, x) \/ q.cache[x] = Absent
             \/ ~Excused(o, x) /\ \A m \in D : m.topic = x => m.payload = Absent
  <2>1. CASE \E m \in D : m.topic = x /\ m.payload = Absent
      BY <1>4, <2>1 DEF Carries
  <2>2. CASE DueAfter(Tail(o.bus), 0, x, {"removed"})
      BY <1>1, <1>5, <2>2 DEF Excused, Same, Still
  <2>3. CASE ~Tells(Head(o.bus), x, {"removed"}) /\ \A m \in D : m.topic # x
      BY <1>6, <2>3
  <2> QED BY <2>1, <2>2, <2>3 DEF GoneOf
<1>9. Retracts(o)
    BY DEF Sound
<1>10. /\ Same(a, q) /\ Retracts(q)
       /\ \A r : BrokerFollows(a, r) => BrokerFollows(q, r)
       /\ \A r : BrokerFollows(a, r) /\ Retracted(o, r) => Retracted(q, r)
       /\ q.cache[Availability] = a.cache[Availability]
       /\ \A z \in Zones : (\A m \in D : m.topic # z) => q.cache[z] = a.cache[z]
       /\ \A m \in D : q.cache[m.topic] = m.payload
    BY <1>1, <1>2, <1>7, <1>8, <1>9, Saying
<1>11. Still(o, q)
    BY <1>1, <1>5 DEF Still, Same
<1> QED BY <1>1, <1>2, <1>4, <1>5, <1>10, <1>11 DEF Handling, HandlingOf

(* The event e is taken from the bus.                                      *)
LEMMA Begun ==
    ASSUME NEW o \in Tasks, o.bus # <<>>
    PROVE  LET b == [o EXCEPT !.bus = Tail(@)] IN
           /\ b \in Tasks /\ Still(o, b) /\ b.cache = o.cache /\ b.requests = o.requests
           /\ b.known = o.known /\ b.slugs = o.slugs /\ b.missed = o.missed
<1>1. o.bus \in Seq(Events)
    BY DEF Tasks
<1>2. Tail(o.bus) \in Seq(Events)
    BY <1>1, Shifted
<1> QED BY <1>2 DEF Tasks, Still

(* Its zones are noted in slugs, or no longer.                             *)
Begins(o, a, S) == Reads(o, a) /\ CacheKnows(a) /\ a \in Tasks /\ a.slugs = S

(* A zone that is discovered or refreshed.                               *)
LEMMA Noted ==
    ASSUME NEW o \in Tasks, CacheKnows(o), NEW b \in Tasks, Still(o, b), b.cache = o.cache,
           b.requests = o.requests, b.known = o.known, b.missed = o.missed,
           NEW S \in SUBSET Zones, NEW a, a = [b EXCEPT !.slugs = S]
    PROVE  Begins(o, a, S)
<1>1. /\ a \in Tasks /\ Still(o, a) /\ a.cache = o.cache /\ a.requests = o.requests
      /\ a.known = o.known /\ a.missed = o.missed /\ a.slugs = S
    BY DEF Tasks, Still
<1> QED BY <1>1 DEF Begins, Reads, CacheKnows

(* A zone that is removed, which is no longer missed.                    *)
LEMMA NotedGone ==
    ASSUME NEW o \in Tasks, CacheKnows(o), NEW b \in Tasks, Still(o, b), b.cache = o.cache,
           b.requests = o.requests, b.known = o.known, b.missed = o.missed,
           NEW S \in SUBSET Zones, NEW M \in SUBSET (Zones \cup Knobs),
           \A x \in o.missed : x \in M \/ Tells(Head(o.bus), x, {"removed"}),
           NEW a, a = [b EXCEPT !.slugs = S, !.missed = M]
    PROVE  Begins(o, a, S)
<1>1. /\ a \in Tasks /\ Still(o, a) /\ a.cache = o.cache /\ a.requests = o.requests
      /\ a.known = o.known /\ a.missed = M /\ a.slugs = S
    BY DEF Tasks, Still
<1> QED BY <1>1 DEF Begins, Reads, CacheKnows

(* The documents of an event are plain messages about its zones.           *)
SaysOf(D, S, v) ==
    /\ Plain(D) /\ \A m \in D : m.topic \in S /\ m.topic \in Zones /\ m.payload = v
    /\ \A z \in S : \E m \in D : m.topic = z /\ m.payload = v

(* One document for all the zones of an event.                           *)
LEMMA EventPlain ==
    ASSUME NEW S \in SUBSET Zones, NEW v \in Payloads, NEW D, D = Each([z \in S |-> v])
    PROVE  SaysOf(D, S, v)
<1> DEFINE d == [z \in S |-> v]
<1>1. DOMAIN d = S /\ \A z \in S : d[z] = v
    OBVIOUS
<1>2. S \subseteq Topics /\ IsFiniteSet(S)
    BY PublisherAssumption, FS_Subset DEF Topics
<1>3. D = Each(d)
    OBVIOUS
<1> HIDE DEF d
<1>4. /\ Plain(Each(d))
      /\ \A m \in Each(d) : m.topic \in DOMAIN d /\ m.payload = d[m.topic]
      /\ \A x \in DOMAIN d : Message(x, d[x]) \in Each(d)
      /\ \A x, w : Message(x, w).topic = x /\ Message(x, w).payload = w
    BY <1>1, <1>2, EachPlain
<1>5. \A z \in S : \E m \in D : m.topic = z /\ m.payload = v
  <2> SUFFICES ASSUME NEW z \in S PROVE \E m \in D : m.topic = z /\ m.payload = v
      OBVIOUS
  <2>1. Message(z, d[z]) \in D /\ Message(z, d[z]).topic = z /\ Message(z, d[z]).payload = v
      BY <1>1, <1>3, <1>4
  <2> QED BY <2>1
<1>6. \A m \in D : m.topic \in S /\ m.topic \in Zones /\ m.payload = v
    BY <1>1, <1>3, <1>4
<1> QED BY <1>3, <1>4, <1>5, <1>6 DEF SaysOf

(* A handler of the event e has answered it.                               *)
Answers(o, q) == Waits(q) \/ (Handling(o, q) /\ Effects(o, q, Head(o.bus)))

(* ZoneDiscovered.                                                       *)
LEMMA Discovered ==
    ASSUME Typed, NEW o \in Tasks, Sound(o), o.bus # <<>>, Head(o.bus).kind = "discovered",
           NEW q, q = Handled([o EXCEPT !.bus = Tail(@)], Head(o.bus))
    PROVE  Answers(o, q)
<1> DEFINE e == Head(o.bus)
           b == [o EXCEPT !.bus = Tail(@)]
           a == [b EXCEPT !.slugs = @ \cup e.zones]
           D == Each([z \in e.zones |-> e.doc])
<1>1. /\ o.bus \in Seq(Events) /\ e \in Events /\ e.zones \in SUBSET Zones
      /\ e.doc \in Payloads /\ o.slugs \in SUBSET Zones
    <2>1. o.bus \in Seq(Events) /\ o.slugs \in SUBSET Zones
        BY DEF Tasks
    <2>2. e \in Events
        BY <2>1, Shifted
    <2> QED BY <2>1, <2>2 DEF Events, Payloads
<1>2. q = AnnounceKnobs(Publish(a, D))
    BY DEF Handled
<1>3. /\ b \in Tasks /\ Still(o, b) /\ b.cache = o.cache /\ b.requests = o.requests
      /\ b.known = o.known /\ b.slugs = o.slugs /\ b.missed = o.missed
    BY Begun
<1>4. a = [b EXCEPT !.slugs = o.slugs \cup e.zones] /\ o.slugs \cup e.zones \in SUBSET Zones
    BY <1>1, <1>3
<1>5. CacheKnows(o) /\ \A z \in Zones : BusTells(o.bus, z)
    BY DEF Sound
<1> HIDE DEF b, a
<1>6. Reads(o, a) /\ CacheKnows(a) /\ a \in Tasks /\ a.slugs = o.slugs \cup e.zones
  <2>1. Begins(o, a, o.slugs \cup e.zones)
      BY Zenon, <1>3, <1>4, <1>5, Noted
  <2> QED BY <2>1 DEF Begins
<1>7. /\ Plain(D) /\ \A m \in D : m.topic \in e.zones /\ m.topic \in Zones /\ m.payload = e.doc
      /\ \A z \in e.zones : \E m \in D : m.topic = z /\ m.payload = e.doc
  <2>1. SaysOf(D, e.zones, e.doc)
      BY Zenon, <1>1, EventPlain
  <2> QED BY <2>1 DEF SaysOf
<1> HIDE DEF D, e
<1>8. Waits(q) \/ Says(a, q, D)
  <2>1. \A m \in D : m.topic \in Zones
      BY <1>7
  <2>2. \/ Waits(q)
        \/ /\ q \in Tasks /\ q.slugs = a.slugs /\ q.known = Paired /\ CacheKnows(q)
           /\ Sends(a, q, D \cup KnobMessages(a))
           /\ Carries(q, D) /\ Carries(q, KnobMessages(a))
      BY <1>2, <1>6, <1>7, <2>1, ThenKnobs
  <2> QED BY <2>1, <2>2 DEF Says
<1>9. SUFFICES ASSUME Says(a, q, D) PROVE Answers(o, q)
    BY <1>8 DEF Answers
<1>10. ASSUME NEW x \in Zones \ Present
       PROVE  \/ DueAfter(Tail(o.bus), 0, x, {"removed"})
              \/ ~Tells(Head(o.bus), x, {"removed"}) /\ \A m \in D : m.topic # x
  <2>1. CASE x \in e.zones
    <3>1. Tells(Head(o.bus), x, Kinds) /\ zones[x] = Absent /\ Head(o.bus).kind # "removed"
        BY <2>1 DEF Tells, Kinds, Present, e
    <3> QED BY <1>1, <1>5, <3>1, Shifted
  <2>2. CASE x \notin e.zones
      BY <1>7, <2>2 DEF Tells, e
  <2> QED BY <2>1, <2>2
<1>11. HandlingOf(o, q, D)
  <2>1. GoneOf(o, D)
      BY <1>10 DEF GoneOf
  <2> QED BY Zenon, <1>1, <1>6, <1>9, <2>1, HandlingBy
<1>12. Effects(o, q, e)
  <2> SUFFICES ASSUME NEW z \in Zones
               PROVE  /\ Tells(e, z, {"discovered"}) => z \in q.slugs /\ q.cache[z] = e.doc
                      /\ ~Tells(e, z, {"updated"}) /\ ~Tells(e, z, {"volume"})
                      /\ z \in o.slugs => z \in q.slugs
                      /\ ~Tells(e, z, Kinds) => q.cache[z] = o.cache[z]
      BY DEF Effects
  <2>1. q.slugs = o.slugs \cup e.zones
      BY <1>6, <1>9 DEF Says
  <2>2. z \in e.zones => q.cache[z] = e.doc
      BY <1>7, <1>11 DEF HandlingOf
  <2>3. z \notin e.zones => q.cache[z] = o.cache[z]
      BY <1>7, <1>11 DEF HandlingOf
  <2> QED BY <2>1, <2>2, <2>3 DEF Tells, Kinds, e
<1> QED BY <1>11, <1>12 DEF Answers, HandlingOf, e

(* ZoneRemoved and ZonesFlushed.                                         *)
LEMMA Removed ==
    ASSUME Typed, NEW o \in Tasks, Sound(o), o.bus # <<>>, Head(o.bus).kind = "removed",
           NEW q, q = Handled([o EXCEPT !.bus = Tail(@)], Head(o.bus))
    PROVE  Answers(o, q)
<1> DEFINE e == Head(o.bus)
           b == [o EXCEPT !.bus = Tail(@)]
           a == [b EXCEPT !.slugs = @ \ e.zones, !.missed = @ \ e.zones]
           D == Each([z \in e.zones |-> Absent])
<1>1. /\ o.bus \in Seq(Events) /\ e \in Events /\ e.zones \in SUBSET Zones
      /\ Absent \in Payloads /\ o.slugs \in SUBSET Zones /\ o.missed \in SUBSET (Zones \cup Knobs)
    <2>1. /\ o.bus \in Seq(Events) /\ o.slugs \in SUBSET Zones
          /\ o.missed \in SUBSET (Zones \cup Knobs)
        BY DEF Tasks
    <2>2. e \in Events
        BY <2>1, Shifted
    <2> QED BY <2>1, <2>2 DEF Events, Payloads
<1>2. q = AnnounceKnobs(Publish(a, D))
    BY DEF Handled, Gone
<1>3. /\ b \in Tasks /\ Still(o, b) /\ b.cache = o.cache /\ b.requests = o.requests
      /\ b.known = o.known /\ b.slugs = o.slugs /\ b.missed = o.missed
    BY Begun
<1>4. /\ a = [b EXCEPT !.slugs = o.slugs \ e.zones, !.missed = o.missed \ e.zones]
      /\ o.slugs \ e.zones \in SUBSET Zones /\ o.missed \ e.zones \in SUBSET (Zones \cup Knobs)
    BY <1>1, <1>3
<1>5. CacheKnows(o) /\ \A z \in Zones : BusTells(o.bus, z)
    BY DEF Sound
<1> HIDE DEF b, a
<1>6. Reads(o, a) /\ CacheKnows(a) /\ a \in Tasks /\ a.slugs = o.slugs \ e.zones
  <2>1. \A x \in o.missed : x \in o.missed \ e.zones \/ Tells(Head(o.bus), x, {"removed"})
      BY DEF Tells, e
  <2>2. Begins(o, a, o.slugs \ e.zones)
      BY Zenon, <1>3, <1>4, <1>5, <2>1, NotedGone
  <2> QED BY <2>2 DEF Begins
<1>7. /\ Plain(D) /\ \A m \in D : m.topic \in e.zones /\ m.topic \in Zones /\ m.payload = Absent
      /\ \A z \in e.zones : \E m \in D : m.topic = z /\ m.payload = Absent
  <2>1. SaysOf(D, e.zones, Absent)
      BY Zenon, <1>1, EventPlain
  <2> QED BY <2>1 DEF SaysOf
<1> HIDE DEF D, e
<1>8. Waits(q) \/ Says(a, q, D)
  <2>1. \A m \in D : m.topic \in Zones
      BY <1>7
  <2>2. \/ Waits(q)
        \/ /\ q \in Tasks /\ q.slugs = a.slugs /\ q.known = Paired /\ CacheKnows(q)
           /\ Sends(a, q, D \cup KnobMessages(a))
           /\ Carries(q, D) /\ Carries(q, KnobMessages(a))
      BY <1>2, <1>6, <1>7, <2>1, ThenKnobs
  <2> QED BY <2>1, <2>2 DEF Says
<1>9. SUFFICES ASSUME Says(a, q, D) PROVE Answers(o, q)
    BY <1>8 DEF Answers
<1>10. ASSUME NEW x \in Zones \ Present
       PROVE  \/ Tells(Head(o.bus), x, {"removed"}) /\ \E m \in D : m.topic = x /\ m.payload = Absent
              \/ ~Tells(Head(o.bus), x, {"removed"}) /\ \A m \in D : m.topic # x
    BY <1>7 DEF Tells, e
<1>11. HandlingOf(o, q, D)
  <2>1. GoneOf(o, D)
      BY <1>10 DEF GoneOf
  <2> QED BY Zenon, <1>1, <1>6, <1>9, <2>1, HandlingBy
<1>12. Effects(o, q, e)
  <2> SUFFICES ASSUME NEW z \in Zones
               PROVE  /\ ~Tells(e, z, {"discovered"})
                      /\ ~Tells(e, z, {"updated"}) /\ ~Tells(e, z, {"volume"})
                      /\ z \in o.slugs => z \in q.slugs \/ Tells(e, z, {"removed"})
                      /\ ~Tells(e, z, Kinds) => q.cache[z] = o.cache[z]
      BY DEF Effects
  <2>1. q.slugs = o.slugs \ e.zones
      BY <1>6, <1>9 DEF Says
  <2>2. z \notin e.zones => q.cache[z] = o.cache[z]
      BY <1>7, <1>11 DEF HandlingOf
  <2> QED BY <2>1, <2>2 DEF Tells, Kinds, e
<1> QED BY <1>11, <1>12 DEF Answers, HandlingOf, e

(* The zones of S that are still there are published.                      *)
Refreshes(o, q, S) ==
    /\ Handling(o, q) /\ q.slugs = o.slugs \cup (S \cap Present)
    /\ \A z \in Zones : IF z \in S \cap Present THEN q.cache[z] = zones[z]
                        ELSE q.cache[z] = o.cache[z]

(* publish_zone for some zones.                                          *)
LEMMA Refreshed ==
    ASSUME Typed, NEW o \in Tasks, Sound(o), o.bus # <<>>, Head(o.bus).kind # "removed",
           NEW S \in SUBSET Zones, NEW b \in Tasks, Still(o, b), b.cache = o.cache,
           b.requests = o.requests, b.known = o.known, b.slugs = o.slugs, b.missed = o.missed,
           NEW q, q = Refresh(b, S)
    PROVE  Waits(q) \/ Refreshes(o, q, S)
<1> DEFINE T == S \cap Present
           a == [b EXCEPT !.slugs = @ \cup T]
           D == ZoneMessages(T)
<1>1. o.slugs \in SUBSET Zones /\ o.slugs \cup T \in SUBSET Zones /\ T \subseteq Present
    BY DEF Tasks, Present
<1>2. q = Publish(a, D)
    BY DEF Refresh, ZoneMessages
<1>3. CacheKnows(o)
    BY DEF Sound
<1>4. a = [b EXCEPT !.slugs = o.slugs \cup T]
    OBVIOUS
<1> HIDE DEF a
<1>5. Reads(o, a) /\ CacheKnows(a) /\ a \in Tasks /\ a.slugs = o.slugs \cup T
  <2>1. Begins(o, a, o.slugs \cup T)
      BY Zenon, <1>1, <1>3, <1>4, Noted
  <2> QED BY <2>1 DEF Begins
<1>6. /\ Plain(D) /\ \A m \in D : m.topic \in T /\ m.payload = zones[m.topic]
      /\ \A z \in T : Message(z, zones[z]) \in D
      /\ \A x, v : Message(x, v).topic = x /\ Message(x, v).payload = v
    BY <1>1, ZoneMessagesPlain
<1> HIDE DEF D
<1>7. Waits(q) \/ Says(a, q, D)
  <2>1. \A m \in D : m.topic \in Zones
      BY <1>6 DEF Present
  <2>2. \/ Waits(q)
        \/ /\ ~a.stuck /\ q \in Tasks /\ q.slugs = a.slugs /\ q.known = a.known
           /\ Sends(a, q, D) /\ Carries(q, D)
      BY <1>2, <1>5, <1>6, Published
  <2>3. Sends(a, q, D) => CacheKnows(q)
      BY <1>5, Sending
  <2> QED BY <2>1, <2>2, <2>3 DEF Says
<1>8. SUFFICES ASSUME Says(a, q, D)
               PROVE  /\ Handling(o, q) /\ q.slugs = o.slugs \cup T
                      /\ \A z \in Zones : IF z \in T THEN q.cache[z] = zones[z]
                                          ELSE q.cache[z] = o.cache[z]
    BY <1>7 DEF Refreshes
<1>9. HandlingOf(o, q, D)
  <2>1. \A x \in Zones \ Present : \A m \in D : m.topic # x
      BY <1>6
  <2>2. \A x : ~Tells(Head(o.bus), x, {"removed"})
      BY DEF Tells
  <2>3. GoneOf(o, D)
      BY <2>1, <2>2 DEF GoneOf
  <2> QED BY Zenon, <1>5, <1>8, <2>3, HandlingBy
<1>10. ASSUME NEW z \in Zones
       PROVE  IF z \in T THEN q.cache[z] = zones[z] ELSE q.cache[z] = o.cache[z]
  <2>1. CASE z \in T
      BY <1>6, <1>9, <2>1 DEF HandlingOf
  <2>2. CASE z \notin T
      BY <1>6, <1>9, <2>2 DEF HandlingOf
  <2> QED BY <2>1, <2>2
<1> QED BY <1>5, <1>8, <1>9, <1>10 DEF Says, HandlingOf

(* ZoneUpdated, and a volume that has changed.                           *)
LEMMA Updated ==
    ASSUME Typed, NEW o \in Tasks, Sound(o), o.bus # <<>>, Head(o.bus).kind \in {"updated", "volume"},
           NEW q, q = Handled([o EXCEPT !.bus = Tail(@)], Head(o.bus))
    PROVE  Answers(o, q)
<1> DEFINE e == Head(o.bus)
           b == [o EXCEPT !.bus = Tail(@)]
<1>1. /\ o.bus \in Seq(Events) /\ e \in Events /\ e.zones \in SUBSET Zones
      /\ o.slugs \in SUBSET Zones
    <2>1. o.bus \in Seq(Events) /\ o.slugs \in SUBSET Zones
        BY DEF Tasks
    <2>2. e \in Events
        BY <2>1, Shifted
    <2> QED BY <2>1, <2>2 DEF Events
<1>2. /\ b \in Tasks /\ Still(o, b) /\ b.cache = o.cache /\ b.requests = o.requests
      /\ b.known = o.known /\ b.slugs = o.slugs /\ b.missed = o.missed
    BY Begun
<1>3. q = Handled(b, e)
    OBVIOUS
<1> HIDE DEF b
<1>4. PICK S \in SUBSET Zones : /\ q = Refresh(b, S)
                                /\ \/ e.kind = "updated" /\ S = e.zones
                                   \/ e.kind = "volume" /\ S = o.slugs
    BY <1>1, <1>2, <1>3 DEF Handled
<1>5. Waits(q) \/ Refreshes(o, q, S)
  <2>1. Head(o.bus).kind # "removed"
      OBVIOUS
  <2> QED BY Zenon, <1>2, <1>4, <2>1, Refreshed
<1>6. SUFFICES ASSUME Handling(o, q), q.slugs = o.slugs \cup (S \cap Present),
                      \A z \in Zones : IF z \in S \cap Present THEN q.cache[z] = zones[z]
                                       ELSE q.cache[z] = o.cache[z]
               PROVE  Answers(o, q)
    BY <1>5 DEF Answers, Refreshes
<1>7. Effects(o, q, e)
  <2> HIDE DEF e
  <2> SUFFICES ASSUME NEW z \in Zones
               PROVE  /\ ~Tells(e, z, {"discovered"})
                      /\ zones[z] # Absent /\ Tells(e, z, {"updated"}) =>
                            z \in q.slugs /\ q.cache[z] = zones[z]
                      /\ zones[z] # Absent /\ Tells(e, z, {"volume"}) /\ z \in o.slugs =>
                            q.cache[z] = zones[z]
                      /\ z \in o.slugs => z \in q.slugs
                      /\ \/ q.cache[z] = o.cache[z]
                         \/ zones[z] # Absent /\ q.cache[z] = zones[z]
      BY DEF Effects
  <2>1. zones[z] # Absent /\ z \in S => z \in S \cap Present
      BY DEF Present
  <2>2. z \in S \cap Present => zones[z] # Absent
      BY DEF Present
  <2> QED BY <1>4, <1>6, <2>1, <2>2 DEF Tells
<1> QED BY <1>6, <1>7 DEF Answers

(* Every event is answered.                                              *)
LEMMA EventAnswered ==
    ASSUME Typed, NEW o \in Tasks, Sound(o), o.bus # <<>>,
           NEW q, q = Handled([o EXCEPT !.bus = Tail(@)], Head(o.bus))
    PROVE  Answers(o, q)
<1>1. o.bus \in Seq(Events)
    BY DEF Tasks
<1>2. Head(o.bus) \in Events
    BY <1>1, Shifted
<1>3. Head(o.bus).kind \in {"discovered", "removed", "updated", "volume"}
    BY <1>2 DEF Events
<1> QED BY <1>3, Discovered, Removed, Updated

(* A handled event leaves what it found in order.                          *)
LEMMA HandledServes ==
    ASSUME Typed, NEW o \in Tasks, Sound(o), o.bus # <<>>, ~o.lagged,
           NEW q, q = Handled([o EXCEPT !.bus = Tail(@)], Head(o.bus))
    PROVE  \/ Waits(q)
           \/ /\ q \in Tasks /\ Sound(q) /\ Still(o, q)
              /\ \A r : Served(o, r) => Served(q, r)
<1> DEFINE e == Head(o.bus)
           c == Tail(o.bus)
<1>1. Answers(o, q)
    BY EventAnswered
<1>2. SUFFICES ASSUME Handling(o, q), Effects(o, q, e)
               PROVE  /\ q \in Tasks /\ Sound(q) /\ Still(o, q)
                      /\ \A r : Served(o, r) => Served(q, r)
    BY <1>1 DEF Answers
<1>3. o.bus \in Seq(Events) /\ q.bus = c /\ q.lagged = o.lagged
    BY <1>2 DEF Tasks, Handling, Still
<1>4. /\ \A z, K : DueAfter(o.bus, 0, z, K) <=> Tells(e, z, K) \/ DueAfter(c, 0, z, K)
      /\ \A z \in Zones : BusTells(o.bus, z) /\ BusTells(c, z)
      /\ \A z \in Zones : zones[z] # Absent =>
            /\ Tells(e, z, {"removed"}) => DueAfter(c, 0, z, {"discovered"})
            /\ Tells(e, z, {"discovered"}) => e.doc = zones[z] \/ DueAfter(c, 0, z, Kinds)
    BY <1>3, Shifted DEF Sound
<1>5. \A z : DueAfter(c, 0, z, {"discovered"}) => DueAfter(c, 0, z, Kinds)
    BY DEF DueAfter, Tells, Kinds
<1> HIDE DEF e, c
<1>6. Sound(q)
    BY <1>2, <1>3, <1>4 DEF Sound, Handling
<1>7. ASSUME NEW z \in Zones, ZoneServed(o, z)
      PROVE  ZoneServed(q, z)
  <2> SUFFICES ASSUME zones[z] # Absent
               PROVE  /\ z \in q.slugs \/ DueAfter(c, 0, z, {"discovered"})
                      /\ q.cache[z] = zones[z] \/ DueAfter(c, 0, z, Kinds)
      BY <1>3 DEF ZoneServed
  <2>1. /\ z \in o.slugs \/ DueAfter(o.bus, 0, z, {"discovered"})
        /\ o.cache[z] = zones[z] \/ DueAfter(o.bus, 0, z, Kinds)
      BY <1>7 DEF ZoneServed
  <2>2. /\ Tells(e, z, {"discovered"}) => z \in q.slugs /\ q.cache[z] = e.doc
        /\ Tells(e, z, {"updated"}) => z \in q.slugs /\ q.cache[z] = zones[z]
        /\ Tells(e, z, {"volume"}) /\ z \in o.slugs => q.cache[z] = zones[z]
        /\ z \in o.slugs => z \in q.slugs \/ Tells(e, z, {"removed"})
        /\ ~Tells(e, z, Kinds) => q.cache[z] = o.cache[z] \/ q.cache[z] = zones[z]
      BY <1>2 DEF Effects
  <2>3. z \in q.slugs \/ DueAfter(c, 0, z, {"discovered"})
      BY <1>4, <2>1, <2>2
  <2>4. CASE ~Tells(e, z, Kinds)
      BY <1>4, <2>1, <2>2, <2>3, <2>4
  <2>5. CASE Tells(e, z, {"discovered"})
      BY <1>4, <2>2, <2>3, <2>5
  <2>6. CASE Tells(e, z, {"updated"})
      BY <2>2, <2>3, <2>6
  <2>7. CASE Tells(e, z, {"removed"})
      BY <1>4, <1>5, <2>3, <2>7
  <2>8. CASE Tells(e, z, {"volume"})
    <3>1. ~Tells(e, z, {"discovered"})
        BY <2>8 DEF Tells
    <3> QED BY <1>4, <1>5, <2>1, <2>2, <2>3, <2>8, <3>1
  <2>9. Tells(e, z, Kinds) =>
           \/ Tells(e, z, {"discovered"}) \/ Tells(e, z, {"updated"})
           \/ Tells(e, z, {"removed"}) \/ Tells(e, z, {"volume"})
      BY DEF Tells, Kinds
  <2> QED BY <2>4, <2>5, <2>6, <2>7, <2>8, <2>9
<1>8. ASSUME NEW r, Served(o, r)
      PROVE  Served(q, r)
  <2>1. BrokerFollows(q, r) /\ Retracted(q, r) /\ q.cache[Availability] = "online"
      BY <1>2, <1>8 DEF Handling, Served
  <2>2. \A z \in Zones : ZoneServed(q, z)
      BY <1>7, <1>8 DEF Served
  <2> QED BY <2>1, <2>2 DEF Served
<1> QED BY <1>2, <1>6, <1>8 DEF Handling
-------------------------------------------------------------------------------
(* The steps of the task *)

(* A task that has said and heard nothing yet.                             *)
LEMMA Silent ==
    ASSUME NEW q, q.requests = <<>>, q.bus = <<>>, q.cache = [t \in Topics |-> Unknown]
    PROVE  Sound(q)
<1>1. \A t, v : LastSays(q.requests, t, v)
    BY DEF LastSays
<1>2. CacheKnows(q) /\ Retracts(q)
    BY <1>1 DEF CacheKnows, Retracts
<1>3. \A z \in Zones : BusTells(q.bus, z)
    BY DEF BusTells
<1> QED BY <1>2, <1>3 DEF Sound

(* The zones and the knobs are what they were.                             *)
LEMMA Transport ==
    ASSUME zones' = zones
    PROVE  /\ \A q : task' = q => (Sound(task)' <=> Sound(q))
           /\ \A q, r : task' = q /\ retained' = r => (Served(task, retained)' <=> Served(q, r))
<1>1. zones' = zones /\ Present' = Present
    BY DEF Present
<1>2. ASSUME NEW b, NEW z
      PROVE  BusTells(b, z)' <=> BusTells(b, z)
    BY <1>1 DEF BusTells
<1>3. ASSUME NEW q, task' = q
      PROVE  Sound(task)' <=> Sound(q)
  <2>1. CacheKnows(task)' <=> CacheKnows(q)
      BY <1>3 DEF CacheKnows
  <2>2. Retracts(task)' <=> Retracts(q)
      BY <1>1, <1>3 DEF Retracts, GoneOnes, Excused
  <2>3. (\A z \in Zones : BusTells(task.bus, z))' <=> \A z \in Zones : BusTells(q.bus, z)
      BY <1>1, <1>3 DEF BusTells
  <2> QED BY <2>1, <2>2, <2>3 DEF Sound
<1>4. ASSUME NEW q, task' = q, NEW r, retained' = r
      PROVE  Served(task, retained)' <=> Served(q, r)
  <2>1. BrokerFollows(task, retained)' <=> BrokerFollows(q, r)
      BY <1>4 DEF BrokerFollows
  <2>2. Retracted(task, retained)' <=> Retracted(q, r)
      BY <1>1, <1>4 DEF Retracted, GoneOnes, Excused
  <2>3. (\A z \in Zones : ZoneServed(task, z))' <=> \A z \in Zones : ZoneServed(q, z)
      BY <1>1, <1>4 DEF ZoneServed
  <2>4. (task.cache[Availability] = "online")' <=> q.cache[Availability] = "online"
      BY <1>4
  <2>5. (~task.lagged)' <=> ~q.lagged
      BY <1>4
  <2> QED BY <2>1, <2>2, <2>3, <2>4, <2>5 DEF Served
<1> QED BY <1>3, <1>4

(* What the task is after a step that leaves the zones and the knobs alone.*)
LEMMA Stepped ==
    ASSUME UNCHANGED world, Typed, session' \in BOOLEAN,
           NEW q \in Tasks, task' = q, NEW r \in [Topics -> Payloads \cup {"offline"}],
           retained' = r, Sound(q), Resting(q),
           q.running /\ ~q.stuck /\ q.connected /\ session' => Served(q, r)
    PROVE  IInv'
<1>1. Typed'
    BY DEF Typed, world
<1>2. Sound(task)' /\ Resting(task)'
    BY Transport DEF world, Resting
<1>3. Serving' => q.running /\ ~q.stuck /\ q.connected /\ session'
    BY DEF Serving, Live
<1>4. Serving' => Served(task, retained)'
    BY <1>3, Transport DEF world
<1> QED BY <1>1, <1>2, <1>4 DEF IInv

(* A handler has answered, or the task waits.                              *)
LEMMA Answered ==
    ASSUME UNCHANGED world, Typed, session' \in BOOLEAN,
           NEW q, task' = q, NEW r \in [Topics -> Payloads \cup {"offline"}], retained' = r,
           \/ Waits(q)
           \/ /\ q \in Tasks /\ Sound(q) /\ q.running /\ ~q.stuck
              /\ q.connected /\ session' => Served(q, r)
    PROVE  IInv'
<1>1. CASE Waits(q)
  <2>1. q \in Tasks /\ q.stuck /\ Sound(q) /\ Resting(q)
      BY <1>1, Silent DEF Waits, Resting
  <2> QED BY <2>1, Stepped
<1>2. CASE /\ q \in Tasks /\ Sound(q) /\ q.running /\ ~q.stuck
           /\ q.connected /\ session' => Served(q, r)
    BY <1>2, Stepped DEF Resting
<1> QED BY <1>1, <1>2

(* What the broker retains has its type, with a last will and without.   *)
LEMMA RetainedTyped ==
    ASSUME Typed
    PROVE  /\ retained \in [Topics -> Payloads \cup {"offline"}]
           /\ Will(retained) \in [Topics -> Payloads \cup {"offline"}]
           /\ [t \in Topics |-> Absent] \in [Topics -> Payloads \cup {"offline"}]
           /\ session \in BOOLEAN /\ task \in Tasks
<1>1. Absent \in Payloads
    BY DEF Payloads
<1> QED BY <1>1 DEF Typed, Will

(* A new connection: the cache is forgotten and everything announced.      *)
LEMMA Connecting ==
    ASSUME IInv, Connect
    PROVE  IInv'
<1> DEFINE c == [task EXCEPT !.connected = TRUE, !.missed = @ \cup Overlooked(task)]
           p == ResetDedupe(c)
<1>1. /\ Typed /\ Sound(task) /\ UNCHANGED world /\ session' \in BOOLEAN /\ retained' = retained
      /\ task' = AnnounceAll(p) /\ task.running /\ ~task.stuck
    BY DEF IInv, Connect, Select, Live
<1>2. PICK q : q = AnnounceAll(p)
    OBVIOUS
<1>3. task \in Tasks /\ retained \in [Topics -> Payloads \cup {"offline"}]
    BY <1>1, RetainedTyped
<1>4. Overlooked(task) \subseteq Zones \cup Knobs
    BY DEF Overlooked
<1>5. /\ c \in Tasks /\ c.requests = task.requests /\ c.known = task.known /\ c.bus = task.bus
      /\ c.missed = task.missed \cup Overlooked(task)
      /\ c.running = task.running /\ c.stuck = task.stuck
    BY <1>3, <1>4 DEF Tasks
<1> HIDE DEF c
<1>6. /\ p \in Tasks /\ p.requests = task.requests /\ p.known = task.known /\ p.bus = task.bus
      /\ p.missed = task.missed \cup Overlooked(task)
      /\ p.running = task.running /\ p.stuck = task.stuck
      /\ \A t \in Topics : p.cache[t] = Unknown
  <2>1. [t \in Topics |-> Unknown] \in [Topics -> Payloads \cup {Unknown}]
      OBVIOUS
  <2> QED BY <1>5, <2>1 DEF Tasks, ResetDedupe
<1> HIDE DEF p
<1>7. CacheKnows(p) /\ BrokerFollows(p, retained)
    BY <1>6 DEF CacheKnows, BrokerFollows
<1>8. \A x : Excused(task, x) => Excused(p, x)
    BY <1>6 DEF Excused
<1>9. \/ Waits(q)
      \/ /\ q \in Tasks /\ Sound(q) /\ Same(p, q) /\ q.known = Paired
         /\ Owed(p, q, retained) => Served(q, retained)
    BY <1>1, <1>2, <1>6, <1>7, <1>8, AllServed
<1>10. ASSUME q.known = Paired
       PROVE  Owed(p, q, retained)
  <2> SUFFICES ASSUME NEW x \in GoneOnes(p), x \in GoneOnes(q), ~Excused(p, x)
               PROVE  Becomes(p.requests, retained, x, Absent)
      BY DEF Owed
  <2>1. /\ x \in (Zones \ Present) \cup (Knobs \ Paired) /\ x \in GoneOnes(task)
        /\ x \notin task.known
    <3>1. task.known \subseteq Knobs
        BY <1>3 DEF Tasks
    <3> QED BY <1>6, <1>10, <3>1, TopicsDiffer DEF GoneOnes
  <2>2. x \notin Overlooked(task) /\ ~Excused(task, x)
      BY <1>6, <1>8 DEF Excused
  <2>3. LastSays(task.requests, x, Absent)
      BY <1>1, <2>1, <2>2 DEF Sound, Retracts
  <2>4. ASSUME ~About(task.requests, x)
        PROVE  retained[x] = Absent
    <3>1. task.requests \in Seq(Messages) /\ task.bus \in Seq(Events)
        BY <1>3 DEF Tasks
    <3>2. ~\E i \in DOMAIN task.requests : task.requests[i] = Message(x, Absent)
        BY <2>4, <3>1 DEF About, Message
    <3>3. ~\E i \in DOMAIN task.bus : task.bus[i].kind = "removed" /\ x \in task.bus[i].zones
      <4>1. \A i \in DOMAIN task.bus : i \in 1 .. Len(task.bus) /\ i > 0
          BY <3>1
      <4> QED BY <2>2, <4>1 DEF Excused, DueAfter, Tells
    <3> QED BY <2>1, <2>2, <3>2, <3>3 DEF Overlooked
  <2> QED BY <1>6, <2>3, <2>4 DEF Becomes
<1>11. Same(p, q) => q.running /\ ~q.stuck
    BY <1>1, <1>6 DEF Same
<1> QED BY <1>1, <1>2, <1>3, <1>9, <1>10, <1>11, Answered

(* The birth message: everything is announced again.                       *)
LEMMA BirthHandled ==
    ASSUME IInv, Birth
    PROVE  IInv'
<1> DEFINE p == ResetDedupe(task)
<1>1. /\ Typed /\ Sound(task) /\ UNCHANGED world /\ session' \in BOOLEAN /\ retained' = retained
      /\ task' = AnnounceAll(p) /\ Serving
    BY DEF IInv, Birth, Select, broker, Serving, Typed
<1>2. PICK q : q = AnnounceAll(p)
    OBVIOUS
<1>3. task \in Tasks /\ retained \in [Topics -> Payloads \cup {"offline"}]
    BY <1>1, RetainedTyped
<1>4. /\ p \in Tasks /\ p.requests = task.requests /\ p.known = task.known /\ p.bus = task.bus
      /\ p.missed = task.missed /\ p.running = task.running /\ p.stuck = task.stuck
      /\ \A t \in Topics : p.cache[t] = Unknown
  <2>1. [t \in Topics |-> Unknown] \in [Topics -> Payloads \cup {Unknown}]
      OBVIOUS
  <2> QED BY <1>3, <2>1 DEF Tasks, ResetDedupe
<1> HIDE DEF p
<1>5. CacheKnows(p) /\ BrokerFollows(p, retained)
    BY <1>4 DEF CacheKnows, BrokerFollows
<1>6. \A x : Excused(task, x) <=> Excused(p, x)
    BY <1>4 DEF Excused
<1>7. \/ Waits(q)
      \/ /\ q \in Tasks /\ Sound(q) /\ Same(p, q)
         /\ Owed(p, q, retained) => Served(q, retained)
    BY <1>1, <1>2, <1>4, <1>5, <1>6, AllServed
<1>8. Owed(p, q, retained)
  <2>1. Retracted(task, retained)
      BY <1>1 DEF IInv, Served
  <2> QED BY <1>4, <1>6, <2>1 DEF Owed, Retracted, GoneOnes
<1>9. Same(p, q) => q.running /\ ~q.stuck
    BY <1>1, <1>4 DEF Same, Serving, Live
<1> QED BY <1>1, <1>2, <1>3, <1>7, <1>8, <1>9, Answered

(* The task has lagged behind the bus: everything is announced, and what   *)
(* the cache holds is not sent again.                                      *)
LEMMA Resynced ==
    ASSUME IInv, Resync
    PROVE  IInv'
<1> DEFINE p == [task EXCEPT !.lagged = FALSE]
<1>1. /\ Typed /\ Sound(task) /\ UNCHANGED world /\ session' = session /\ retained' = retained
      /\ task' = AnnounceAll(p) /\ Live
    BY DEF IInv, Resync, Select, broker
<1>2. PICK q : q = AnnounceAll(p)
    OBVIOUS
<1>3. /\ task \in Tasks /\ retained \in [Topics -> Payloads \cup {"offline"}]
      /\ session' \in BOOLEAN
    BY <1>1, RetainedTyped
<1>4. /\ p \in Tasks /\ p.requests = task.requests /\ p.known = task.known /\ p.bus = task.bus
      /\ p.missed = task.missed /\ p.cache = task.cache /\ p.running = task.running
      /\ p.stuck = task.stuck /\ p.connected = task.connected
    BY <1>3 DEF Tasks
<1> HIDE DEF p
<1>5. CacheKnows(p) /\ (BrokerFollows(task, retained) => BrokerFollows(p, retained))
    BY <1>1, <1>4 DEF Sound, CacheKnows, BrokerFollows
<1>6. \A x : Excused(task, x) <=> Excused(p, x)
    BY <1>4 DEF Excused
<1>7. \/ Waits(q)
      \/ /\ q \in Tasks /\ Sound(q) /\ Same(p, q)
         /\ BrokerFollows(p, retained) /\ Owed(p, q, retained) => Served(q, retained)
    BY <1>1, <1>2, <1>4, <1>5, <1>6, AllServed
<1>8. ASSUME Serving
      PROVE  BrokerFollows(p, retained) /\ Owed(p, q, retained)
  <2>1. BrokerFollows(task, retained) /\ Retracted(task, retained)
      BY <1>8 DEF IInv, Served
  <2> QED BY <1>4, <1>5, <1>6, <2>1 DEF Owed, Retracted, GoneOnes
<1>9. Same(p, q) => /\ q.running /\ ~q.stuck
                    /\ q.connected /\ session' => Serving
    BY <1>1, <1>4 DEF Same, Serving, Live
<1> QED BY <1>1, <1>2, <1>3, <1>7, <1>8, <1>9, Answered

(* The tick: the knobs are announced.                                      *)
LEMMA Ticked ==
    ASSUME IInv, Tick
    PROVE  IInv'
<1>1. /\ Typed /\ Sound(task) /\ UNCHANGED world /\ session' = session /\ retained' = retained
      /\ task' = AnnounceKnobs(task) /\ Live
    BY DEF IInv, Tick, Select, broker
<1>2. PICK q : q = AnnounceKnobs(task)
    OBVIOUS
<1>3. /\ task \in Tasks /\ retained \in [Topics -> Payloads \cup {"offline"}]
      /\ session' \in BOOLEAN
    BY <1>1, RetainedTyped
<1>4. CacheKnows(task) /\ Retracts(task)
    BY <1>1 DEF Sound
<1>5. \/ Waits(q)
      \/ /\ ~task.stuck /\ q \in Tasks /\ q.slugs = task.slugs /\ q.known = Paired
         /\ Sends(task, q, KnobMessages(task)) /\ Carries(q, KnobMessages(task)) /\ CacheKnows(q)
    BY <1>1, <1>2, <1>3, <1>4, KnobsAnnounced
<1>6. CASE Waits(q)
    BY <1>1, <1>2, <1>3, <1>6, Answered
<1>7. CASE ~Waits(q)
  <2>1. Same(task, q)
      BY <1>5, <1>7 DEF Sends
  <2>2. \A x : Excused(task, x) <=> Excused(q, x)
      BY <2>1 DEF Excused, Same
  <2>3. Says(task, q, {})
    <3>1. {} \cup KnobMessages(task) = KnobMessages(task)
        OBVIOUS
    <3>2. Carries(q, {})
        BY DEF Carries
    <3> QED BY <1>5, <1>7, <3>1, <3>2 DEF Says
  <2>4. /\ Retracts(q)
        /\ \A r : BrokerFollows(task, r) => BrokerFollows(q, r)
        /\ \A r : BrokerFollows(task, r) /\ Retracted(task, r) => Retracted(q, r)
        /\ q.cache[Availability] = task.cache[Availability]
        /\ \A z \in Zones : q.cache[z] = task.cache[z]
    <3>1. /\ \A x \in Knobs : Excused(task, x) => Excused(q, x)
          /\ \A x \in Zones \ Present : \/ Excused(q, x)
                                        \/ ~Excused(task, x) /\ \A m \in {} : m.topic = x => m.payload = Absent
        BY <2>2
    <3> QED BY <1>1, <1>3, <1>4, <2>3, <3>1, Saying
  <2>5. q \in Tasks /\ Sound(q)
      BY <1>1, <1>5, <1>7, <2>1, <2>4 DEF Sound, Same
  <2>6. Served(task, retained) => Served(q, retained)
    <3>1. \A z \in Zones : ZoneServed(task, z) => ZoneServed(q, z)
        BY <1>5, <1>7, <2>1, <2>4 DEF ZoneServed, Same
    <3>2. q.lagged = task.lagged
        BY <2>1 DEF Same
    <3> QED BY <2>4, <3>1, <3>2 DEF Served
  <2>7. /\ q.running /\ ~q.stuck
        /\ q.connected /\ session' => Served(task, retained)
      BY <1>1, <2>1 DEF Same, Serving, Live, IInv
  <2> QED BY <1>1, <1>2, <1>3, <2>5, <2>6, <2>7, Answered
<1> QED BY <1>6, <1>7

(* An event of the bus is handled.                                         *)
LEMMA EventHandled ==
    ASSUME IInv, Handle
    PROVE  IInv'
<1> DEFINE b == [task EXCEPT !.bus = Tail(@)]
<1>1. /\ Typed /\ Sound(task) /\ UNCHANGED world /\ session' = session /\ retained' = retained
      /\ task' = Handled(b, Head(task.bus)) /\ task.bus # <<>> /\ ~task.lagged /\ Live
    BY DEF IInv, Handle, Select, broker
<1>2. PICK q : q = Handled(b, Head(task.bus))
    OBVIOUS
<1>3. /\ task \in Tasks /\ retained \in [Topics -> Payloads \cup {"offline"}]
      /\ session' \in BOOLEAN
    BY <1>1, RetainedTyped
<1>4. \/ Waits(q)
      \/ /\ q \in Tasks /\ Sound(q) /\ Still(task, q)
         /\ \A r : Served(task, r) => Served(q, r)
    BY <1>1, <1>2, <1>3, HandledServes
<1>5. Still(task, q) => /\ q.running /\ ~q.stuck
                        /\ q.connected /\ session' => Served(task, retained)
    BY <1>1 DEF Still, Serving, Live, IInv
<1> HIDE DEF b
<1> QED BY <1>1, <1>2, <1>3, <1>4, <1>5, Answered

(* The connection has broken; what was queued is kept or lost.             *)
LEMMA Interrupting ==
    ASSUME IInv, Interrupted
    PROVE  IInv'
<1>1. PICK s \in {task.requests, <<>>} : task' = [task EXCEPT !.connected = FALSE, !.requests = s]
    BY DEF Interrupted
<1>2. PICK q : q = [task EXCEPT !.connected = FALSE, !.requests = s]
    OBVIOUS
<1>3. /\ Typed /\ Sound(task) /\ UNCHANGED world /\ session' = session /\ retained' = retained
      /\ task.running /\ ~task.stuck
    BY DEF IInv, Interrupted, Select, broker, Live
<1>4. /\ task \in Tasks /\ retained \in [Topics -> Payloads \cup {"offline"}]
      /\ session' \in BOOLEAN
    BY <1>3, RetainedTyped
<1>5. s \in Seq(Messages)
  <2>1. task.requests \in Seq(Messages)
      BY <1>4 DEF Tasks
  <2>2. <<>> \in Seq(Messages)
      OBVIOUS
  <2> QED BY <1>1, <2>1, <2>2
<1>6. /\ q \in Tasks /\ q.requests = s /\ ~q.connected /\ q.cache = task.cache
      /\ q.bus = task.bus /\ q.known = task.known /\ q.missed = task.missed
      /\ q.running = task.running /\ q.stuck = task.stuck
    BY <1>2, <1>4, <1>5 DEF Tasks
<1>7. \A t, v : LastSays(task.requests, t, v) => LastSays(s, t, v)
  <2>1. CASE s = task.requests
      BY <2>1
  <2>2. CASE s = <<>>
      BY <2>2 DEF LastSays
  <2> QED BY <2>1, <2>2
<1>8. CacheKnows(q)
    BY <1>3, <1>6, <1>7 DEF Sound, CacheKnows
<1>9. Retracts(q)
    BY <1>3, <1>6, <1>7 DEF Sound, Retracts, GoneOnes, Excused
<1>10. Sound(q)
    BY <1>3, <1>6, <1>8, <1>9 DEF Sound
<1> QED BY <1>1, <1>2, <1>3, <1>4, <1>6, <1>10, Answered

(* A message reaches the broker.                                           *)
LEMMA MessageSent ==
    ASSUME IInv, Send
    PROVE  IInv'
<1> DEFINE s == task.requests
           m == Head(s)
           R == IF m.topic = Subscription THEN retained ELSE [retained EXCEPT ![m.topic] = m.payload]
<1>1. /\ Typed /\ Sound(task) /\ UNCHANGED world /\ session' = session /\ retained' = R
      /\ task' = [task EXCEPT !.requests = Tail(@)] /\ s # <<>> /\ Serving
    BY DEF IInv, Send, Select, Serving
<1>2. PICK q : q = [task EXCEPT !.requests = Tail(@)]
    OBVIOUS
<1>3. PICK r : r = R
    OBVIOUS
<1>4. /\ task \in Tasks /\ retained \in [Topics -> Payloads \cup {"offline"}]
      /\ session' \in BOOLEAN
    BY <1>1, RetainedTyped
<1>5. s \in Seq(Messages) /\ m \in Messages /\ Tail(s) \in Seq(Messages)
  <2>1. s \in Seq(Messages)
      BY <1>4 DEF Tasks
  <2> QED BY <1>1, <2>1, HeadTailProperties
<1>6. /\ q \in Tasks /\ q.requests = Tail(s) /\ q.cache = task.cache /\ q.lagged = task.lagged
      /\ q.bus = task.bus /\ q.known = task.known /\ q.missed = task.missed /\ q.slugs = task.slugs
      /\ q.running = task.running /\ q.stuck = task.stuck
    BY <1>2, <1>4, <1>5 DEF Tasks
<1>7. r \in [Topics -> Payloads \cup {"offline"}]
    BY <1>3, <1>4, <1>5 DEF Messages
<1>8. \A t \in Topics : r[t] = IF m.topic = t THEN m.payload ELSE retained[t]
    BY <1>3, <1>4, PublisherAssumption DEF Topics
<1> HIDE DEF s, m, R
<1>9. ASSUME NEW t \in Topics, NEW v
      PROVE  /\ LastSays(s, t, v) => LastSays(q.requests, t, v)
             /\ Becomes(s, retained, t, v) => Becomes(q.requests, r, t, v)
  <2>1. r[t] = IF Head(s).topic = t THEN Head(s).payload ELSE retained[t]
      BY <1>8 DEF m
  <2> QED BY <1>1, <1>5, <1>6, <2>1, Sent
<1>10. GoneOnes(q) = GoneOnes(task) /\ (\A x : Excused(q, x) <=> Excused(task, x))
       /\ \A x \in GoneOnes(task) : x \in Topics
    BY <1>6 DEF GoneOnes, Excused, Topics
<1>11. Sound(q)
  <2>1. CacheKnows(q)
      BY <1>1, <1>6, <1>9 DEF Sound, CacheKnows, s
  <2>2. Retracts(q)
      BY <1>1, <1>9, <1>10 DEF Sound, Retracts, s
  <2> QED BY <1>1, <1>6, <2>1, <2>2 DEF Sound
<1>12. Served(q, r)
  <2>1. Served(task, retained)
      BY <1>1 DEF IInv
  <2>2. BrokerFollows(q, r)
      BY <1>6, <1>9, <2>1 DEF Served, BrokerFollows, s
  <2>3. Retracted(q, r)
      BY <1>9, <1>10, <2>1 DEF Served, Retracted, s
  <2>4. \A z \in Zones : ZoneServed(task, z) => ZoneServed(q, z)
      BY <1>6 DEF ZoneServed
  <2> QED BY <1>6, <2>1, <2>2, <2>3, <2>4 DEF Served
<1>13. q.running /\ ~q.stuck
    BY <1>1, <1>6 DEF Serving, Live
<1> QED BY <1>1, <1>2, <1>3, <1>4, <1>6, <1>7, <1>11, <1>12, <1>13, Answered


(* The task ends, or waits in vain for the room to say good-bye.           *)
LEMMA NoTaskRests ==
    /\ NoTask \in Tasks /\ ~NoTask.running /\ ~NoTask.connected /\ Sound(NoTask) /\ Resting(NoTask)
    /\ LET q == [NoTask EXCEPT !.running = TRUE] IN
       q \in Tasks /\ ~q.connected /\ Sound(q) /\ Resting(q)
<1> DEFINE q == [NoTask EXCEPT !.running = TRUE]
<1>1. /\ <<>> \in Seq(Messages) /\ <<>> \in Seq(Events)
      /\ [t \in Topics |-> Unknown] \in [Topics -> Payloads \cup {Unknown}]
    OBVIOUS
<1>2. /\ NoTask \in Tasks /\ ~NoTask.running /\ ~NoTask.connected
      /\ NoTask.requests = <<>> /\ NoTask.bus = <<>>
      /\ NoTask.cache = [t \in Topics |-> Unknown]
    BY <1>1 DEF NoTask, Tasks
<1>3. /\ q \in Tasks /\ ~q.connected /\ q.requests = <<>> /\ q.bus = <<>>
      /\ q.cache = [t \in Topics |-> Unknown]
    BY <1>1 DEF NoTask, Tasks
<1> HIDE DEF q
<1>4. Sound(NoTask) /\ Sound(q)
    BY <1>2, <1>3, Silent
<1> QED BY <1>2, <1>3, <1>4 DEF Resting, q

(* run ends, or the task is left behind.                                 *)
LEMMA Leaving ==
    ASSUME IInv, Exit \/ Abandon
    PROVE  IInv'
<1>1. /\ Typed /\ UNCHANGED world /\ session' \in BOOLEAN
      /\ retained' \in {retained, Will(retained)} /\ task' \in {NoTask, Stuck(task)}
    BY DEF IInv, Exit, Abandon, Select, broker, Typed
<1>2. PICK q \in {NoTask, Stuck(task)}, r \in {retained, Will(retained)} : task' = q /\ retained' = r
    BY <1>1
<1>3. r \in [Topics -> Payloads \cup {"offline"}] /\ task \in Tasks
    BY <1>1, RetainedTyped
<1>4. CASE q = NoTask
    BY <1>1, <1>2, <1>3, <1>4, NoTaskRests, Stepped
<1>5. CASE q = Stuck(task)
    BY <1>1, <1>2, <1>3, <1>5, Waiting, Answered
<1> QED BY <1>4, <1>5

(* A new task starts from nothing.                                       *)
LEMMA Starting ==
    ASSUME IInv, Start
    PROVE  IInv'
<1>1. /\ Typed /\ UNCHANGED world /\ session' = session /\ retained' = retained
      /\ task' = [NoTask EXCEPT !.running = TRUE]
    BY DEF IInv, Start, broker
<1>2. PICK q : q = [NoTask EXCEPT !.running = TRUE]
    OBVIOUS
<1>3. retained \in [Topics -> Payloads \cup {"offline"}] /\ session' \in BOOLEAN
    BY <1>1, RetainedTyped
<1>4. q \in Tasks /\ ~q.connected /\ Sound(q) /\ Resting(q)
    BY <1>2, NoTaskRests
<1> QED BY <1>1, <1>2, <1>3, <1>4, Stepped

(* The cancelled task goes on until it notices.                          *)
LEMMA Cancelling ==
    ASSUME IInv, Cancel
    PROVE  IInv'
<1>1. /\ Typed /\ Sound(task) /\ Resting(task) /\ UNCHANGED world /\ session' = session
      /\ retained' = retained /\ task' = [task EXCEPT !.cancelled = TRUE]
    BY DEF IInv, Cancel, broker
<1>2. PICK q : q = [task EXCEPT !.cancelled = TRUE]
    OBVIOUS
<1>3. /\ retained \in [Topics -> Payloads \cup {"offline"}] /\ session' \in BOOLEAN
      /\ task \in Tasks
    BY <1>1, RetainedTyped
<1>4. /\ q \in Tasks /\ q.requests = task.requests /\ q.cache = task.cache /\ q.bus = task.bus
      /\ q.known = task.known /\ q.missed = task.missed /\ q.slugs = task.slugs
      /\ q.running = task.running /\ q.stuck = task.stuck /\ q.connected = task.connected
      /\ q.lagged = task.lagged
    BY <1>2, <1>3 DEF Tasks
<1>5. GoneOnes(q) = GoneOnes(task) /\ \A x : Excused(q, x) <=> Excused(task, x)
    BY <1>4 DEF GoneOnes, Excused
<1>6. Sound(q) /\ Resting(q)
    BY <1>1, <1>4, <1>5 DEF Sound, Resting, CacheKnows, Retracts
<1>7. Served(task, retained) => Served(q, retained)
  <2>1. \A z \in Zones : ZoneServed(task, z) => ZoneServed(q, z)
      BY <1>4 DEF ZoneServed
  <2> QED BY <1>4, <1>5, <2>1 DEF Served, BrokerFollows, Retracted
<1>8. q.running /\ ~q.stuck /\ q.connected /\ session' => Served(q, retained)
    BY <1>1, <1>4, <1>7 DEF IInv, Serving, Live
<1> QED BY <1>1, <1>2, <1>3, <1>4, <1>6, <1>8, Stepped

(* The broker is lost, returns or gives up the connection.                 *)
LEMMA BrokerSteps ==
    ASSUME IInv, BrokerLost \/ BrokerReturns \/ KeepAliveEnds
    PROVE  IInv'
<1>1. Typed /\ Sound(task) /\ Resting(task) /\ UNCHANGED world /\ task' = task
    BY DEF IInv, BrokerLost, BrokerReturns, KeepAliveEnds
<1>2. /\ retained' \in {retained, Will(retained), [t \in Topics |-> Absent]}
      /\ \/ session' = FALSE
         \/ session' = session /\ retained' = retained
    BY DEF BrokerLost, BrokerReturns, KeepAliveEnds, world
<1>3. PICK q, r : q = task /\ r = retained'
    OBVIOUS
<1>4. /\ r \in [Topics -> Payloads \cup {"offline"}] /\ session' \in BOOLEAN /\ q \in Tasks
    BY <1>1, <1>2, <1>3, RetainedTyped
<1>5. Sound(q) /\ Resting(q)
    BY <1>1, <1>3
<1>6. q.running /\ ~q.stuck /\ q.connected /\ session' => Served(q, r)
    BY <1>2, <1>3 DEF IInv, Serving, Live
<1> QED BY <1>1, <1>3, <1>4, <1>5, <1>6, Stepped
-------------------------------------------------------------------------------
(* The steps of the zones and the knobs *)

(* An event that is appended is due after all the others.                  *)
LEMMA Appending ==
    ASSUME NEW b \in Seq(Events), NEW e \in Events
    PROVE  /\ Append(b, e) \in Seq(Events) /\ Len(Append(b, e)) = Len(b) + 1 /\ Len(b) \in Nat
           /\ \A i \in 1 .. Len(b) : Append(b, e)[i] = b[i]
           /\ Append(b, e)[Len(b) + 1] = e
           /\ \A i, z, K : DueAfter(b, i, z, K) => DueAfter(Append(b, e), i, z, K)
           /\ \A z, K : Tells(e, z, K) => \A i \in 0 .. Len(b) : DueAfter(Append(b, e), i, z, K)
<1> DEFINE c == Append(b, e)
<1>1. /\ c \in Seq(Events) /\ Len(c) = Len(b) + 1 /\ Len(b) \in Nat
      /\ \A i \in 1 .. Len(b) : c[i] = b[i]
      /\ c[Len(b) + 1] = e
    BY AppendProperties
<1> HIDE DEF c
<1>2. ASSUME NEW i, NEW z, NEW K, DueAfter(b, i, z, K)
      PROVE  DueAfter(c, i, z, K)
  <2>1. PICK j \in 1 .. Len(b) : j > i /\ Tells(b[j], z, K)
      BY <1>2 DEF DueAfter
  <2>2. j \in 1 .. Len(c) /\ c[j] = b[j]
      BY <1>1
  <2> QED BY <2>1, <2>2 DEF DueAfter
<1>3. ASSUME NEW z, NEW K, Tells(e, z, K), NEW i \in 0 .. Len(b)
      PROVE  DueAfter(c, i, z, K)
  <2>1. Len(b) + 1 \in 1 .. Len(c) /\ Len(b) + 1 > i
      BY <1>1
  <2> QED BY <1>1, <1>3, <2>1 DEF DueAfter
<1> QED BY <1>1, <1>2, <1>3 DEF c

(* A task that receives an event may lose its oldest.                      *)
Hears(p, q, b, e) ==
    /\ q \in Tasks /\ q.bus = Append(b, e)
    /\ q.running = p.running /\ q.stuck = p.stuck /\ q.connected = p.connected
    /\ q.cache = p.cache /\ q.requests = p.requests /\ q.slugs = p.slugs /\ q.known = p.known
    /\ ~q.lagged => ~p.lagged /\ b = p.bus
    /\ \A x : Excused(p, x) => Excused(q, x)

(* It loses an event only when its receiver is full, and then it has lagged.*)
LEMMA Receiving ==
    ASSUME Typed, NEW p \in Tasks, p.running, ~p.stuck, NEW e \in Events,
           NEW q, q = Received(p, e)
    PROVE  \E b \in Seq(Events) : /\ Hears(p, q, b, e)
                                  /\ \A z \in Zones : BusTells(p.bus, z) => BusTells(b, z)
<1>1. p.bus \in Seq(Events) /\ p.missed \in SUBSET (Zones \cup Knobs)
    BY DEF Tasks
<1>2. CASE Len(p.bus) < BusCapacity
  <2>1. q = [p EXCEPT !.bus = Append(p.bus, e)]
      BY <1>2 DEF Received
  <2>2. Append(p.bus, e) \in Seq(Events)
      BY <1>1, Appending
  <2>3. /\ q \in Tasks /\ q.bus = Append(p.bus, e) /\ q.missed = p.missed /\ q.lagged = p.lagged
        /\ q.running = p.running /\ q.stuck = p.stuck /\ q.connected = p.connected
        /\ q.cache = p.cache /\ q.requests = p.requests /\ q.slugs = p.slugs /\ q.known = p.known
      BY <2>1, <2>2 DEF Tasks
  <2>4. \A x : Excused(p, x) => Excused(q, x)
      BY <1>1, <2>3, Appending DEF Excused
  <2>5. Hears(p, q, p.bus, e)
      BY <2>3, <2>4 DEF Hears
  <2> QED BY <1>1, <2>5
<1>3. CASE ~(Len(p.bus) < BusCapacity)
  <2> DEFINE b == Tail(p.bus)
             M == IF Head(p.bus).kind = "removed" THEN p.missed \cup Head(p.bus).zones ELSE p.missed
  <2>1. q = [p EXCEPT !.bus = Append(b, e), !.lagged = TRUE, !.missed = M]
      BY <1>3 DEF Received
  <2>2. p.bus # <<>>
      BY <1>3, PublisherAssumption
  <2>3. /\ b \in Seq(Events) /\ Head(p.bus) \in Events
        /\ \A z, K : DueAfter(p.bus, 0, z, K) => Tells(Head(p.bus), z, K) \/ DueAfter(b, 0, z, K)
        /\ \A z \in Zones : BusTells(p.bus, z) => BusTells(b, z)
      BY <1>1, <2>2, Shifted
  <2>4. M \in SUBSET (Zones \cup Knobs) /\ p.missed \subseteq M
      BY <1>1, <2>3 DEF Events
  <2>5. \A x : Tells(Head(p.bus), x, {"removed"}) => x \in M
      BY DEF Tells
  <2> HIDE DEF b, M
  <2>6. Append(b, e) \in Seq(Events)
      BY <2>3, Appending
  <2>7. /\ q \in Tasks /\ q.bus = Append(b, e) /\ q.missed = M /\ q.lagged
        /\ q.running = p.running /\ q.stuck = p.stuck /\ q.connected = p.connected
        /\ q.cache = p.cache /\ q.requests = p.requests /\ q.slugs = p.slugs /\ q.known = p.known
      BY <2>1, <2>4, <2>6 DEF Tasks
  <2>8. ASSUME NEW x, Excused(p, x)
        PROVE  Excused(q, x)
    <3>1. x \in M \/ DueAfter(b, 0, x, {"removed"})
        BY <2>3, <2>4, <2>5, <2>8 DEF Excused
    <3>2. DueAfter(b, 0, x, {"removed"}) => DueAfter(Append(b, e), 0, x, {"removed"})
        BY <2>3, Appending
    <3> QED BY <2>7, <3>1, <3>2 DEF Excused
  <2>9. Hears(p, q, b, e)
      BY <2>7, <2>8 DEF Hears
  <2> QED BY <2>3, <2>9
<1> QED BY <1>2, <1>3

(* What the event e says has happened.                                     *)
Tidings(e) ==
    /\ \A z \in Zones \ e.zones : zones'[z] = zones[z]
    /\ \A z \in e.zones :
          \/ e.kind = "discovered" /\ zones'[z] = e.doc /\ zones'[z] # Absent
          \/ e.kind \in {"updated", "volume"} /\ zones[z] # Absent /\ zones'[z] # Absent
          \/ e.kind = "removed" /\ zones'[z] = Absent

(* The events still tell of every zone what it has come to.              *)
LEMMA BusHeard ==
    ASSUME NEW b \in Seq(Events), NEW e \in Events, Tidings(e), NEW z \in Zones, BusTells(b, z),
           NEW c, c = Append(b, e)
    PROVE  BusTells(c, z)'
<1>1. /\ c \in Seq(Events) /\ Len(c) = Len(b) + 1 /\ Len(b) \in Nat
      /\ \A i \in 1 .. Len(b) : c[i] = b[i]
      /\ c[Len(b) + 1] = e
      /\ \A i, K : DueAfter(b, i, z, K) => DueAfter(c, i, z, K)
      /\ \A K : Tells(e, z, K) => \A i \in 0 .. Len(b) : DueAfter(c, i, z, K)
    BY Appending
<1>2. ASSUME NEW i \in 1 .. Len(c)
      PROVE  \/ i \in 1 .. Len(b) /\ c[i] = b[i] /\ i \in 0 .. Len(b)
             \/ i = Len(b) + 1 /\ c[i] = e
    BY <1>1
<1>3. \A K : ~Tells(e, z, K) \/ z \in e.zones
    BY DEF Tells
<1>4. z \notin e.zones => zones'[z] = zones[z]
    BY DEF Tidings
<1>5. z \in e.zones =>
          \/ /\ Tells(e, z, {"discovered"}) /\ Tells(e, z, Kinds) /\ ~Tells(e, z, {"removed"})
             /\ zones'[z] = e.doc /\ zones'[z] # Absent
          \/ /\ Tells(e, z, Kinds) /\ ~Tells(e, z, {"discovered"}) /\ ~Tells(e, z, {"removed"})
             /\ zones[z] # Absent /\ zones'[z] # Absent
          \/ /\ Tells(e, z, {"removed"}) /\ e.kind = "removed" /\ zones'[z] = Absent
    BY DEF Tidings, Tells, Kinds
<1>6. ASSUME zones'[z] # Absent, NEW i \in 1 .. Len(c)
      PROVE  /\ Tells(c[i], z, {"removed"}) => DueAfter(c, i, z, {"discovered"})
             /\ Tells(c[i], z, {"discovered"}) =>
                   c[i].doc = zones'[z] \/ DueAfter(c, i, z, Kinds)
  <2>1. CASE i \in 1 .. Len(b) /\ c[i] = b[i] /\ i \in 0 .. Len(b)
    <3>1. CASE zones[z] # Absent
      <4>1. /\ Tells(c[i], z, {"removed"}) => DueAfter(c, i, z, {"discovered"})
            /\ Tells(c[i], z, {"discovered"}) =>
                  b[i].doc = zones[z] \/ DueAfter(c, i, z, Kinds)
          BY <1>1, <2>1, <3>1 DEF BusTells
      <4> QED BY <1>1, <1>4, <1>5, <1>6, <2>1, <4>1
    <3>2. CASE zones[z] = Absent
        BY <1>1, <1>4, <1>5, <1>6, <2>1, <3>2
    <3> QED BY <3>1, <3>2
  <2>2. CASE i = Len(b) + 1 /\ c[i] = e
      BY <1>3, <1>5, <1>6, <2>2
  <2> QED BY <1>2, <2>1, <2>2
<1>7. ASSUME zones'[z] = Absent, NEW i \in 1 .. Len(c), Tells(c[i], z, Kinds)
      PROVE  c[i].kind = "removed" \/ DueAfter(c, i, z, {"removed"})
  <2>1. CASE i \in 1 .. Len(b) /\ c[i] = b[i] /\ i \in 0 .. Len(b)
    <3>1. CASE z \in e.zones
        BY <1>1, <1>5, <1>7, <2>1, <3>1
    <3>2. CASE z \notin e.zones
        BY <1>1, <1>4, <1>7, <2>1, <3>2 DEF BusTells
    <3> QED BY <3>1, <3>2
  <2>2. CASE i = Len(b) + 1 /\ c[i] = e
      BY <1>3, <1>5, <1>7, <2>2
  <2> QED BY <1>2, <2>1, <2>2
<1> QED BY <1>6, <1>7 DEF BusTells

(* A change of zones, with its event, leaves everything in order.        *)
LEMMA Heard ==
    ASSUME IInv, NEW e \in Events, Tidings(e), zones' \in [Zones -> Docs \cup {Absent}],
           knobs' = knobs, task' = Received(task, e), UNCHANGED broker
    PROVE  IInv'
<1>1. Typed /\ Sound(task) /\ Resting(task) /\ task \in Tasks
    BY RetainedTyped DEF IInv
<1>2. session' = session /\ retained' = retained
    BY DEF broker
<1>3. PICK q : q = Received(task, e)
    OBVIOUS
<1>4. CASE ~task.running \/ task.stuck
  <2>1. task' = task
      BY <1>4 DEF Received
  <2>2. task.requests = <<>> /\ task.bus = <<>> /\ task.cache = [t \in Topics |-> Unknown]
      BY <1>1, <1>4 DEF Resting
  <2>3. Typed' /\ Resting(task)' /\ ~Serving'
      BY <1>1, <1>2, <1>4, <2>1 DEF Typed, Resting, Serving, Live
  <2>4. CacheKnows(task)'
      BY <2>1, <2>2 DEF CacheKnows
  <2>5. Retracts(task)'
      BY <2>1, <2>2 DEF Retracts, LastSays
  <2>6. (\A z \in Zones : BusTells(task.bus, z))'
      BY <2>1, <2>2 DEF BusTells
  <2> QED BY <2>3, <2>4, <2>5, <2>6 DEF IInv, Sound
<1>5. CASE task.running /\ ~task.stuck
  <2>1. PICK b \in Seq(Events) : /\ Hears(task, q, b, e)
                                 /\ \A z \in Zones : BusTells(task.bus, z) => BusTells(b, z)
      BY <1>1, <1>3, <1>5, Receiving
  <2>2. /\ q \in Tasks /\ q.bus = Append(b, e)
        /\ q.running = task.running /\ q.stuck = task.stuck /\ q.connected = task.connected
        /\ q.cache = task.cache /\ q.requests = task.requests /\ q.slugs = task.slugs
        /\ q.known = task.known
        /\ ~q.lagged => ~task.lagged /\ b = task.bus
        /\ \A x : Excused(task, x) => Excused(q, x)
      BY <2>1 DEF Hears
  <2>3. task' = q
      BY <1>3
  <2>4. ASSUME NEW z \in Zones
        PROVE  BusTells(q.bus, z)'
    <3>1. PICK c : c = q.bus
        OBVIOUS
    <3>2. BusTells(c, z)'
        BY <1>1, <2>1, <2>2, <3>1, BusHeard DEF Sound
    <3> QED BY <3>1, <3>2
  <2>5. /\ \A i, z, K : DueAfter(b, i, z, K) => DueAfter(q.bus, i, z, K)
        /\ \A z, K : Tells(e, z, K) => DueAfter(q.bus, 0, z, K)
    <3>1. 0 \in 0 .. Len(b)
        BY Appending
    <3> QED BY <2>2, <3>1, Appending
  <2>6. ASSUME NEW x, x \in GoneOnes(q)'
        PROVE  x \in GoneOnes(task) \/ Excused(q, x)
    <3>1. CASE x \in Zones /\ zones'[x] = Absent
      <4>1. CASE x \in e.zones
        <5>1. Tells(e, x, {"removed"})
            BY <3>1, <4>1 DEF Tidings, Tells
        <5> QED BY <2>5, <5>1 DEF Excused
      <4>2. CASE x \notin e.zones
          BY <3>1, <4>2 DEF Tidings, GoneOnes, Present
      <4> QED BY <4>1, <4>2
    <3>2. CASE x \in Knobs \ q.known
        BY <2>2, <3>2 DEF GoneOnes
    <3> QED BY <2>6, <3>1, <3>2 DEF GoneOnes, Present
  <2>7. Typed' /\ Resting(task)'
      BY <1>1, <1>2, <1>5, <2>2, <2>3 DEF Typed, Resting
  <2>8. Sound(task)'
    <3>1. CacheKnows(task)'
        BY <1>1, <2>2, <2>3 DEF Sound, CacheKnows
    <3>2. Retracts(task)'
      <4>1. \A x \in GoneOnes(q)' : Excused(q, x) \/ LastSays(q.requests, x, Absent)
          BY <1>1, <2>2, <2>6 DEF Sound, Retracts
      <4> QED BY <2>3, <4>1 DEF Retracts, GoneOnes, Excused
    <3>3. (\A z \in Zones : BusTells(task.bus, z))'
        BY <2>3, <2>4 DEF BusTells
    <3> QED BY <3>1, <3>2, <3>3 DEF Sound
  <2>9. ASSUME Serving'
        PROVE  Served(task, retained)'
    <3>1. Served(task, retained)
        BY <1>2, <2>2, <2>3, <2>9 DEF IInv, Serving, Live
    <3>2. BrokerFollows(task, retained)'
        BY <1>2, <2>2, <2>3, <3>1 DEF Served, BrokerFollows
    <3>3. Retracted(task, retained)'
      <4>1. \A x \in GoneOnes(q)' : Excused(q, x) \/ Becomes(q.requests, retained, x, Absent)
          BY <2>2, <2>6, <3>1 DEF Served, Retracted
      <4> QED BY <1>2, <2>3, <4>1 DEF Retracted, GoneOnes, Excused
    <3>4. ASSUME ~q.lagged, NEW z \in Zones, zones'[z] # Absent
          PROVE  /\ z \in q.slugs \/ DueAfter(q.bus, 0, z, {"discovered"})
                 /\ q.cache[z] = zones'[z] \/ DueAfter(q.bus, 0, z, Kinds)
      <4>1. ZoneServed(task, z) /\ b = task.bus
          BY <2>2, <3>1, <3>4 DEF Served
      <4>2. CASE z \notin e.zones
        <5>1. zones[z] = zones'[z]
            BY <4>2 DEF Tidings
        <5> QED BY <2>2, <2>5, <3>4, <4>1, <5>1 DEF ZoneServed
      <4>3. CASE z \in e.zones /\ e.kind = "discovered"
        <5>1. Tells(e, z, {"discovered"}) /\ Tells(e, z, Kinds)
            BY <4>3 DEF Tells, Kinds
        <5> QED BY <2>5, <5>1
      <4>4. CASE z \in e.zones /\ e.kind \in {"updated", "volume"} /\ zones[z] # Absent
        <5>1. Tells(e, z, Kinds)
            BY <4>4 DEF Tells, Kinds
        <5> QED BY <2>2, <2>5, <4>1, <4>4, <5>1 DEF ZoneServed
      <4> QED BY <3>4, <4>2, <4>3, <4>4 DEF Tidings
    <3>5. (~task.lagged => \A z \in Zones : ZoneServed(task, z))'
        BY <2>3, <3>4 DEF ZoneServed
    <3>6. (task.cache[Availability] = "online")'
        BY <2>2, <2>3, <3>1 DEF Served
    <3> QED BY <3>2, <3>3, <3>5, <3>6 DEF Served
  <2> QED BY <2>7, <2>8, <2>9 DEF IInv
<1> QED BY <1>4, <1>5

(* A change is committed before its event.                                 *)
LEMMA ZoneSteps ==
    ASSUME IInv,
           \/ \E z \in Zones : ZoneAppears(z) \/ ZoneChanges(z)
           \/ \E S \in SUBSET Zones : ZonesGo(S)
    PROVE  IInv'
<1>1. zones \in [Zones -> Docs \cup {Absent}] /\ Absent \notin Docs
    BY PublisherAssumption DEF IInv, Typed
<1>2. knobs' = knobs /\ UNCHANGED broker
    BY DEF ZoneAppears, ZoneChanges, ZonesGo, Change
<1>3. \E e \in Events : /\ Tidings(e) /\ task' = Received(task, e)
                        /\ zones' \in [Zones -> Docs \cup {Absent}]
  <2>1. ASSUME NEW z \in Zones, ZoneAppears(z)
        PROVE  \E e \in Events : /\ Tidings(e) /\ task' = Received(task, e)
                                 /\ zones' \in [Zones -> Docs \cup {Absent}]
    <3>1. PICK d \in Docs : zones' = [zones EXCEPT ![z] = d] /\ Event("discovered", {z}, d)
        BY <2>1 DEF ZoneAppears
    <3> DEFINE e == [kind |-> "discovered", zones |-> {z}, doc |-> d]
    <3>2. e \in Events /\ task' = Received(task, e)
        BY <3>1 DEF Events, Event
    <3>3. Tidings(e) /\ zones' \in [Zones -> Docs \cup {Absent}]
        BY <1>1, <3>1 DEF Tidings
    <3> QED BY <3>2, <3>3
  <2>2. ASSUME NEW z \in Zones, ZoneChanges(z)
        PROVE  \E e \in Events : /\ Tidings(e) /\ task' = Received(task, e)
                                 /\ zones' \in [Zones -> Docs \cup {Absent}]
    <3>1. PICK d \in Docs, k \in {"updated", "volume"} :
              /\ zones[z] # Absent /\ zones' = [zones EXCEPT ![z] = d]
              /\ Event(k, {z}, d)
        BY <2>2 DEF ZoneChanges
    <3> DEFINE e == [kind |-> k, zones |-> {z}, doc |-> d]
    <3>2. e \in Events /\ task' = Received(task, e)
        BY <3>1 DEF Events, Event
    <3>3. Tidings(e) /\ zones' \in [Zones -> Docs \cup {Absent}]
        BY <1>1, <3>1 DEF Tidings
    <3> QED BY <3>2, <3>3
  <2>3. ASSUME NEW S \in SUBSET Zones, ZonesGo(S)
        PROVE  \E e \in Events : /\ Tidings(e) /\ task' = Received(task, e)
                                 /\ zones' \in [Zones -> Docs \cup {Absent}]
    <3>1. /\ zones' = [z \in Zones |-> IF z \in S THEN Absent ELSE zones[z]]
          /\ Event("removed", S, Absent)
        BY <2>3 DEF ZonesGo
    <3> DEFINE e == [kind |-> "removed", zones |-> S, doc |-> Absent]
    <3>2. e \in Events /\ task' = Received(task, e)
        BY <3>1 DEF Events, Event
    <3>3. Tidings(e) /\ zones' \in [Zones -> Docs \cup {Absent}]
        BY <1>1, <3>1 DEF Tidings
    <3> QED BY <3>2, <3>3
  <2> QED BY <2>1, <2>2, <2>3
<1> QED BY <1>2, <1>3, Heard

(* The knob store changes without a word.                                  *)
LEMMA KnobSteps ==
    ASSUME IInv, NEW k \in Knobs, KnobChanges(k)
    PROVE  IInv'
<1>1. Typed /\ Sound(task) /\ Resting(task)
    BY DEF IInv
<1>2. zones' = zones /\ task' = task /\ session' = session /\ retained' = retained
    BY DEF KnobChanges, Change, broker
<1>3. knobs' \in [Knobs -> Docs \cup {Absent}]
    BY <1>1 DEF KnobChanges, Typed
<1>4. PICK q, r : q = task /\ r = retained
    OBVIOUS
<1>5. Sound(task)' /\ (Serving => Served(task, retained)')
    BY <1>1, <1>2, <1>4, Transport DEF IInv
<1>6. Typed' /\ Resting(task)' /\ (Serving' => Serving)
    BY <1>1, <1>2, <1>3 DEF Typed, Resting, Serving, Live
<1> QED BY <1>5, <1>6 DEF IInv

(* No task has been started.                                             *)
LEMMA Initially ==
    ASSUME Init
    PROVE  IInv
<1>1. /\ NoTask \in Tasks /\ ~NoTask.running /\ ~NoTask.connected /\ Sound(NoTask)
      /\ Resting(NoTask)
    BY NoTaskRests
<1>2. Absent \in Payloads
    BY DEF Payloads
<1> QED BY <1>1, <1>2 DEF Init, IInv, Typed, Serving, Live

(* The formula is inductive.                                               *)
LEMMA Inductive ==
    ASSUME IInv, [Next]_vars
    PROVE  IInv'
<1>1. CASE UNCHANGED vars
  <2>1. UNCHANGED world /\ task' = task /\ session' = session /\ retained' = retained
      BY <1>1 DEF vars, broker
  <2>2. PICK q, r : q = task /\ r = retained
      OBVIOUS
  <2>3. /\ Typed /\ Sound(q) /\ Resting(q) /\ q \in Tasks /\ session' \in BOOLEAN
        /\ r \in [Topics -> Payloads \cup {"offline"}]
      BY <2>1, <2>2, RetainedTyped DEF IInv
  <2>4. q.running /\ ~q.stuck /\ q.connected /\ session' => Served(q, r)
      BY <2>1, <2>2 DEF IInv, Serving, Live
  <2> QED BY <2>1, <2>2, <2>3, <2>4, Stepped
<1>2. CASE Next
    BY <1>2, ZoneSteps, KnobSteps, BrokerSteps, Connecting, Interrupting, MessageSent, BirthHandled,
       EventHandled, Resynced, Ticked, Leaving, Starting, Cancelling DEF Next
<1> QED BY <1>1, <1>2

(* So it holds for ever.                                                 *)
LEMMA Invariance == Spec => []IInv
<1>1. Init => IInv
    BY Initially
<1>2. IInv /\ [Next]_vars => IInv'
    BY Inductive
<1> QED BY <1>1, <1>2, PTL DEF Spec
-------------------------------------------------------------------------------
(* What a quiet publisher has sent *)

(* The cache is what the broker retains, and another announcement would    *)
(* find nothing new to say of the knobs.                                   *)
LEMMA QuietCache ==
    ASSUME IInv, Serving, Quiet
    PROVE  /\ Typed /\ Served(task, retained)
           /\ task.requests = <<>> /\ task.bus = <<>> /\ ~task.lagged
           /\ \A t \in Topics : task.cache[t] # Unknown => retained[t] = task.cache[t]
           /\ \A m \in KnobMessages(task) : task.cache[m.topic] = m.payload
           /\ \A x, K : ~DueAfter(task.bus, 0, x, K)
<1>1. /\ Typed /\ Sound(task) /\ Served(task, retained) /\ task \in Tasks
      /\ task.requests = <<>> /\ task.bus = <<>> /\ ~task.lagged
    BY RetainedTyped DEF IInv, Quiet
<1>2. PICK q : q = AnnounceKnobs(task)
    OBVIOUS
<1>3. q.requests = <<Subscribe>>
    BY <1>2 DEF Quiet
<1>4. CacheKnows(task)
    BY <1>1 DEF Sound
<1>5. \A t \in Topics : ~About(q.requests, t)
  <2>1. Subscribe.topic \notin Topics
      BY PublisherAssumption DEF Subscribe, Message, Topics
  <2> QED BY <1>3, <2>1 DEF About
<1>6. ~Waits(q)
    BY <1>3 DEF Waits
<1>7. Sends(task, q, KnobMessages(task)) /\ Carries(q, KnobMessages(task))
    BY <1>1, <1>2, <1>4, <1>6, KnobsAnnounced
<1>8. \A t \in Topics : q.cache[t] = task.cache[t]
    BY <1>4, <1>5, <1>7, Sending
<1>9. \A m \in KnobMessages(task) : m.topic \in Topics
    BY <1>1, KnobMessagesPlain DEF Topics
<1>10. \A m \in KnobMessages(task) : task.cache[m.topic] = m.payload
    BY <1>7, <1>8, <1>9 DEF Carries
<1>11. \A t \in Topics : task.cache[t] # Unknown => retained[t] = task.cache[t]
    BY <1>1 DEF Served, BrokerFollows, Becomes, About
<1>12. \A x, K : ~DueAfter(task.bus, 0, x, K)
    BY <1>1 DEF DueAfter
<1> QED BY <1>1, <1>10, <1>11, <1>12

(* A connected publisher that has nothing left to send has brought the     *)
(* broker to what the aggregator and the knob store hold, and routes the   *)
(* commands of every zone it shows (MqttClient::publish, reset_dedupe,     *)
(* announce_all_zones, handle_bus_event).                                  *)
THEOREM Current == Spec => []QuietMeansCurrent
<1>1. IInv => QuietMeansCurrent
  <2> SUFFICES ASSUME IInv, Serving, Quiet
               PROVE  /\ retained[Availability] = "online"
                      /\ \A z \in Present : retained[z] = zones[z] /\ z \in task.slugs
                      /\ \A k \in Paired : retained[k] = KnobDoc(k)
      BY DEF QuietMeansCurrent
  <2>1. /\ Typed /\ Served(task, retained) /\ ~task.lagged
        /\ \A t \in Topics : task.cache[t] # Unknown => retained[t] = task.cache[t]
        /\ \A m \in KnobMessages(task) : task.cache[m.topic] = m.payload
        /\ \A x, K : ~DueAfter(task.bus, 0, x, K)
      BY QuietCache
  <2>2. task \in Tasks
      BY <2>1, RetainedTyped
  <2>3. retained[Availability] = "online"
      BY <2>1, PublisherAssumption DEF Served, Topics
  <2>4. ASSUME NEW z \in Present
        PROVE  retained[z] = zones[z] /\ z \in task.slugs
    <3>1. z \in Zones /\ zones[z] # Absent /\ zones[z] \in Docs /\ z \in Topics
        BY <2>1 DEF Present, Typed, Topics
    <3>2. task.cache[z] = zones[z] /\ z \in task.slugs
        BY <2>1, <3>1 DEF Served, ZoneServed
    <3> QED BY <2>1, <3>1, <3>2, PublisherAssumption
  <2>5. ASSUME NEW k \in Paired
        PROVE  retained[k] = KnobDoc(k)
    <3>1. PICK m : m = Message(k, KnobDoc(k))
        OBVIOUS
    <3>2. m \in KnobMessages(task) /\ m.topic = k /\ m.payload = KnobDoc(k) /\ k \in Topics
      <4>1. \A j \in Paired : Message(j, KnobDoc(j)) \in KnobMessages(task)
          BY <2>1, <2>2, KnobMessagesPlain
      <4> QED BY <3>1, <4>1 DEF Message, Paired, Topics
    <3>3. task.cache[k] = KnobDoc(k)
        BY <2>1, <3>2
    <3>4. KnobDoc(k) \in KnobDocs
        BY <2>1 DEF KnobDocs, KnobDoc, Typed, Paired, Present
    <3> QED BY <2>1, <3>2, <3>3, <3>4, PublisherAssumption
  <2> QED BY <2>3, <2>4, <2>5
<1> QED BY <1>1, Invariance, PTL

(* What is gone and still on the broker of a quiet publisher was missed:   *)
(* its retraction was lost with a connection, or while no task was running,*)
(* or by lagging behind the bus (retract_zone, announce_all_knobs).        *)
THEOREM Retraction == Spec => []GoneIsRetracted
<1>1. IInv => GoneIsRetracted
  <2> SUFFICES ASSUME IInv, Serving, Quiet, NEW x \in (Zones \ Present) \cup (Knobs \ Paired)
               PROVE  retained[x] = Absent \/ x \in task.missed
      BY DEF GoneIsRetracted
  <2>1. /\ Typed /\ Served(task, retained) /\ task.requests = <<>>
        /\ \A t \in Topics : task.cache[t] # Unknown => retained[t] = task.cache[t]
        /\ \A m \in KnobMessages(task) : task.cache[m.topic] = m.payload
        /\ \A y, K : ~DueAfter(task.bus, 0, y, K)
      BY QuietCache
  <2>2. task \in Tasks
      BY <2>1, RetainedTyped
  <2>3. CASE x \in GoneOnes(task)
    <3>1. Excused(task, x) \/ Becomes(task.requests, retained, x, Absent)
        BY <2>1, <2>3 DEF Served, Retracted
    <3> QED BY <2>1, <3>1 DEF Excused, Becomes, About
  <2>4. CASE x \in task.known \ Paired
    <3>1. /\ Message(x, Absent) \in KnobMessages(task)
          /\ Message(x, Absent).topic = x /\ Message(x, Absent).payload = Absent
        BY <2>1, <2>2, <2>4, KnobMessagesPlain
    <3>2. task.cache[x] = Absent
        BY <2>1, <3>1
    <3> QED BY <2>1, <3>2, PublisherAssumption DEF Topics
  <2> QED BY <2>3, <2>4 DEF GoneOnes
<1> QED BY <1>1, Invariance, PTL
===============================================================================
