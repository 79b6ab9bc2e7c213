------------------------ MODULE HubConnector_proofs ------------------------
(***************************************************************************)
(* Delivery to the hub for every number of sessions, forwarders and        *)
(* events, every capacity and every set of events the hub rejects.         *)
(***************************************************************************)
EXTENDS HubConnector, TLAPS, FiniteSetTheorems

IsEvent(c) == c.kind = "event"

\* Numbers are stamped before they are dropped or due, and each is in one hand; what a
\* forwarder holds when the worker is asked to shut down is not due.
Stamped ==
  /\ \A s \in Sessions :
       /\ produced[s] <= total
       /\ due[s] <= produced[s]
       /\ \A n \in dropped[s] : n <= produced[s]
  /\ \A f \in Forwarders : hand[f] # 0 =>
       /\ hand[f] <= produced[SessionOf[f]] /\ due[SessionOf[f]] < hand[f]
       /\ \A g \in Forwarders : f # g /\ SessionOf[f] = SessionOf[g] => hand[f] # hand[g]

\* While the worker leaves, the channel holds only what came after the request,
\* unless the queue is too full for the worker to leave now.
Leaving ==
  /\ pc \in {"flush", "done"} => shutting = "yes"
  /\ pc = "done" => rx = <<>> /\ pending = <<>>
  /\ pc = "flush" /\ Len(pending) < PendingCapacity =>
       \A c \in ItemsOf(rx) : IsEvent(c) => c.seq > due[c.session]

\* Two events of the session s on their way, m in front: their numbers differ, and
\* they grow where one forwarder offers them.
Before(s, m, n) == m # n /\ (s \in OneForwarder => m < n)

Ordered(q) ==
  \A i, j \in 1..Len(q) :
    i < j /\ ~q[i].marker /\ ~q[j].marker /\ q[i].session = q[j].session =>
      Before(q[i].session, q[i].seq, q[j].seq)

\* The events of a session are in order through the queue and the channel.
EventsInOrder ==
  /\ Ordered(pending)
  /\ \A i, j \in 1..Len(rx) :
       i < j /\ IsEvent(rx[i]) /\ IsEvent(rx[j]) /\ rx[i].session = rx[j].session =>
         Before(rx[i].session, rx[i].seq, rx[j].seq)
  /\ \A x \in ItemsOf(pending) : ~x.marker => x.seq <= produced[x.session]
  /\ \A c \in ItemsOf(rx) : IsEvent(c) =>
       /\ c.seq <= produced[c.session]
       /\ \A x \in ItemsOf(pending) : ~x.marker /\ x.session = c.session =>
            Before(x.session, x.seq, c.seq)

\* What a forwarder holds comes behind the events of its session in queue and channel.
HeldBehind ==
  \A f \in Forwarders : hand[f] # 0 =>
    /\ \A x \in ItemsOf(pending) : ~x.marker /\ x.session = SessionOf[f] =>
         Before(x.session, x.seq, hand[f])
    /\ \A c \in ItemsOf(rx) : IsEvent(c) /\ c.session = SessionOf[f] =>
         Before(c.session, c.seq, hand[f])

\* No marker and no range counts an event that is still on its way.
CountsNone(nums, s) ==
  /\ \A x \in ItemsOf(pending) : ~x.marker /\ x.session = s => x.seq \notin nums
  /\ \A c \in ItemsOf(rx) : IsEvent(c) /\ c.session = s => c.seq \notin nums
  /\ \A f \in Forwarders : SessionOf[f] = s /\ hand[f] # 0 => hand[f] \notin nums

CountedApart ==
  /\ \A s \in Sessions : CountsNone(dropped[s], s)
  /\ \A x \in Markers : CountsNone(x.nums, x.session) /\ \A n \in x.nums : n <= produced[x.session]
  /\ DropsCountedOnce

\* A session without drops has no range and no marker.
CleanUnmarked ==
  /\ \A s \in Sessions : dropped[s] # {} => s \in lossy
  /\ \A x \in Markers : x.session \in lossy

\* Below an event of the batch that is on its way, the hub has or will get all.
GapFree(b) ==
  \A x \in ItemsOf(b) : x.session \in OneForwarder \ lossy =>
    \A m \in 1..x.seq : IsStored(x.session, m) \/ Event(x.session, m) \in ItemsOf(b)

HubInv ==
  /\ HubTypeOK /\ Stamped /\ Leaving
  /\ EventsInOrder /\ HeldBehind /\ CountedApart
  /\ CleanUnmarked /\ CleanDelivered /\ CursorHonest /\ GapFree(late)

-----------------------------------------------------------------------------
(* Numbers, items and commands. *)

\* A bounded set of numbers that is not empty has a last one.
LEMMA LastOfFacts ==
  ASSUME NEW n \in Nat, NEW K \in SUBSET (0..n), K # {}
  PROVE  LastOf(K) \in K /\ \A k \in K : k <= LastOf(K)
<1> DEFINE U == {u \in Nat : \A k \in K : k <= u}
<1> DEFINE R == OpToRel(<, Nat)
<1>1. n \in U
  OBVIOUS
<1>2. PICK u \in U : \A y \in U : ~(<<y, u>> \in R)
  <2>1. IsWellFoundedOn(R, Nat)
    BY NatLessThanWellFounded
  <2>2. U \subseteq Nat /\ U # {}
    BY <1>1
  <2> HIDE DEF U, R
  <2> QED
    BY <2>1, <2>2, WFMin
<1>3. \A y \in U : ~(y < u)
  BY <1>2 DEF OpToRel
<1>4. u \in K
  <2>1. SUFFICES ASSUME u \notin K PROVE FALSE
    OBVIOUS
  <2>2. \A k \in K : k \in Nat /\ k <= u /\ k # u
    BY <2>1
  <2>3. u \in Nat /\ u # 0
    <3>1. PICK k \in K : TRUE
      OBVIOUS
    <3> QED
      BY <2>2, <3>1
  <2>4. u - 1 \in U
    BY <2>2, <2>3
  <2> QED
    BY <1>3, <2>3, <2>4
<1>5. \E m \in K : \A k \in K : k <= m
  BY <1>4
<1> QED
  BY <1>5 DEF LastOf

LEMMA LastOfNumbers ==
  ASSUME NEW K \in SUBSET Numbers, K # {}
  PROVE  LastOf(K) \in K /\ \A k \in K : k <= LastOf(K)
<1>1. MaxEvents \in Nat /\ K \in SUBSET (0..MaxEvents)
  BY HubAssumption DEF Numbers
<1> QED
  BY <1>1, LastOfFacts

LEMMA NumbersFacts ==
  /\ MaxEvents \in Nat
  /\ \A n \in Numbers : n \in Nat /\ 1 <= n /\ n <= MaxEvents
BY HubAssumption DEF Numbers

LEMMA EventFacts ==
  ASSUME NEW s, NEW n
  PROVE  /\ Event(s, n).session = s /\ Event(s, n).seq = n /\ Event(s, n).nums = {n}
         /\ Event(s, n).marker = FALSE
         /\ s \in Sessions /\ n \in Numbers => Event(s, n) \in Item
<1>1. /\ Event(s, n).session = s /\ Event(s, n).seq = n /\ Event(s, n).nums = {n}
      /\ Event(s, n).marker = FALSE
  BY DEF Event
<1>2. s \in Sessions /\ n \in Numbers => Event(s, n) \in Item
  BY DEF Item
<1> QED
  BY <1>1, <1>2

LEMMA MarkerFacts ==
  ASSUME NEW s, NEW N
  PROVE  /\ Marker(s, N).session = s /\ Marker(s, N).nums = N /\ Marker(s, N).marker = TRUE
         /\ s \in Sessions /\ N \in SUBSET Numbers /\ N # {} => Marker(s, N) \in Item
<1>1. Marker(s, N).session = s /\ Marker(s, N).nums = N /\ Marker(s, N).marker = TRUE
  BY DEF Marker
<1>2. s \in Sessions /\ N \in SUBSET Numbers /\ N # {} => Marker(s, N) \in Item
  BY DEF Item
<1> QED
  BY <1>1, <1>2

LEMMA ItemFacts ==
  ASSUME NEW x \in Item
  PROVE  /\ x.session \in Sessions /\ x.seq \in Numbers /\ x.nums \in SUBSET Numbers
         /\ x.marker \in BOOLEAN
         /\ ~x.marker => x = Event(x.session, x.seq) /\ x.nums = {x.seq}
<1>1. CASE \E s \in Sessions, n \in Numbers : x = Event(s, n)
  <2>1. PICK s \in Sessions, n \in Numbers : x = Event(s, n)
    BY <1>1
  <2>2. x.session = s /\ x.seq = n /\ x.nums = {n} /\ x.marker = FALSE
    BY <2>1, EventFacts
  <2> QED
    BY <2>1, <2>2
<1>2. CASE \E s \in Sessions, N \in (SUBSET Numbers) \ {{}} : x = Marker(s, N)
  <2>1. PICK s \in Sessions, N \in (SUBSET Numbers) \ {{}} : x = Marker(s, N)
    BY <1>2
  <2>2. x.seq = LastOf(N)
    BY <2>1 DEF Marker
  <2>3. x.session = s /\ x.nums = N /\ x.marker = TRUE
    BY <2>1, MarkerFacts
  <2> QED
    BY <2>2, <2>3, LastOfNumbers
<1> QED
  BY <1>1, <1>2 DEF Item

LEMMA CommandFacts ==
  /\ \A s \in Sessions, n \in Numbers :
       /\ EventCmd(s, n) \in Command /\ IsEvent(EventCmd(s, n))
       /\ EventCmd(s, n).session = s /\ EventCmd(s, n).seq = n
  /\ EphemeralCmd \in Command /\ ~IsEvent(EphemeralCmd)
  /\ \A S \in Announces : AnnounceCmd(S) \in Command /\ ~IsEvent(AnnounceCmd(S))
<1>1. \A s \in Sessions, n \in Numbers : EventCmd(s, n) \in Command
  BY DEF Command
<1>2. \A s, n : /\ IsEvent(EventCmd(s, n))
                /\ EventCmd(s, n).session = s /\ EventCmd(s, n).seq = n
  BY DEF EventCmd, IsEvent
<1>3. EphemeralCmd \in Command /\ \A S \in Announces : AnnounceCmd(S) \in Command
  BY DEF Command
<1>4. ~IsEvent(EphemeralCmd) /\ \A S \in Announces : ~IsEvent(AnnounceCmd(S))
  BY DEF EphemeralCmd, AnnounceCmd, IsEvent
<1> QED
  BY <1>1, <1>2, <1>3, <1>4

LEMMA ReceivedFacts ==
  ASSUME NEW c \in Command
  PROVE  /\ c.kind \in {"event", "ephemeral", "announce"}
         /\ c.kind = "event" => /\ c.session \in Sessions /\ c.seq \in Numbers
                                /\ c = EventCmd(c.session, c.seq)
         /\ c.kind = "announce" => c.sessions \in Announces
BY DEF Command, EventCmd, EphemeralCmd, AnnounceCmd

-----------------------------------------------------------------------------
(* Queues. *)

LEMMA ItemsIn ==
  ASSUME NEW S, NEW q \in Seq(S)
  PROVE  Len(q) \in Nat /\ ItemsOf(q) \subseteq S /\ \A i \in 1..Len(q) : q[i] \in ItemsOf(q)
BY DEF ItemsOf

LEMMA ItemsConcat ==
  ASSUME NEW S, NEW p \in Seq(S), NEW q \in Seq(S)
  PROVE  /\ p \o q \in Seq(S) /\ Len(p \o q) = Len(p) + Len(q)
         /\ ItemsOf(p \o q) = ItemsOf(p) \cup ItemsOf(q)
<1>1. /\ p \o q \in Seq(S) /\ Len(p \o q) = Len(p) + Len(q) /\ Len(p) \in Nat /\ Len(q) \in Nat
      /\ \A i \in 1..Len(p) : (p \o q)[i] = p[i]
      /\ \A i \in 1..Len(q) : (p \o q)[Len(p) + i] = q[i]
  OBVIOUS
<1>2. ItemsOf(p \o q) \subseteq ItemsOf(p) \cup ItemsOf(q)
  <2> SUFFICES ASSUME NEW i \in 1..Len(p \o q) PROVE (p \o q)[i] \in ItemsOf(p) \cup ItemsOf(q)
    BY DEF ItemsOf
  <2>1. CASE i <= Len(p)
    BY <1>1, <2>1 DEF ItemsOf
  <2>2. CASE i > Len(p)
    <3>1. i - Len(p) \in 1..Len(q) /\ i = Len(p) + (i - Len(p))
      BY <1>1, <2>2
    <3>2. (p \o q)[i] = q[i - Len(p)]
      BY <1>1, <3>1
    <3> QED
      BY <3>1, <3>2 DEF ItemsOf
  <2> QED
    BY <1>1, <2>1, <2>2
<1>3. ItemsOf(p) \subseteq ItemsOf(p \o q)
  BY <1>1 DEF ItemsOf
<1>4. ItemsOf(q) \subseteq ItemsOf(p \o q)
  <2> SUFFICES ASSUME NEW i \in 1..Len(q) PROVE q[i] \in ItemsOf(p \o q)
    BY DEF ItemsOf
  <2>1. Len(p) + i \in 1..Len(p \o q)
    BY <1>1
  <2> QED
    BY <1>1, <2>1 DEF ItemsOf
<1> QED
  BY <1>1, <1>2, <1>3, <1>4

LEMMA OrderedConcat ==
  ASSUME NEW p \in Seq(Item), NEW q \in Seq(Item), Ordered(p), Ordered(q),
         \A x \in ItemsOf(p), y \in ItemsOf(q) :
           ~x.marker /\ ~y.marker /\ x.session = y.session => Before(x.session, x.seq, y.seq)
  PROVE  Ordered(p \o q)
<1> DEFINE r == p \o q
<1>1. /\ Len(r) = Len(p) + Len(q) /\ Len(p) \in Nat /\ Len(q) \in Nat
      /\ \A i \in 1..Len(p) : r[i] = p[i]
      /\ \A i \in 1..Len(q) : r[Len(p) + i] = q[i]
  OBVIOUS
<1> HIDE DEF r
<1>2. SUFFICES ASSUME NEW i \in 1..Len(r), NEW j \in 1..Len(r), i < j, ~r[i].marker,
                      ~r[j].marker, r[i].session = r[j].session
               PROVE  Before(r[i].session, r[i].seq, r[j].seq)
  BY DEF r, Ordered
<1>3. CASE j <= Len(p)
  <2>1. i \in 1..Len(p) /\ j \in 1..Len(p) /\ r[i] = p[i] /\ r[j] = p[j]
    BY <1>1, <1>2, <1>3
  <2> QED
    BY <1>2, <2>1 DEF Ordered
<1>4. CASE i > Len(p)
  <2>1. /\ i - Len(p) \in 1..Len(q) /\ j - Len(p) \in 1..Len(q) /\ i - Len(p) < j - Len(p)
        /\ i = Len(p) + (i - Len(p)) /\ j = Len(p) + (j - Len(p))
    BY <1>1, <1>2, <1>4
  <2>2. r[i] = q[i - Len(p)] /\ r[j] = q[j - Len(p)]
    BY <1>1, <2>1
  <2> QED
    BY <1>2, <2>1, <2>2 DEF Ordered
<1>5. CASE i <= Len(p) /\ j > Len(p)
  <2>1. i \in 1..Len(p) /\ j - Len(p) \in 1..Len(q) /\ j = Len(p) + (j - Len(p))
    BY <1>1, <1>2, <1>5
  <2>2. r[i] = p[i] /\ r[j] = q[j - Len(p)]
    BY <1>1, <2>1
  <2>3. r[i] \in ItemsOf(p) /\ r[j] \in ItemsOf(q)
    BY <2>1, <2>2 DEF ItemsOf
  <2> QED
    BY <1>2, <2>3
<1> QED
  BY <1>1, <1>3, <1>4, <1>5

\* A front part and the rest of a queue.
LEMMA SplitQueue ==
  ASSUME NEW q \in Seq(Item), NEW k \in 0..Len(q), Ordered(q)
  PROVE  LET r == SubSeq(q, k + 1, Len(q)) IN
         /\ r \in Seq(Item) /\ Len(r) = Len(q) - k
         /\ \A i \in 1..Len(r) : i + k \in 1..Len(q) /\ r[i] = q[i + k]
         /\ ItemsOf(r) = {q[i] : i \in (k + 1)..Len(q)}
         /\ Ordered(r)
<1> DEFINE r == SubSeq(q, k + 1, Len(q))
<1>1. Len(q) \in Nat /\ k \in Nat /\ k <= Len(q)
  OBVIOUS
<1>2. r \in Seq(Item) /\ Len(r) = Len(q) - k /\ \A i \in 1..Len(r) : r[i] = q[i + k]
  <2>1. r \in Seq(Item)
    BY <1>1
  <2>2. Len(r) = Len(q) - k
    BY <1>1
  <2>3. \A i \in 1..(Len(q) - k) : r[i] = q[i + k]
    BY <1>1
  <2> QED
    BY <2>1, <2>2, <2>3
<1> HIDE DEF r
<1>3. \A i \in 1..Len(r) : i + k \in 1..Len(q) /\ r[i] = q[i + k]
  BY <1>1, <1>2
<1>4. ItemsOf(r) = {q[i] : i \in (k + 1)..Len(q)}
  <2>1. ASSUME NEW i \in (k + 1)..Len(q) PROVE q[i] \in ItemsOf(r)
    <3>1. i - k \in 1..Len(r) /\ r[i - k] = q[i]
      BY <1>1, <1>2
    <3> QED
      BY <3>1 DEF ItemsOf
  <2>2. ASSUME NEW i \in 1..Len(r) PROVE r[i] \in {q[h] : h \in (k + 1)..Len(q)}
    <3>1. i + k \in (k + 1)..Len(q)
      BY <1>1, <1>2
    <3> QED
      BY <1>3, <3>1
  <2> QED
    BY <2>1, <2>2 DEF ItemsOf
<1>5. Ordered(r)
  <2> SUFFICES ASSUME NEW i \in 1..Len(r), NEW j \in 1..Len(r), i < j, ~r[i].marker,
                      ~r[j].marker, r[i].session = r[j].session
               PROVE  Before(r[i].session, r[i].seq, r[j].seq)
    BY DEF Ordered
  <2>1. i + k \in 1..Len(q) /\ j + k \in 1..Len(q) /\ i + k < j + k
    BY <1>1, <1>3
  <2> QED
    BY <1>3, <2>1 DEF Ordered
<1> QED
  BY <1>2, <1>3, <1>4, <1>5 DEF r

LEMMA FilteredFacts ==
  ASSUME NEW q \in Seq(Item), NEW I \in SUBSET (1..Len(q)), NEW f \in Filtered(q, I)
  PROVE  /\ f \in Seq(Item)
         /\ ItemsOf(f) = {q[i] : i \in I}
         /\ Ordered(q) => Ordered(f)
<1> DEFINE n == Cardinality(I)
<1>1. n \in Nat
  <2>1. IsFiniteSet(1..Len(q)) /\ Len(q) \in Nat
    BY FS_Interval
  <2>2. IsFiniteSet(I)
    BY <2>1, FS_Subset
  <2> QED
    BY <2>2, FS_CardinalityType
<1> HIDE DEF n
<1>2. PICK g \in [1..n -> I] :
        /\ \A i, j \in 1..n : i < j => g[i] < g[j]
        /\ \A k \in I : \E i \in 1..n : g[i] = k
        /\ f = [i \in 1..n |-> q[g[i]]]
  BY DEF Filtered, n
<1>3. \A i \in 1..n : g[i] \in I /\ g[i] \in 1..Len(q) /\ f[i] = q[g[i]] /\ q[g[i]] \in Item
  <2> TAKE i \in 1..n
  <2>1. g[i] \in I /\ f[i] = q[g[i]]
    BY <1>2
  <2>2. g[i] \in 1..Len(q)
    BY <2>1
  <2> QED
    BY <2>1, <2>2
<1>4. f \in Seq(Item) /\ Len(f) = n
  BY <1>1, <1>2, <1>3
<1>5. ItemsOf(f) = {q[i] : i \in I}
  BY <1>2, <1>3, <1>4 DEF ItemsOf
<1>6. ASSUME Ordered(q) PROVE Ordered(f)
  BY <1>2, <1>3, <1>4, <1>6 DEF Ordered
<1> QED
  BY <1>4, <1>5, <1>6

LEMMA MarkerSeqFacts ==
  ASSUME NEW ranges \in [Sessions -> SUBSET Numbers], NEW m \in MarkerSeqs(ranges)
  PROVE  /\ m \in Seq(Item)
         /\ \A x \in ItemsOf(m) : \E s \in Sessions : ranges[s] # {} /\ x = Marker(s, ranges[s])
         /\ \A x \in ItemsOf(m) : x.marker
<1> DEFINE D == {s \in Sessions : ranges[s] # {}}
           n == Cardinality(D)
<1>1. n \in Nat
  BY HubAssumption, FS_Subset, FS_CardinalityType
<1>2. PICK o \in [1..n -> D] : m = [i \in 1..n |-> Marker(o[i], ranges[o[i]])]
  BY DEF MarkerSeqs
<1> HIDE DEF n
<1>3. \A i \in 1..n : /\ o[i] \in Sessions /\ ranges[o[i]] # {}
                      /\ m[i] = Marker(o[i], ranges[o[i]]) /\ m[i] \in Item
  BY <1>2, MarkerFacts
<1>4. m \in Seq(Item) /\ Len(m) = n
  BY <1>1, <1>2, <1>3
<1>5. \A x \in ItemsOf(m) : \E s \in Sessions : ranges[s] # {} /\ x = Marker(s, ranges[s])
  BY <1>3, <1>4 DEF ItemsOf
<1> QED
  <2>1. \A x \in ItemsOf(m) : x.marker
    <3> TAKE x \in ItemsOf(m)
    <3>1. PICK s \in Sessions : x = Marker(s, ranges[s])
      BY <1>5
    <3>2. x.marker = TRUE
      BY <3>1, MarkerFacts
    <3> QED
      BY <3>2
  <2> QED
    BY <1>4, <1>5, <2>1

\* A queue of markers has no events to order.
LEMMA MarkersOrdered ==
  ASSUME NEW q \in Seq(Item), \A x \in ItemsOf(q) : x.marker
  PROVE  Ordered(q)
BY ItemsIn DEF Ordered

-----------------------------------------------------------------------------
(* The operators of the worker and the hub. *)

LEMMA QueueFacts ==
  ASSUME HubTypeOK
  PROVE  /\ Len(pending) \in Nat /\ ItemsOf(pending) \subseteq Item
         /\ \A i \in 1..Len(pending) : pending[i] \in Item /\ pending[i] \in ItemsOf(pending)
         /\ ItemsOf(late) \subseteq Item
         /\ ItemsOf(rx) \subseteq Command
         /\ Markers \subseteq Item
         /\ \A s \in Sessions : produced[s] \in Nat /\ due[s] \in Nat /\ dropped[s] \subseteq Numbers
<1>1. pending \in Seq(Item) /\ late \in Seq(Item) /\ rx \in Seq(Command) /\ stored \subseteq Item
  BY DEF HubTypeOK
<1>2. /\ Len(pending) \in Nat /\ ItemsOf(pending) \subseteq Item
      /\ \A i \in 1..Len(pending) : pending[i] \in Item /\ pending[i] \in ItemsOf(pending)
  BY <1>1, ItemsIn
<1>3. ItemsOf(late) \subseteq Item /\ ItemsOf(rx) \subseteq Command
  BY <1>1, ItemsIn
<1>4. Markers \subseteq Item
  BY <1>1, <1>2, <1>3 DEF Markers
<1>5. \A s \in Sessions : produced[s] \in Nat /\ due[s] \in Nat /\ dropped[s] \subseteq Numbers
  BY HubAssumption DEF HubTypeOK
<1> QED
  BY <1>2, <1>3, <1>4, <1>5

\* Forwarders and the sessions with one of them.
LEMMA HandFacts ==
  ASSUME HubTypeOK
  PROVE  /\ OneForwarder \subseteq Sessions
         /\ \A f \in Forwarders : SessionOf[f] \in Sessions /\ hand[f] \in Nat
         /\ \A f \in Forwarders : hand[f] # 0 => hand[f] \in Numbers
         /\ \A f, g \in Forwarders :
              SessionOf[f] = SessionOf[g] /\ SessionOf[f] \in OneForwarder => f = g
<1>1. /\ OneForwarder \subseteq Sessions
      /\ \A f, g \in Forwarders :
           SessionOf[f] = SessionOf[g] /\ SessionOf[f] \in OneForwarder => f = g
  BY DEF OneForwarder
<1>2. \A f \in Forwarders : hand[f] \in 0..MaxEvents /\ SessionOf[f] \in Sessions
  BY HubAssumption DEF HubTypeOK
<1> QED
  BY <1>1, <1>2, HubAssumption DEF Numbers

\* A batch is a front part of the queue.
LEMMA BatchFacts ==
  ASSUME HubTypeOK, NEW b \in Batches
  PROVE  /\ b \in Seq(Item) /\ Len(b) \in 1..Len(pending)
         /\ \A i \in 1..Len(b) : b[i] = pending[i]
         /\ ItemsOf(b) \subseteq ItemsOf(pending) /\ ItemsOf(b) \subseteq Item
<1>1. pending \in Seq(Item) /\ Len(pending) \in Nat
  BY DEF HubTypeOK
<1>2. PICK k \in 1..Len(pending) : b = SubSeq(pending, 1, k)
  BY DEF Batches
<1>3. b \in Seq(Item) /\ Len(b) = k /\ \A i \in 1..k : b[i] = pending[i]
  BY <1>1, <1>2
<1>4. ItemsOf(b) \subseteq ItemsOf(pending)
  BY <1>1, <1>3 DEF ItemsOf
<1> QED
  BY <1>2, <1>3, <1>4, QueueFacts

LEMMA LastSeqFacts ==
  ASSUME NEW S \in SUBSET Item, NEW s, \E x \in S : x.session = s
  PROVE  LET l == LastOf({x.seq : x \in {y \in S : y.session = s}}) IN
         /\ l \in Numbers
         /\ \E x \in S : x.session = s /\ x.seq = l
         /\ \A x \in S : x.session = s => x.seq <= l
<1> DEFINE K == {x.seq : x \in {y \in S : y.session = s}}
<1>1. K \in SUBSET Numbers /\ K # {}
  BY ItemFacts
<1>2. LastOf(K) \in K /\ \A k \in K : k <= LastOf(K)
  BY <1>1, LastOfNumbers
<1> QED
  BY <1>1, <1>2

\* The cursor of a session is the number of its last stored item.
LEMMA CursorFacts ==
  ASSUME HubTypeOK, NEW s \in Sessions
  PROVE  /\ LastSeq(s) \in Nat
         /\ LastSeq(s) # 0 => \E x \in stored : x.session = s /\ x.seq = LastSeq(s)
         /\ \A x \in stored : x.session = s => x.seq <= LastSeq(s)
<1>1. stored \in SUBSET Item
  BY DEF HubTypeOK
<1>2. CASE StoredOf(s) = {}
  BY <1>2 DEF LastSeq, StoredOf
<1>3. CASE StoredOf(s) # {}
  <2>1. \E x \in stored : x.session = s
    BY <1>3 DEF StoredOf
  <2> QED
    BY <1>1, <1>3, <2>1, LastSeqFacts, NumbersFacts DEF LastSeq, StoredOf
<1> QED
  BY <1>2, <1>3

\* The front part that an acknowledged batch removes.
LEMMA PoppedFacts ==
  ASSUME HubTypeOK, NEW b \in Batches
  PROVE  \E k \in 0..Len(pending) :
           /\ PoppedFront(b) = SubSeq(pending, k + 1, Len(pending))
           /\ \A i \in 1..k : \E z \in ItemsOf(b) : /\ z.session = pending[i].session
                                                    /\ pending[i].seq <= z.seq
<1> DEFINE Acked(x) == \E y \in ItemsOf(b) : y.session = x.session /\ x.seq <= UpToSeq(b, x.session)
           K == {j \in 0..Len(pending) : \A i \in 1..j : Acked(pending[i])}
<1>1. Len(pending) \in Nat /\ K \in SUBSET (0..Len(pending))
  BY QueueFacts
<1>2. 0 \in K
  BY <1>1
<1>3. LastOf(K) \in K
  BY <1>1, <1>2, LastOfFacts
<1>4. PoppedFront(b) = SubSeq(pending, LastOf(K) + 1, Len(pending))
  BY DEF PoppedFront
<1>5. ASSUME NEW i \in 1..LastOf(K)
      PROVE  \E z \in ItemsOf(b) : z.session = pending[i].session /\ pending[i].seq <= z.seq
  <2>1. Acked(pending[i])
    BY <1>3
  <2>2. ItemsOf(b) \in SUBSET Item
    BY BatchFacts
  <2>3. PICK z \in ItemsOf(b) : /\ z.session = pending[i].session
                                /\ z.seq = UpToSeq(b, pending[i].session)
    <3> HIDE DEF Acked
    <3>1. \E y \in ItemsOf(b) : y.session = pending[i].session
      BY <2>1 DEF Acked
    <3> QED
      BY <2>2, <3>1, LastSeqFacts DEF UpToSeq
  <2> QED
    BY <2>1, <2>3
<1> QED
  BY <1>3, <1>4, <1>5

\* An ingested batch: its items are stored, under their number at least.
LEMMA IngestedFacts ==
  ASSUME NEW b, ItemsOf(b) \subseteq Item, stored \subseteq Item
  PROVE  /\ stored \subseteq Ingested(b) /\ Ingested(b) \subseteq stored \cup ItemsOf(b)
         /\ \A x \in ItemsOf(b) : \E y \in Ingested(b) : y.session = x.session /\ y.seq = x.seq
BY DEF Ingested

-----------------------------------------------------------------------------
(* Steps that take items away or move them to the hub. *)

\* No new marker, no new event and no new drop.
NothingNew ==
  /\ UNCHANGED <<produced, total, hand, dropped>>
  /\ ItemsOf(pending') \subseteq ItemsOf(pending)
  /\ ItemsOf(rx') \subseteq ItemsOf(rx)
  /\ Markers' \subseteq Markers
  /\ lossy \subseteq lossy'

LEMMA NothingNewCounts ==
  ASSUME HubInv, NothingNew
  PROVE  CountedApart' /\ CleanUnmarked'
<1>1. ASSUME NEW nums, NEW s, CountsNone(nums, s)
      PROVE  /\ \A x \in ItemsOf(pending') : ~x.marker /\ x.session = s => x.seq \notin nums
             /\ \A c \in ItemsOf(rx') : IsEvent(c) /\ c.session = s => c.seq \notin nums
             /\ \A f \in Forwarders : SessionOf[f] = s /\ hand'[f] # 0 => hand'[f] \notin nums
  BY <1>1 DEF NothingNew, CountsNone
<1>2. \A s \in Sessions : CountsNone(dropped[s], s)'
  BY <1>1 DEF NothingNew, HubInv, CountedApart, CountsNone
<1>3. \A x \in Markers' : CountsNone(x.nums, x.session)' /\ \A n \in x.nums : n <= produced'[x.session]
  <2> TAKE x \in Markers'
  <2>1. x \in Markers
    BY DEF NothingNew
  <2>2. CountsNone(x.nums, x.session) /\ \A n \in x.nums : n <= produced[x.session]
    BY <2>1 DEF HubInv, CountedApart
  <2> QED
    BY <1>1, <2>2 DEF NothingNew, CountsNone
<1>4. DropsCountedOnce'
  <2>1. DropsCountedOnce /\ Markers' \subseteq Markers /\ dropped' = dropped
    BY DEF HubInv, CountedApart, NothingNew
  <2> QED
    BY <2>1 DEF DropsCountedOnce
<1>5. CleanUnmarked'
  BY DEF HubInv, CleanUnmarked, NothingNew
<1> QED
  BY <1>2, <1>3, <1>4, <1>5 DEF CountedApart

\* No event enters the channel: what a forwarder holds stays behind the others.
LEMMA HeldStaysBehind ==
  ASSUME HubInv, hand' = hand, ItemsOf(rx') \subseteq ItemsOf(rx),
         \A x \in ItemsOf(pending') : ~x.marker =>
           \/ x \in ItemsOf(pending)
           \/ \E c \in ItemsOf(rx) : IsEvent(c) /\ c.session = x.session /\ c.seq = x.seq
  PROVE  HeldBehind'
<1> SUFFICES ASSUME NEW f \in Forwarders, hand[f] # 0
             PROVE  /\ \A x \in ItemsOf(pending') : ~x.marker /\ x.session = SessionOf[f] =>
                         Before(x.session, x.seq, hand[f])
                    /\ \A c \in ItemsOf(rx') : IsEvent(c) /\ c.session = SessionOf[f] =>
                         Before(c.session, c.seq, hand[f])
  BY DEF HeldBehind, IsEvent, Before
<1>1. /\ \A x \in ItemsOf(pending) : ~x.marker /\ x.session = SessionOf[f] =>
           Before(x.session, x.seq, hand[f])
      /\ \A c \in ItemsOf(rx) : IsEvent(c) /\ c.session = SessionOf[f] =>
           Before(c.session, c.seq, hand[f])
  BY DEF HubInv, HeldBehind
<1> QED
  BY <1>1

LEMMA NothingNewOrder ==
  ASSUME HubInv, NothingNew, rx' = rx \/ rx' = <<>>, Ordered(pending')
  PROVE  EventsInOrder' /\ HeldBehind'
<1>1. Ordered(pending)'
  BY DEF Ordered
<1>2. \A i, j \in 1..Len(rx') :
        i < j /\ IsEvent(rx'[i]) /\ IsEvent(rx'[j]) /\ rx'[i].session = rx'[j].session =>
          Before(rx'[i].session, rx'[i].seq, rx'[j].seq)
  <2>1. CASE rx' = rx
    BY <2>1 DEF HubInv, EventsInOrder
  <2>2. CASE rx' = <<>>
    BY <2>2
  <2> QED
    BY <2>1, <2>2
<1>3. \A x \in ItemsOf(pending') : ~x.marker => x.seq <= produced'[x.session]
  BY DEF HubInv, EventsInOrder, NothingNew
<1>4. \A c \in ItemsOf(rx') : IsEvent(c) =>
        /\ c.seq <= produced'[c.session]
        /\ \A x \in ItemsOf(pending') : ~x.marker /\ x.session = c.session =>
             Before(x.session, x.seq, c.seq)
  BY DEF HubInv, EventsInOrder, NothingNew
<1>5. HeldBehind'
  BY HeldStaysBehind DEF NothingNew
<1> QED
  BY <1>1, <1>2, <1>3, <1>4, <1>5 DEF EventsInOrder, IsEvent, Before

\* A hub that stores more keeps what it had, and late batches stay gap-free.
LEMMA GapFreeKeeps ==
  ASSUME GapFree(late), stored \subseteq stored', lossy \subseteq lossy', late' = late \/ late' = <<>>
  PROVE  GapFree(late)'
<1>1. CASE late' = <<>>
  <2>1. ItemsOf(late') = {}
    BY <1>1 DEF ItemsOf
  <2> QED
    BY <2>1 DEF GapFree
<1>2. CASE late' = late
  BY <1>2 DEF GapFree, IsStored
<1> QED
  BY <1>1, <1>2

LEMMA CursorKeeps ==
  ASSUME CursorHonest, stored' = stored, lossy \subseteq lossy'
  PROVE  CursorHonest'
<1>1. \A s : LastSeq(s)' = LastSeq(s)
  BY DEF LastSeq, StoredOf
<1>2. \A s, n : IsStored(s, n)' <=> IsStored(s, n)
  BY DEF IsStored
<1> QED
  BY <1>1, <1>2 DEF CursorHonest

\* A batch of the queue has no gap below its events that the hub does not have.
LEMMA BatchGapFree ==
  ASSUME HubInv, pc # "done", NEW b \in Batches
  PROVE  GapFree(b)
<1> SUFFICES ASSUME NEW x \in ItemsOf(b), x.session \in OneForwarder \ lossy,
                    NEW m \in 1..x.seq, ~IsStored(x.session, m)
             PROVE  Event(x.session, m) \in ItemsOf(b)
  BY DEF GapFree
<1> DEFINE s == x.session
<1>1. /\ b \in Seq(Item) /\ Len(b) \in 1..Len(pending) /\ ItemsOf(b) \subseteq ItemsOf(pending)
      /\ \A i \in 1..Len(b) : b[i] = pending[i]
  BY BatchFacts DEF HubInv
<1>2. Len(pending) \in Nat /\ \A i \in 1..Len(pending) : pending[i] \in Item
  BY QueueFacts DEF HubInv
<1>3. PICK i \in 1..Len(b) : x = b[i] /\ x = pending[i] /\ i \in 1..Len(pending)
  BY <1>1, <1>2 DEF ItemsOf
<1>4. x \in Item /\ s \in Sessions /\ x.seq \in Numbers /\ x.seq \in Nat
  BY <1>2, <1>3, ItemFacts, NumbersFacts
<1>5. ~x.marker
  <2>1. x \in ItemsOf(pending)
    BY <1>1
  <2> QED
    BY <2>1 DEF HubInv, CleanUnmarked, Markers
<1>6. x.seq <= produced[s] /\ produced[s] \in Nat
  BY <1>1, <1>4, <1>5, QueueFacts DEF HubInv, EventsInOrder
<1>7. m \in 1..produced[s] /\ m \in Nat /\ m <= x.seq
  BY <1>4, <1>6
<1>8. InHand(s, m) \/ EventCmd(s, m) \in ItemsOf(rx) \/ Event(s, m) \in ItemsOf(pending)
  BY <1>4, <1>7 DEF HubInv, CleanDelivered
<1>11. CASE InHand(s, m)
  <2>1. PICK f \in Forwarders : SessionOf[f] = s /\ hand[f] = m
    BY <1>11 DEF InHand
  <2>2. hand[f] # 0
    BY <2>1
  <2>3. x.seq < m
    BY <1>1, <1>5, <2>1, <2>2 DEF HubInv, HeldBehind, Before
  <2> QED
    BY <1>4, <1>7, <2>3
<1>9. CASE EventCmd(s, m) \in ItemsOf(rx)
  <2>1. IsEvent(EventCmd(s, m)) /\ EventCmd(s, m).session = s /\ EventCmd(s, m).seq = m
    BY DEF EventCmd, IsEvent
  <2>2. x.seq < m
    BY <1>1, <1>5, <1>9, <2>1 DEF HubInv, EventsInOrder, Before
  <2> QED
    BY <1>4, <1>7, <2>2
<1>10. CASE Event(s, m) \in ItemsOf(pending)
  <2>1. PICK j \in 1..Len(pending) : pending[j] = Event(s, m)
    BY <1>10 DEF ItemsOf
  <2>2. pending[j].session = s /\ pending[j].seq = m /\ pending[j].marker = FALSE
    BY <2>1 DEF Event
  <2>3. ~(i < j)
    <3>1. Ordered(pending)
      BY DEF HubInv, EventsInOrder
    <3>2. SUFFICES ASSUME i < j PROVE FALSE
      OBVIOUS
    <3>3. pending[i].seq < pending[j].seq
      BY <1>3, <1>5, <2>2, <3>1, <3>2 DEF Ordered, Before
    <3> QED
      BY <1>3, <1>4, <1>7, <2>2, <3>3
  <2>4. j \in 1..Len(b) /\ b[j] = Event(s, m)
    BY <1>1, <1>2, <2>1, <2>3
  <2> QED
    BY <2>4 DEF ItemsOf
<1> QED
  BY <1>8, <1>9, <1>10, <1>11

\* The hub's cursors stay honest when it ingests a batch without gaps, and it has
\* then every event up to the batch's.
LEMMA IngestHonest ==
  ASSUME HubInv, NEW b, ItemsOf(b) \subseteq Item, GapFree(b), stored' = Ingested(b),
         lossy' = lossy, \A x \in ItemsOf(b) : x.marker => x.session \in lossy
  PROVE  /\ CursorHonest'
         /\ stored \subseteq stored' /\ stored' \subseteq Item /\ stored' \subseteq stored \cup ItemsOf(b)
         /\ \A x \in ItemsOf(b) : x.session \in OneForwarder \ lossy =>
              \A m \in 1..x.seq : IsStored(x.session, m)'
<1>1. /\ stored \subseteq Item /\ stored \subseteq stored' /\ stored' \subseteq stored \cup ItemsOf(b)
      /\ stored' \subseteq Item
      /\ \A x \in ItemsOf(b) : \E y \in stored' : y.session = x.session /\ y.seq = x.seq
  BY IngestedFacts DEF HubInv, HubTypeOK
<1>2. \A y \in stored' : y.session \notin lossy => y = Event(y.session, y.seq)
  <2> TAKE y \in stored'
  <2>1. y \in Item /\ (~y.marker => y = Event(y.session, y.seq))
    BY <1>1, ItemFacts
  <2>2. y.marker => y.session \in lossy
    BY <1>1 DEF HubInv, CleanUnmarked, Markers
  <2> QED
    BY <2>1, <2>2
<1>3. ASSUME NEW x \in ItemsOf(b), x.session \in OneForwarder \ lossy, NEW m \in 1..x.seq
      PROVE  IsStored(x.session, m)'
  <2>1. CASE IsStored(x.session, m)
    BY <1>1, <2>1 DEF IsStored
  <2>2. CASE Event(x.session, m) \in ItemsOf(b)
    <3>1. PICK y \in stored' : y.session = Event(x.session, m).session /\ y.seq = Event(x.session, m).seq
      BY <1>1, <2>2
    <3>2. y.session = x.session /\ y.seq = m
      BY <3>1, EventFacts
    <3>3. y = Event(x.session, m)
      BY <1>2, <1>3, <3>1, <3>2
    <3> QED
      BY <3>1, <3>3 DEF IsStored
  <2> QED
    BY <1>3, <2>1, <2>2 DEF GapFree
<1>4. ASSUME NEW s \in Sessions, s \in OneForwarder \ lossy, NEW n \in 1..LastSeq(s)'
      PROVE  IsStored(s, n)'
  <2>1. PICK x \in stored' : x.session = s /\ n \in 1..x.seq
    <3>1. StoredOf(s)' # {}
      BY <1>4 DEF LastSeq
    <3>2. \E x \in stored' : x.session = s
      BY <3>1 DEF StoredOf
    <3>3. LastSeq(s)' = LastOf({x.seq : x \in {y \in stored' : y.session = s}})
      BY <3>1 DEF LastSeq, StoredOf
    <3>4. stored' \in SUBSET Item
      BY <1>1
    <3>5. PICK x \in stored' : x.session = s /\ x.seq = LastSeq(s)'
      <4> DEFINE l == LastOf({x.seq : x \in {y \in stored' : y.session = s}})
      <4>1. \E x \in stored' : x.session = s /\ x.seq = l
        BY <3>2, <3>4, LastSeqFacts
      <4> QED
        BY <3>3, <4>1
    <3> QED
      BY <1>4, <3>5
  <2>2. CASE x \in ItemsOf(b)
    BY <1>3, <1>4, <2>1, <2>2
  <2>3. CASE x \in stored
    <3>1. LastSeq(s) \in Nat /\ x.seq <= LastSeq(s) /\ x.seq \in Nat
      BY <1>1, <1>4, <2>1, <2>3, CursorFacts, ItemFacts, NumbersFacts DEF HubInv
    <3>2. n \in 1..LastSeq(s)
      BY <2>1, <3>1
    <3>3. IsStored(s, n)
      BY <1>4, <3>2 DEF HubInv, CursorHonest
    <3> QED
      BY <1>1, <3>3 DEF IsStored
  <2> QED
    BY <1>1, <2>1, <2>2, <2>3
<1>5. CursorHonest'
  BY <1>4, HandFacts DEF CursorHonest, HubInv
<1> QED
  BY <1>1, <1>3, <1>5

\* What every step that delivers, trims or repeats has to show.
LEMMA DeliveryKeepsInv ==
  ASSUME HubInv, HubTypeOK', UNCHANGED <<produced, total, hand, dropped, rx, lossy, due, shutting>>,
         Ordered(pending'), ItemsOf(pending') \subseteq ItemsOf(pending),
         stored \subseteq stored',
         stored' \cup ItemsOf(late') \subseteq stored \cup ItemsOf(late) \cup ItemsOf(pending),
         (pc' = pc /\ pending' = pending) \/ (pc = "deliver" /\ pc' \in {"deliver", "top"}),
         CursorHonest', GapFree(late)',
         \A s \in OneForwarder \ lossy : \A n \in 1..produced[s] :
           Event(s, n) \in ItemsOf(pending) => Event(s, n) \in ItemsOf(pending') \/ IsStored(s, n)'
  PROVE  HubInv'
<1>1. Markers' \subseteq Markers
  BY DEF Markers
<1>2. NothingNew
  BY <1>1 DEF NothingNew
<1>3. EventsInOrder' /\ HeldBehind' /\ CountedApart' /\ CleanUnmarked'
  BY <1>2, NothingNewOrder, NothingNewCounts
<1>4. Stamped'
  BY DEF HubInv, Stamped
<1>5. Leaving'
  BY DEF HubInv, Leaving
<1>6. CleanDelivered'
  <2> SUFFICES ASSUME NEW s \in OneForwarder \ lossy, NEW n \in 1..produced[s]
               PROVE  \/ InHand(s, n)
                      \/ EventCmd(s, n) \in ItemsOf(rx)
                      \/ Event(s, n) \in ItemsOf(pending')
                      \/ IsStored(s, n)'
                      \/ pc' = "done" /\ n > due[s]
    BY DEF CleanDelivered, InHand
  <2>1. \/ InHand(s, n)
        \/ EventCmd(s, n) \in ItemsOf(rx)
        \/ Event(s, n) \in ItemsOf(pending)
        \/ IsStored(s, n)
        \/ pc = "done" /\ n > due[s]
    BY DEF HubInv, CleanDelivered
  <2>2. IsStored(s, n) => IsStored(s, n)'
    BY DEF IsStored
  <2> QED
    BY <2>1, <2>2
<1> QED
  BY <1>3, <1>4, <1>5, <1>6 DEF HubInv

LEMMA LateArrivalKeepsInv ==
  ASSUME HubInv, LateArrival
  PROVE  HubInv'
<1>1. /\ UNCHANGED <<producerVars, rx, dropped, pending, live, online, shutting, pc, history>>
      /\ stored' = Ingested(late) /\ late' = <<>>
  BY DEF LateArrival
<1>2. ItemsOf(late) \subseteq Item
  BY QueueFacts DEF HubInv
<1>3. \A x \in ItemsOf(late) : x.marker => x.session \in lossy
  BY DEF HubInv, CleanUnmarked, Markers
<1>4. /\ CursorHonest' /\ stored \subseteq stored' /\ stored' \subseteq Item
      /\ stored' \subseteq stored \cup ItemsOf(late)
  BY <1>1, <1>2, <1>3, IngestHonest DEF HubInv, history
<1>5. HubTypeOK'
  BY <1>1, <1>4 DEF HubInv, HubTypeOK, producerVars, history
<1>6. GapFree(late)'
  BY <1>1, <1>4, GapFreeKeeps DEF HubInv, history
<1>7. ItemsOf(late') = {}
  BY <1>1 DEF ItemsOf
<1>8. Ordered(pending') /\ ItemsOf(pending') = ItemsOf(pending)
  BY <1>1 DEF HubInv, EventsInOrder
<1>9. UNCHANGED <<produced, total, hand, dropped, rx, lossy, due, shutting, pc, pending>>
  BY <1>1 DEF producerVars, history
<1>10. stored' \cup ItemsOf(late') \subseteq stored \cup ItemsOf(late) \cup ItemsOf(pending)
  BY <1>4, <1>7
<1>11. \A s \in OneForwarder \ lossy : \A n \in 1..produced[s] :
         Event(s, n) \in ItemsOf(pending) => Event(s, n) \in ItemsOf(pending') \/ IsStored(s, n)'
  BY <1>8
<1> QED
  BY <1>4, <1>5, <1>6, <1>8, <1>9, <1>10, <1>11, DeliveryKeepsInv

LEMMA ConnectKeepsInv ==
  ASSUME HubInv, Connect
  PROVE  HubInv'
<1> DEFINE I == {i \in 1..Len(pending) : ~AlreadyStored(pending[i])}
<1>1. /\ UNCHANGED <<producerVars, rx, dropped, live, shutting, pc, hubVars, lossy, due>>
      /\ pc = "deliver" /\ online' = TRUE /\ pending' \in Filtered(pending, I)
  BY DEF Connect
<1>2. pending \in Seq(Item) /\ Ordered(pending) /\ I \in SUBSET (1..Len(pending))
  BY DEF HubInv, HubTypeOK, EventsInOrder
<1>3. pending' \in Seq(Item) /\ ItemsOf(pending') = {pending[i] : i \in I} /\ Ordered(pending')
  BY <1>1, <1>2, FilteredFacts
<1>4. ItemsOf(pending') \subseteq ItemsOf(pending)
  BY <1>2, <1>3 DEF ItemsOf
<1>5. trimmed' \subseteq Item
  <2>1. ItemsOf(pending) \subseteq Item /\ trimmed \subseteq Item
    BY QueueFacts DEF HubInv, HubTypeOK
  <2> QED
    BY <2>1 DEF Connect
<1>6. HubTypeOK'
  <2>1. online' \in BOOLEAN
    BY <1>1
  <2> QED
    BY <1>1, <1>3, <1>5, <2>1 DEF HubInv, HubTypeOK, producerVars, hubVars
<1>7. CursorHonest' /\ GapFree(late)'
  BY <1>1, CursorKeeps, GapFreeKeeps DEF HubInv, hubVars
<1>8. ASSUME NEW s \in OneForwarder \ lossy, NEW n \in 1..produced[s], Event(s, n) \in ItemsOf(pending)
      PROVE  Event(s, n) \in ItemsOf(pending') \/ IsStored(s, n)'
  <2>1. PICK i \in 1..Len(pending) : pending[i] = Event(s, n)
    BY <1>8 DEF ItemsOf
  <2>2. CASE ~AlreadyStored(pending[i])
    BY <1>3, <2>1, <2>2
  <2>3. CASE AlreadyStored(pending[i])
    <3>1. pending[i].session = s /\ pending[i].seq = n
      BY <2>1 DEF Event
    <3>2. n <= LastSeq(s)
      BY <2>3, <3>1 DEF AlreadyStored
    <3>3. n \in 1..LastSeq(s)
      BY <3>2, CursorFacts, HandFacts DEF HubInv
    <3>4. IsStored(s, n)
      BY <3>3 DEF HubInv, CursorHonest
    <3> QED
      BY <1>1, <3>4 DEF IsStored, hubVars
  <2> QED
    BY <2>2, <2>3
<1> QED
  BY <1>1, <1>3, <1>4, <1>6, <1>7, <1>8, DeliveryKeepsInv DEF producerVars, hubVars

LEMMA SendAckedKeepsInv ==
  ASSUME HubInv, NEW b \in Batches, SendAcked(b)
  PROVE  HubInv'
<1>1. /\ UNCHANGED <<producerVars, rx, dropped, live, online, shutting, late, history>>
      /\ pc = "deliver" /\ pc' = "top" /\ stored' = Ingested(b) /\ pending' = PoppedFront(b)
  BY DEF SendAcked, Goto
<1>2. /\ ItemsOf(b) \subseteq ItemsOf(pending) /\ ItemsOf(b) \subseteq Item
  BY BatchFacts DEF HubInv
<1>3. \A x \in ItemsOf(b) : x.marker => x.session \in lossy
  BY <1>2 DEF HubInv, CleanUnmarked, Markers
<1>4. /\ CursorHonest' /\ stored \subseteq stored' /\ stored' \subseteq Item
      /\ stored' \subseteq stored \cup ItemsOf(b)
      /\ \A x \in ItemsOf(b) : x.session \in OneForwarder \ lossy =>
           \A m \in 1..x.seq : IsStored(x.session, m)'
  BY <1>1, <1>2, <1>3, BatchGapFree, IngestHonest DEF history
<1>5. PICK k \in 0..Len(pending) :
        /\ pending' = SubSeq(pending, k + 1, Len(pending))
        /\ \A i \in 1..k : \E z \in ItemsOf(b) : /\ z.session = pending[i].session
                                                 /\ pending[i].seq <= z.seq
  BY <1>1, PoppedFacts DEF HubInv
<1>6. pending \in Seq(Item) /\ Ordered(pending) /\ Len(pending) \in Nat
  BY QueueFacts DEF HubInv, HubTypeOK, EventsInOrder
<1>7. /\ pending' \in Seq(Item) /\ Ordered(pending')
      /\ ItemsOf(pending') = {pending[i] : i \in (k + 1)..Len(pending)}
  BY <1>5, <1>6, SplitQueue
<1>8. ItemsOf(pending') \subseteq ItemsOf(pending)
  BY <1>6, <1>7 DEF ItemsOf
<1>9. HubTypeOK'
  BY <1>1, <1>4, <1>7 DEF HubInv, HubTypeOK, producerVars, history
<1>10. GapFree(late)'
  BY <1>1, <1>4, GapFreeKeeps DEF HubInv, history
<1>11. ASSUME NEW s \in OneForwarder \ lossy, NEW n \in 1..produced[s], Event(s, n) \in ItemsOf(pending)
       PROVE  Event(s, n) \in ItemsOf(pending') \/ IsStored(s, n)'
  <2>1. PICK i \in 1..Len(pending) : pending[i] = Event(s, n)
    BY <1>11 DEF ItemsOf
  <2>2. pending[i].session = s /\ pending[i].seq = n
    BY <2>1 DEF Event
  <2>3. CASE i > k
    BY <1>6, <1>7, <2>1, <2>3
  <2>4. CASE i <= k
    <3>1. PICK z \in ItemsOf(b) : z.session = s /\ n <= z.seq
      BY <1>5, <2>2, <2>4
    <3>2. z.seq \in Nat /\ n \in Nat
      BY <1>2, <1>11, ItemFacts, NumbersFacts
    <3> QED
      BY <1>4, <3>1, <3>2
  <2> QED
    BY <1>6, <2>3, <2>4
<1> QED
  BY <1>1, <1>2, <1>4, <1>7, <1>8, <1>9, <1>10, <1>11, DeliveryKeepsInv DEF producerVars, history

LEMMA SendFailsKeepsInv ==
  ASSUME HubInv, NEW b \in Batches, SendFails(b)
  PROVE  HubInv'
<1>1. /\ UNCHANGED <<producerVars, rx, dropped, pending, live, shutting, history>>
      /\ pc = "deliver" /\ pc' = "top" /\ online' = FALSE
  BY DEF SendFails, Goto
<1>2. b \in Seq(Item) /\ ItemsOf(b) \subseteq ItemsOf(pending) /\ ItemsOf(b) \subseteq Item
  BY BatchFacts DEF HubInv
<1>3. \A x \in ItemsOf(b) : x.marker => x.session \in lossy
  BY <1>2 DEF HubInv, CleanUnmarked, Markers
<1>4. GapFree(b)
  BY <1>1, BatchGapFree
<1>5. /\ CursorHonest' /\ stored \subseteq stored' /\ stored' \subseteq Item /\ late' \in Seq(Item)
      /\ GapFree(late)'
      /\ stored' \cup ItemsOf(late') \subseteq stored \cup ItemsOf(late) \cup ItemsOf(pending)
  <2>1. CASE stored' = Ingested(b) /\ late' = late
    <3>1. /\ CursorHonest' /\ stored \subseteq stored' /\ stored' \subseteq Item
          /\ stored' \subseteq stored \cup ItemsOf(b)
      BY <1>1, <1>2, <1>3, <1>4, <2>1, IngestHonest DEF history
    <3>2. GapFree(late)'
      BY <1>1, <2>1, <3>1, GapFreeKeeps DEF HubInv, history
    <3>3. late' \in Seq(Item)
      BY <2>1 DEF HubInv, HubTypeOK
    <3> QED
      BY <1>2, <2>1, <3>1, <3>2, <3>3
  <2>2. CASE stored' = stored /\ late' = late
    <3>1. CursorHonest' /\ GapFree(late)'
      BY <1>1, <2>2, CursorKeeps, GapFreeKeeps DEF HubInv, history
    <3> QED
      BY <2>2, <3>1 DEF HubInv, HubTypeOK
  <2>3. CASE stored' = stored /\ late' = b
    <3>1. CursorHonest'
      BY <1>1, <2>3, CursorKeeps DEF HubInv, history
    <3>2. GapFree(late)'
      BY <1>1, <1>4, <2>3 DEF GapFree, IsStored, history
    <3> QED
      BY <1>2, <2>3, <3>1, <3>2 DEF HubInv, HubTypeOK
  <2> QED
    BY <2>1, <2>2, <2>3 DEF SendFails, hubVars
<1>6. HubTypeOK'
  <2>1. online' \in BOOLEAN
    BY <1>1
  <2> QED
    BY <1>1, <1>5, <2>1 DEF HubInv, HubTypeOK, producerVars, history
<1>7. Ordered(pending')
  BY <1>1 DEF HubInv, EventsInOrder
<1> QED
  BY <1>1, <1>5, <1>6, <1>7, DeliveryKeepsInv DEF producerVars, history

-----------------------------------------------------------------------------
(* Steps that queue markers. *)

\* The new markers count R: numbers that were dropped or stood in events, of which
\* none is counted elsewhere or still on its way.
LEMMA NewMarkersCount ==
  ASSUME HubInv, NEW R \in [Sessions -> SUBSET Numbers], UNCHANGED <<produced, hand>>,
         lossy \subseteq lossy',
         \A s \in Sessions : dropped'[s] \subseteq dropped[s],
         \A x \in Markers' : x \in Markers \/ \E s \in Sessions : R[s] # {} /\ x = Marker(s, R[s]),
         \A x \in ItemsOf(pending') : ~x.marker =>
           \/ x \in ItemsOf(pending)
           \/ \E c \in ItemsOf(rx) : IsEvent(c) /\ c.session = x.session /\ c.seq = x.seq,
         ItemsOf(rx') \subseteq ItemsOf(rx),
         \A s \in Sessions : \A n \in R[s] : n <= produced[s] /\ n \notin dropped'[s],
         \A s \in Sessions : CountsNone(R[s], s)',
         \A x \in Markers : R[x.session] \cap x.nums = {},
         \A s \in Sessions : R[s] # {} => s \in lossy'
  PROVE  CountedApart' /\ CleanUnmarked'
<1>1. ASSUME NEW nums, NEW s, CountsNone(nums, s)
      PROVE  CountsNone(nums, s)'
  BY <1>1 DEF CountsNone
<1>2. \A x \in Markers : x.session \in Sessions
  BY QueueFacts, ItemFacts DEF HubInv
<1>3. \A s \in Sessions : CountsNone(dropped[s], s)'
  <2> TAKE s \in Sessions
  <2>1. CountsNone(dropped[s], s)
    BY DEF HubInv, CountedApart
  <2>2. CountsNone(dropped'[s], s)
    BY <2>1 DEF CountsNone
  <2> QED
    BY <2>2 DEF CountsNone
<1>4. ASSUME NEW x \in Markers'
      PROVE  /\ CountsNone(x.nums, x.session)' /\ \A n \in x.nums : n <= produced'[x.session]
             /\ x.nums \cap dropped'[x.session] = {}
             /\ x.session \in lossy'
  <2>1. CASE x \in Markers
    <3>1. /\ CountsNone(x.nums, x.session) /\ \A n \in x.nums : n <= produced[x.session]
          /\ x.nums \cap dropped[x.session] = {} /\ x.session \in lossy
      BY <2>1 DEF HubInv, CountedApart, DropsCountedOnce, CleanUnmarked
    <3>2. CountsNone(x.nums, x.session)'
      BY <3>1 DEF CountsNone
    <3> QED
      BY <1>2, <2>1, <3>1, <3>2
  <2>2. CASE \E s \in Sessions : R[s] # {} /\ x = Marker(s, R[s])
    <3>1. PICK s \in Sessions : R[s] # {} /\ x = Marker(s, R[s])
      BY <2>2
    <3>2. x.session = s /\ x.nums = R[s]
      BY <3>1 DEF Marker
    <3>3. CountsNone(x.nums, x.session)'
      BY <3>2 DEF CountsNone
    <3> QED
      BY <3>1, <3>2, <3>3
  <2> QED
    BY <2>1, <2>2
<1>5. ASSUME NEW x \in Markers', NEW y \in Markers', x # y, x.session = y.session
      PROVE  x.nums \cap y.nums = {}
  <2>1. CASE x \in Markers /\ y \in Markers
    BY <1>5, <2>1 DEF HubInv, CountedApart, DropsCountedOnce
  <2>2. ASSUME NEW u \in Markers, NEW v, NEW s \in Sessions, v = Marker(s, R[s]), v.session = u.session
        PROVE  u.nums \cap v.nums = {}
    <3>1. v.session = s /\ v.nums = R[s]
      BY <2>2 DEF Marker
    <3> QED
      BY <2>2, <3>1
  <2>3. ASSUME NEW s \in Sessions, NEW r \in Sessions, x = Marker(s, R[s]), y = Marker(r, R[r])
        PROVE  FALSE
    <3>1. x.session = s /\ y.session = r
      BY <2>3 DEF Marker
    <3> QED
      BY <1>5, <2>3, <3>1
  <2> QED
    BY <1>5, <2>1, <2>2, <2>3
<1>6. DropsCountedOnce'
  BY <1>4, <1>5 DEF DropsCountedOnce
<1>7. \A s \in Sessions : dropped'[s] # {} => s \in lossy'
  BY DEF HubInv, CleanUnmarked
<1> QED
  BY <1>3, <1>4, <1>6, <1>7 DEF CountedApart, CleanUnmarked

\* An event of the queue is counted by no marker and no range.
LEMMA QueuedNotCounted ==
  ASSUME HubInv, NEW s \in Sessions, NEW n, Event(s, n) \in ItemsOf(pending)
  PROVE  /\ n <= produced[s] /\ n \notin dropped[s]
         /\ \A x \in Markers : x.session = s => n \notin x.nums
         /\ \A c \in ItemsOf(rx) : IsEvent(c) /\ c.session = s => n # c.seq
         /\ \A f \in Forwarders : SessionOf[f] = s /\ hand[f] # 0 => n # hand[f]
<1>1. Event(s, n).session = s /\ Event(s, n).seq = n /\ Event(s, n).marker = FALSE
  BY DEF Event
<1>2. CountsNone(dropped[s], s) /\ \A x \in Markers : CountsNone(x.nums, x.session)
  BY DEF HubInv, CountedApart
<1>3. n \notin dropped[s]
  BY <1>1, <1>2 DEF CountsNone
<1>4. \A x \in Markers : x.session = s => n \notin x.nums
  BY <1>1, <1>2 DEF CountsNone
<1>5. n <= produced[s] /\ \A c \in ItemsOf(rx) : IsEvent(c) /\ c.session = s => n # c.seq
  BY <1>1 DEF HubInv, EventsInOrder, Before
<1>6. \A f \in Forwarders : SessionOf[f] = s /\ hand[f] # 0 => n # hand[f]
  BY <1>1 DEF HubInv, HeldBehind, Before
<1> QED
  BY <1>3, <1>4, <1>5, <1>6

LEMMA DropFrontKeepsInv ==
  ASSUME HubInv, NEW b \in Batches, DropFrontBatch(b)
  PROVE  HubInv'
<1> DEFINE R == [s \in Sessions |->
                   UNION {x.nums : x \in {y \in ItemsOf(b) : y.session = s /\ ~y.marker}}]
           I == {i \in 1..Len(b) : b[i].marker}
           rest == SubSeq(pending, Len(b) + 1, Len(pending))
<1>1. /\ UNCHANGED <<producerVars, rx, dropped, live, online, shutting, hubVars, trimmed, due>>
      /\ pc = "deliver" /\ pc' = "top"
      /\ lossy' = lossy \cup {s \in Sessions : R[s] # {}}
  BY DEF DropFrontBatch, Goto
<1>2. PICK kept \in Filtered(b, I), m \in MarkerSeqs(R) : pending' = rest \o kept \o m
  BY DEF DropFrontBatch
<1>3. /\ b \in Seq(Item) /\ Len(b) \in 1..Len(pending) /\ ItemsOf(b) \subseteq Item
      /\ ItemsOf(b) \subseteq ItemsOf(pending)
      /\ \A i \in 1..Len(b) : b[i] = pending[i]
  BY BatchFacts DEF HubInv
<1>4. /\ pending \in Seq(Item) /\ Len(pending) \in Nat /\ Ordered(pending)
      /\ \A i \in 1..Len(pending) : pending[i] \in Item
  BY QueueFacts DEF HubInv, HubTypeOK, EventsInOrder
<1>5. R \in [Sessions -> SUBSET Numbers]
  <2>1. \A x \in ItemsOf(b) : x.nums \in SUBSET Numbers
    BY <1>3, ItemFacts
  <2> QED
    BY <2>1
<1>6. \A s \in Sessions : \A n : n \in R[s] <=> Event(s, n) \in ItemsOf(b)
  <2> TAKE s \in Sessions
  <2> TAKE n
  <2>1. ASSUME n \in R[s] PROVE Event(s, n) \in ItemsOf(b)
    <3>1. PICK x \in ItemsOf(b) : x.session = s /\ ~x.marker /\ n \in x.nums
      BY <2>1
    <3>2. x = Event(s, x.seq) /\ x.nums = {x.seq}
      BY <1>3, <3>1, ItemFacts
    <3> QED
      BY <3>1, <3>2
  <2>2. ASSUME Event(s, n) \in ItemsOf(b) PROVE n \in R[s]
    <3>1. /\ Event(s, n).session = s /\ Event(s, n).marker = FALSE /\ n \in Event(s, n).nums
      BY DEF Event
    <3> QED
      BY <2>2, <3>1
  <2> QED
    BY <2>1, <2>2
<1> HIDE DEF R
<1>7. /\ rest \in Seq(Item) /\ Ordered(rest)
      /\ ItemsOf(rest) = {pending[i] : i \in (Len(b) + 1)..Len(pending)}
  <2>1. Len(b) \in 0..Len(pending)
    BY <1>3, <1>4
  <2> QED
    BY <1>4, <2>1, SplitQueue
<1>8. kept \in Seq(Item) /\ ItemsOf(kept) = {b[i] : i \in I}
  BY <1>2, <1>3, FilteredFacts
<1>9. /\ m \in Seq(Item)
      /\ \A x \in ItemsOf(m) : \E s \in Sessions : R[s] # {} /\ x = Marker(s, R[s])
      /\ \A x \in ItemsOf(m) : x.marker
  BY <1>2, <1>5, MarkerSeqFacts
<1>10. /\ ItemsOf(rest) \subseteq ItemsOf(pending)
       /\ ItemsOf(kept) \subseteq ItemsOf(pending) /\ \A x \in ItemsOf(kept) : x.marker
  <2>1. ItemsOf(rest) \subseteq ItemsOf(pending)
    BY <1>3, <1>4, <1>7 DEF ItemsOf
  <2>2. ItemsOf(kept) \subseteq ItemsOf(b)
    BY <1>8 DEF ItemsOf
  <2> QED
    BY <1>3, <1>8, <2>1, <2>2
<1> HIDE DEF rest, I
<1>11. rest \o kept \in Seq(Item) /\ ItemsOf(rest \o kept) = ItemsOf(rest) \cup ItemsOf(kept)
  BY <1>7, <1>8, ItemsConcat
<1>12. pending' \in Seq(Item) /\ ItemsOf(pending') = ItemsOf(rest) \cup ItemsOf(kept) \cup ItemsOf(m)
  <2> DEFINE front == rest \o kept
  <2>1. front \in Seq(Item) /\ ItemsOf(front) = ItemsOf(rest) \cup ItemsOf(kept)
    BY <1>11
  <2>2. pending' = front \o m
    BY <1>2
  <2> HIDE DEF front
  <2>3. pending' \in Seq(Item) /\ ItemsOf(pending') = ItemsOf(front) \cup ItemsOf(m)
    BY <1>9, <2>1, <2>2, ItemsConcat
  <2> QED
    BY <2>1, <2>3
<1>13. Ordered(pending')
  <2>1. Ordered(kept) /\ Ordered(m)
    BY <1>8, <1>9, <1>10, MarkersOrdered
  <2>2. Ordered(rest \o kept)
    BY <1>7, <1>8, <1>10, <2>1, OrderedConcat
  <2> QED
    BY <1>2, <1>9, <1>11, <2>1, <2>2, OrderedConcat
<1>14. \A x \in ItemsOf(pending') : ~x.marker => x \in ItemsOf(rest)
  BY <1>9, <1>10, <1>12
<1>15. HubTypeOK'
  <2>1. lossy' \subseteq Sessions
    BY <1>1 DEF HubInv, HubTypeOK
  <2> QED
    BY <1>1, <1>12, <2>1 DEF HubInv, HubTypeOK, producerVars, hubVars
<1>16. Stamped' /\ Leaving'
  BY <1>1 DEF HubInv, Stamped, Leaving, producerVars
<1>17. EventsInOrder' /\ HeldBehind'
  <2>1. Ordered(pending)'
    BY <1>13 DEF Ordered, Before
  <2>2. \A x \in ItemsOf(pending') : ~x.marker => x \in ItemsOf(pending)
    BY <1>10, <1>14
  <2>3. HeldBehind'
    BY <1>1, <2>2, HeldStaysBehind DEF producerVars
  <2> QED
    BY <1>1, <2>1, <2>2, <2>3 DEF HubInv, EventsInOrder, producerVars, Before
<1>18. ASSUME NEW s \in Sessions, NEW n \in R[s]
       PROVE  /\ n <= produced[s] /\ n \notin dropped[s]
              /\ \A x \in Markers : x.session = s => n \notin x.nums
              /\ \A c \in ItemsOf(rx) : IsEvent(c) /\ c.session = s => n # c.seq
              /\ \A f \in Forwarders : SessionOf[f] = s /\ hand[f] # 0 => n # hand[f]
  BY <1>3, <1>6, <1>18, QueuedNotCounted
<1>19. \A s \in Sessions : CountsNone(R[s], s)'
  <2> TAKE s \in Sessions
  <2>1. ASSUME NEW x \in ItemsOf(pending'), ~x.marker, x.session = s PROVE x.seq \notin R[s]
    <3>1. PICK i \in (Len(b) + 1)..Len(pending) : x = pending[i]
      BY <1>7, <1>14, <2>1
    <3>2. SUFFICES ASSUME x.seq \in R[s] PROVE FALSE
      OBVIOUS
    <3>3. PICK j \in 1..Len(b) : b[j] = Event(s, x.seq)
      BY <1>6, <3>2 DEF ItemsOf
    <3>4. pending[j].session = s /\ pending[j].seq = x.seq /\ pending[j].marker = FALSE
      BY <1>3, <3>3 DEF Event
    <3>5. i \in 1..Len(pending) /\ j \in 1..Len(pending) /\ j < i
      BY <1>3, <1>4
    <3>6. pending[j].seq # pending[i].seq
      BY <1>4, <2>1, <3>1, <3>4, <3>5 DEF Ordered, Before
    <3> QED
      BY <3>1, <3>4, <3>6
  <2>2. ASSUME NEW c \in ItemsOf(rx'), IsEvent(c), c.session = s PROVE c.seq \notin R[s]
    <3>1. c \in ItemsOf(rx)
      BY <1>1, <2>2
    <3> QED
      BY <1>18, <2>2, <3>1
  <2>3. \A f \in Forwarders : SessionOf[f] = s /\ hand'[f] # 0 => hand'[f] \notin R[s]
    BY <1>1, <1>18 DEF producerVars
  <2> QED
    BY <2>1, <2>2, <2>3 DEF CountsNone
<1>20. \A x \in Markers' : x \in Markers \/ \E s \in Sessions : R[s] # {} /\ x = Marker(s, R[s])
  BY <1>1, <1>9, <1>10, <1>12 DEF Markers, hubVars
<1>21. CountedApart' /\ CleanUnmarked'
  <2>1. \A x \in Markers : R[x.session] \cap x.nums = {}
    <3>1. \A x \in Markers : x.session \in Sessions
      BY QueueFacts, ItemFacts DEF HubInv
    <3> QED
      BY <1>18, <3>1
  <2>2. /\ UNCHANGED <<produced, hand>> /\ lossy \subseteq lossy' /\ dropped' = dropped
        /\ ItemsOf(rx') \subseteq ItemsOf(rx)
        /\ \A s \in Sessions : R[s] # {} => s \in lossy'
    BY <1>1 DEF producerVars
  <2>3. \A x \in ItemsOf(pending') : ~x.marker =>
          \/ x \in ItemsOf(pending)
          \/ \E c \in ItemsOf(rx) : IsEvent(c) /\ c.session = x.session /\ c.seq = x.seq
    BY <1>10, <1>14
  <2>4. \A s \in Sessions : \A n \in R[s] : n <= produced[s] /\ n \notin dropped'[s]
    BY <1>18, <2>2
  <2> QED
    BY <1>5, <1>19, <1>20, <2>1, <2>2, <2>3, <2>4, NewMarkersCount
<1>22. CleanDelivered'
  <2> SUFFICES ASSUME NEW s \in OneForwarder \ lossy', NEW n \in 1..produced[s]
               PROVE  \/ InHand(s, n)
                      \/ EventCmd(s, n) \in ItemsOf(rx)
                      \/ Event(s, n) \in ItemsOf(pending')
                      \/ IsStored(s, n)
    BY <1>1 DEF CleanDelivered, InHand, IsStored, hubVars, producerVars
  <2>0. s \in Sessions
    BY HandFacts DEF HubInv
  <2>1. \/ InHand(s, n)
        \/ EventCmd(s, n) \in ItemsOf(rx)
        \/ Event(s, n) \in ItemsOf(pending)
        \/ IsStored(s, n)
    BY <1>1 DEF HubInv, CleanDelivered
  <2>2. CASE Event(s, n) \in ItemsOf(pending)
    <3>1. PICK i \in 1..Len(pending) : pending[i] = Event(s, n)
      BY <2>2 DEF ItemsOf
    <3>2. CASE i <= Len(b)
      <4>1. i \in 1..Len(b) /\ b[i] = Event(s, n)
        BY <1>3, <1>4, <3>1, <3>2
      <4>2. n \in R[s]
        BY <1>6, <2>0, <4>1 DEF ItemsOf
      <4> QED
        BY <1>1, <2>0, <4>2
    <3>3. CASE i > Len(b)
      <4>1. i \in (Len(b) + 1)..Len(pending)
        BY <1>3, <1>4, <3>3
      <4> QED
        BY <1>7, <1>12, <3>1, <4>1
    <3> QED
      BY <1>3, <1>4, <3>2, <3>3
  <2> QED
    BY <2>1, <2>2
<1>23. CursorHonest' /\ GapFree(late)'
  BY <1>1, CursorKeeps, GapFreeKeeps DEF HubInv, hubVars
<1> QED
  BY <1>15, <1>16, <1>17, <1>21, <1>22, <1>23 DEF HubInv

\* push_all_dropped_markers, in a step that may end the worker.
LEMMA PushAllKeepsInv ==
  ASSUME HubInv, PushAllDropped, pc \in {"mark", "flush"},
         UNCHANGED <<producerVars, live, online, shutting, hubVars, history>>,
         \/ pc' \in {"drain", "select", "deliver"} /\ rx' = rx
         \/ pc = "flush" /\ pc' = "done" /\ pending' = <<>> /\ rx' = <<>>
  PROVE  HubInv'
<1>1. UNCHANGED <<produced, total, hand, refused, others, live, online, shutting, stored, late,
                  trimmed, lossy, due>>
  BY DEF producerVars, hubVars, history
<1>2. /\ pending \in Seq(Item) /\ Len(pending) \in Nat /\ Ordered(pending)
      /\ dropped \in [Sessions -> SUBSET Numbers] /\ rx \in Seq(Command)
  BY QueueFacts DEF HubInv, HubTypeOK, EventsInOrder
<1>3. ItemsOf(rx') \subseteq ItemsOf(rx) /\ (rx' = rx \/ rx' = <<>>)
  BY DEF ItemsOf
<1>4. CursorHonest' /\ GapFree(late)'
  BY <1>1, CursorKeeps, GapFreeKeeps DEF HubInv
<1>5. /\ pending' \in Seq(Item) /\ Ordered(pending') /\ ItemsOf(pending) \subseteq ItemsOf(pending')
      /\ \A x \in ItemsOf(pending') : ~x.marker => x \in ItemsOf(pending)
      /\ dropped' \in [Sessions -> SUBSET Numbers]
      /\ CountedApart' /\ CleanUnmarked'
  <2>1. CASE Len(pending) >= PendingCapacity
    <3>1. pending' = pending /\ dropped' = dropped
      BY <1>2, <2>1, HubAssumption DEF PushAllDropped
    <3>2. Markers' = Markers
      BY <1>1, <3>1 DEF Markers
    <3>3. NothingNew
      BY <1>1, <1>3, <3>1, <3>2 DEF NothingNew
    <3> QED
      BY <1>2, <3>1, <3>3, NothingNewCounts
  <2>2. CASE Len(pending) < PendingCapacity
    <3>1. PICK m \in MarkerSeqs(dropped) : pending' = pending \o m
      BY <1>2, <2>2, HubAssumption DEF PushAllDropped
    <3>2. dropped' = [s \in Sessions |-> {}]
      BY <1>2, <2>2, HubAssumption DEF PushAllDropped
    <3>3. /\ m \in Seq(Item)
          /\ \A x \in ItemsOf(m) : \E s \in Sessions : dropped[s] # {} /\ x = Marker(s, dropped[s])
          /\ \A x \in ItemsOf(m) : x.marker
      BY <1>2, <3>1, MarkerSeqFacts
    <3>4. pending' \in Seq(Item) /\ ItemsOf(pending') = ItemsOf(pending) \cup ItemsOf(m)
      BY <1>2, <3>1, <3>3, ItemsConcat
    <3>5. Ordered(pending')
      <4>1. Ordered(m)
        BY <3>3, MarkersOrdered
      <4> QED
        BY <1>2, <3>1, <3>3, <4>1, OrderedConcat
    <3>6. \A x \in ItemsOf(pending') : ~x.marker => x \in ItemsOf(pending)
      BY <3>3, <3>4
    <3>7. \A x \in Markers' : x \in Markers \/ \E s \in Sessions : dropped[s] # {} /\ x = Marker(s, dropped[s])
      BY <1>1, <3>3, <3>4 DEF Markers
    <3>8. \A s \in Sessions : CountsNone(dropped[s], s)
      BY DEF HubInv, CountedApart
    <3>9. \A s \in Sessions :
            /\ \A x \in ItemsOf(pending') : ~x.marker /\ x.session = s => x.seq \notin dropped[s]
            /\ \A c \in ItemsOf(rx') : IsEvent(c) /\ c.session = s => c.seq \notin dropped[s]
            /\ \A f \in Forwarders : SessionOf[f] = s /\ hand'[f] # 0 => hand'[f] \notin dropped[s]
      BY <1>1, <1>3, <3>6, <3>8 DEF CountsNone
    <3>10. \A x \in Markers : x.session \in Sessions /\ dropped[x.session] \cap x.nums = {}
      BY QueueFacts, ItemFacts DEF HubInv, CountedApart, DropsCountedOnce
    <3>11. \A s \in Sessions : /\ dropped'[s] = {} /\ (dropped[s] # {} => s \in lossy')
                               /\ \A n \in dropped[s] : n <= produced[s]
      BY <1>1, <3>2 DEF HubInv, CleanUnmarked, Stamped
    <3>12. PICK R \in [Sessions -> SUBSET Numbers] : R = dropped
      BY <1>2
    <3>13. \A s \in Sessions : CountsNone(R[s], s)'
      BY <3>9, <3>12 DEF CountsNone
    <3>14. CountedApart' /\ CleanUnmarked'
      BY <1>1, <1>3, <3>6, <3>7, <3>10, <3>11, <3>12, <3>13, NewMarkersCount
    <3>15. dropped' \in [Sessions -> SUBSET Numbers]
      BY <3>2
    <3> QED
      BY <3>4, <3>5, <3>6, <3>14, <3>15
  <2> QED
    BY <1>2, <2>1, <2>2, HubAssumption
<1>6. EventsInOrder' /\ HeldBehind'
  <2>1. Ordered(pending)'
    BY <1>5 DEF Ordered, Before
  <2>2. \A i, j \in 1..Len(rx') :
          i < j /\ IsEvent(rx'[i]) /\ IsEvent(rx'[j]) /\ rx'[i].session = rx'[j].session =>
            Before(rx'[i].session, rx'[i].seq, rx'[j].seq)
    <3>1. CASE rx' = rx
      BY <3>1 DEF HubInv, EventsInOrder
    <3>2. CASE rx' = <<>>
      BY <3>2
    <3> QED
      BY <1>3, <3>1, <3>2
  <2>3. HeldBehind'
    BY <1>1, <1>3, <1>5, HeldStaysBehind
  <2> QED
    BY <1>1, <1>3, <1>5, <2>1, <2>2, <2>3 DEF HubInv, EventsInOrder, IsEvent, Before
<1>7. HubTypeOK'
  <2>1. rx' \in Seq(Command) /\ Len(rx') <= ChannelCapacity
    <3>1. CASE rx' = rx
      BY <3>1 DEF HubInv, HubTypeOK
    <3>2. CASE rx' = <<>>
      BY <3>2, HubAssumption
    <3> QED
      BY <1>3, <3>1, <3>2
  <2> QED
    BY <1>1, <1>5, <2>1 DEF HubInv, HubTypeOK
<1>8. Stamped'
  <2>1. \A s \in Sessions : dropped'[s] \subseteq dropped[s]
    BY <1>2 DEF PushAllDropped
  <2> QED
    BY <1>1, <2>1 DEF HubInv, Stamped
<1>9. Leaving'
  BY <1>1 DEF HubInv, Leaving
<1>10. CleanDelivered'
  <2> SUFFICES ASSUME NEW s \in OneForwarder \ lossy, NEW n \in 1..produced[s]
               PROVE  \/ InHand(s, n)
                      \/ EventCmd(s, n) \in ItemsOf(rx')
                      \/ Event(s, n) \in ItemsOf(pending')
                      \/ IsStored(s, n)
                      \/ pc' = "done" /\ n > due[s]
    BY <1>1 DEF CleanDelivered, InHand, IsStored
  <2>1. \/ InHand(s, n)
        \/ EventCmd(s, n) \in ItemsOf(rx)
        \/ Event(s, n) \in ItemsOf(pending)
        \/ IsStored(s, n)
    BY DEF HubInv, CleanDelivered
  <2>2. CASE rx' = rx
    BY <1>5, <2>1, <2>2
  <2>3. CASE pc = "flush" /\ pc' = "done" /\ pending' = <<>> /\ EventCmd(s, n) \in ItemsOf(rx)
    <3>1. Len(pending) < PendingCapacity
      <4>1. SUFFICES ASSUME Len(pending) >= PendingCapacity PROVE FALSE
        BY <1>2, HubAssumption
      <4>2. pending' = pending
        BY <1>2, <4>1, HubAssumption DEF PushAllDropped
      <4> QED
        BY <1>2, <2>3, <4>1, <4>2, HubAssumption
    <3>2. IsEvent(EventCmd(s, n)) /\ EventCmd(s, n).session = s /\ EventCmd(s, n).seq = n
      BY DEF EventCmd, IsEvent
    <3>3. n > due[s]
      BY <2>3, <3>1, <3>2 DEF HubInv, Leaving
    <3> QED
      BY <2>3, <3>3
  <2> QED
    BY <1>5, <2>1, <2>2, <2>3
<1> QED
  BY <1>4, <1>5, <1>6, <1>7, <1>8, <1>9, <1>10 DEF HubInv

-----------------------------------------------------------------------------
(* The channel. *)

LEMMA SentFacts ==
  ASSUME NEW q \in Seq(Command), NEW c \in Command
  PROVE  LET r == Append(q, c) IN
         /\ r \in Seq(Command) /\ Len(r) = Len(q) + 1 /\ Len(q) \in Nat
         /\ ItemsOf(r) = ItemsOf(q) \cup {c}
         /\ r[Len(q) + 1] = c /\ \A i \in 1..Len(q) : r[i] = q[i]
<1> DEFINE r == Append(q, c)
<1>1. /\ r \in Seq(Command) /\ Len(r) = Len(q) + 1 /\ Len(q) \in Nat
      /\ r[Len(q) + 1] = c /\ \A i \in 1..Len(q) : r[i] = q[i]
  OBVIOUS
<1> HIDE DEF r
<1>2. ItemsOf(r) \subseteq ItemsOf(q) \cup {c}
  <2> SUFFICES ASSUME NEW i \in 1..Len(r) PROVE r[i] \in ItemsOf(q) \cup {c}
    BY DEF ItemsOf
  <2>1. i \in 1..Len(q) \/ i = Len(q) + 1
    BY <1>1
  <2> QED
    BY <1>1, <2>1 DEF ItemsOf
<1>3. ItemsOf(q) \cup {c} \subseteq ItemsOf(r)
  <2>1. Len(q) + 1 \in 1..Len(r) /\ \A i \in 1..Len(q) : i \in 1..Len(r)
    BY <1>1
  <2> QED
    BY <1>1, <2>1 DEF ItemsOf
<1> QED
  BY <1>1, <1>2, <1>3 DEF r

LEMMA TakenFacts ==
  ASSUME NEW q \in Seq(Command), q # <<>>
  PROVE  /\ Tail(q) \in Seq(Command) /\ Len(Tail(q)) = Len(q) - 1 /\ Len(q) \in Nat \ {0}
         /\ q[1] \in Command /\ q[1] \in ItemsOf(q)
         /\ ItemsOf(q) = ItemsOf(Tail(q)) \cup {q[1]}
         /\ \A i \in 1..Len(Tail(q)) : i + 1 \in 1..Len(q) /\ Tail(q)[i] = q[i + 1]
<1>1. /\ Tail(q) \in Seq(Command) /\ Len(Tail(q)) = Len(q) - 1 /\ Len(q) \in Nat \ {0}
      /\ \A i \in 1..Len(Tail(q)) : i + 1 \in 1..Len(q) /\ Tail(q)[i] = q[i + 1]
  OBVIOUS
<1>2. 1 \in 1..Len(q) /\ q[1] \in Command
  BY <1>1
<1>3. ItemsOf(q) \subseteq ItemsOf(Tail(q)) \cup {q[1]}
  <2> SUFFICES ASSUME NEW i \in 1..Len(q) PROVE q[i] \in ItemsOf(Tail(q)) \cup {q[1]}
    BY DEF ItemsOf
  <2>1. CASE i = 1
    BY <2>1
  <2>2. CASE i # 1
    <3>1. i - 1 \in 1..Len(Tail(q)) /\ Tail(q)[i - 1] = q[i]
      BY <1>1, <2>2
    <3> QED
      BY <3>1 DEF ItemsOf
  <2> QED
    BY <2>1, <2>2
<1>4. ItemsOf(Tail(q)) \cup {q[1]} \subseteq ItemsOf(q)
  BY <1>1, <1>2 DEF ItemsOf
<1> QED
  BY <1>1, <1>2, <1>3, <1>4 DEF ItemsOf

\* A command enters the channel behind the ones that are there.
LEMMA SendKeepsOrder ==
  ASSUME HubInv, NEW c \in Command, rx' = Append(rx, c), pending' = pending,
         produced' = produced,
         IsEvent(c) =>
           /\ c.seq <= produced[c.session]
           /\ \A x \in ItemsOf(pending) : ~x.marker /\ x.session = c.session =>
                Before(x.session, x.seq, c.seq)
           /\ \A e \in ItemsOf(rx) : IsEvent(e) /\ e.session = c.session =>
                Before(e.session, e.seq, c.seq)
  PROVE  EventsInOrder'
<1>1. /\ rx \in Seq(Command) /\ rx' \in Seq(Command) /\ Len(rx') = Len(rx) + 1 /\ Len(rx) \in Nat
      /\ ItemsOf(rx') = ItemsOf(rx) \cup {c}
      /\ rx'[Len(rx) + 1] = c /\ \A i \in 1..Len(rx) : rx'[i] = rx[i]
  BY SentFacts DEF HubInv, HubTypeOK
<1>2. ASSUME NEW i \in 1..Len(rx'), NEW j \in 1..Len(rx'), i < j, IsEvent(rx'[i]), IsEvent(rx'[j]),
             rx'[i].session = rx'[j].session
      PROVE  Before(rx'[i].session, rx'[i].seq, rx'[j].seq)
  <2>1. i \in 1..Len(rx) /\ rx'[i] = rx[i] /\ rx[i] \in ItemsOf(rx)
    BY <1>1, <1>2 DEF ItemsOf
  <2>2. CASE j \in 1..Len(rx)
    BY <1>1, <1>2, <2>1, <2>2 DEF HubInv, EventsInOrder
  <2>3. CASE j = Len(rx) + 1
    BY <1>1, <1>2, <2>1, <2>3
  <2> QED
    BY <1>1, <2>2, <2>3
<1>3. \A x \in ItemsOf(pending') : ~x.marker => x.seq <= produced'[x.session]
  BY DEF HubInv, EventsInOrder
<1>4. ASSUME NEW e \in ItemsOf(rx'), IsEvent(e)
      PROVE  /\ e.seq <= produced[e.session]
             /\ \A x \in ItemsOf(pending) : ~x.marker /\ x.session = e.session =>
                  Before(x.session, x.seq, e.seq)
  <2>1. CASE e \in ItemsOf(rx)
    BY <1>4, <2>1 DEF HubInv, EventsInOrder
  <2>2. CASE e = c
    BY <1>4, <2>2
  <2> QED
    BY <1>1, <2>1, <2>2
<1>5. Ordered(pending)'
  BY DEF HubInv, EventsInOrder, Ordered, Before
<1> QED
  BY <1>2, <1>3, <1>4, <1>5 DEF EventsInOrder, IsEvent, Before

LEMMA SendOtherKeepsInv ==
  ASSUME HubInv, NEW c \in Command, ~IsEvent(c), SendOther(c)
  PROVE  HubInv'
<1>1. /\ UNCHANGED <<produced, total, hand, refused, dropped, pending, live, online, shutting, pc,
                     stored, late, trimmed, lossy, due>>
      /\ pc # "done" /\ rx' = Append(rx, c) /\ others' = others + 1 /\ others < MaxOthers /\ HasRoom
  BY DEF SendOther, hubVars, history
<1>2. /\ rx \in Seq(Command) /\ rx' \in Seq(Command) /\ Len(rx') = Len(rx) + 1 /\ Len(rx) \in Nat
      /\ ItemsOf(rx') = ItemsOf(rx) \cup {c}
  BY <1>1, SentFacts DEF HubInv, HubTypeOK
<1>3. HubTypeOK'
  <2>1. Len(rx') <= ChannelCapacity /\ others' \in 0..MaxOthers
    BY <1>1, <1>2, HubAssumption DEF HasRoom, HubInv, HubTypeOK
  <2> QED
    BY <1>1, <1>2, <2>1 DEF HubInv, HubTypeOK
<1>4. EventsInOrder' /\ HeldBehind'
  <2>1. EventsInOrder'
    BY <1>1, SendKeepsOrder
  <2>2. HeldBehind'
    BY <1>1, <1>2 DEF HubInv, HeldBehind, IsEvent, Before
  <2> QED
    BY <2>1, <2>2
<1>5. Markers' = Markers
  BY <1>1 DEF Markers
<1>6. \A nums, s : CountsNone(nums, s) => CountsNone(nums, s)'
  BY <1>1, <1>2 DEF CountsNone
<1>7. CountedApart' /\ CleanUnmarked'
  <2>1. \A s \in Sessions : CountsNone(dropped[s], s)'
    BY <1>1, <1>6 DEF HubInv, CountedApart, CountsNone
  <2>2. \A x \in Markers' : CountsNone(x.nums, x.session)'
    BY <1>5, <1>6 DEF HubInv, CountedApart, CountsNone
  <2> QED
    BY <1>1, <1>5, <2>1, <2>2 DEF HubInv, CountedApart, DropsCountedOnce, CleanUnmarked
<1>8. Stamped' /\ Leaving'
  BY <1>1, <1>2 DEF HubInv, Stamped, Leaving
<1>9. CleanDelivered'
  BY <1>1, <1>2 DEF HubInv, CleanDelivered, InHand, IsStored
<1>10. CursorHonest' /\ GapFree(late)'
  BY <1>1, CursorKeeps, GapFreeKeeps DEF HubInv
<1> QED
  BY <1>3, <1>4, <1>7, <1>8, <1>9, <1>10 DEF HubInv

\* A new number is above all that was stamped before.
LEMMA StampKeepsInv ==
  ASSUME HubInv, NEW f \in Forwarders, Stamp(f)
  PROVE  HubInv'
<1> DEFINE s == SessionOf[f]
           n == produced[s] + 1
<1>1. /\ UNCHANGED <<refused, others, rx, dropped, pending, live, online, shutting, pc, stored, late,
                     trimmed, lossy, due>>
      /\ hand[f] = 0 /\ total < MaxEvents /\ total' = total + 1
      /\ produced' = [produced EXCEPT ![s] = n] /\ hand' = [hand EXCEPT ![f] = n]
  BY DEF Stamp, hubVars, history
<1>2. /\ s \in Sessions /\ produced \in [Sessions -> 0..MaxEvents] /\ total \in Nat
      /\ MaxEvents \in Nat /\ produced[s] <= total /\ produced[s] \in Nat
      /\ hand \in [Forwarders -> 0..MaxEvents]
  BY HubAssumption DEF HubInv, HubTypeOK, Stamped
<1>3. n \in Numbers /\ n \in Nat /\ n # 0
  BY <1>1, <1>2 DEF Numbers
<1>4. \A r \in Sessions : /\ produced'[r] \in 0..MaxEvents /\ produced'[r] \in Nat
                          /\ produced[r] \in Nat /\ produced[r] <= produced'[r]
                          /\ (r # s => produced'[r] = produced[r])
  BY <1>1, <1>2, <1>3 DEF Numbers
<1>5. /\ produced'[s] = n /\ hand'[f] = n /\ n = produced[s] + 1
      /\ \A g \in Forwarders : g # f => hand'[g] = hand[g]
  BY <1>1, <1>2
<1>6. /\ produced' \in [Sessions -> 0..MaxEvents] /\ total' \in 0..MaxEvents
      /\ hand' \in [Forwarders -> 0..MaxEvents]
  BY <1>1, <1>2, <1>3, <1>4 DEF Numbers
<1> HIDE DEF n
<1>7. Markers' = Markers /\ \A x \in Markers : x.session \in Sessions /\ x.nums \subseteq Numbers
  BY <1>1, QueueFacts, ItemFacts DEF HubInv, Markers
<1>8. \A x \in Markers : /\ (x.session = s => n \notin x.nums)
                         /\ \A k \in x.nums : k <= produced'[x.session]
  <2> TAKE x \in Markers
  <2>1. x.session \in Sessions /\ \A k \in x.nums : k \in Nat /\ k <= produced[x.session]
    BY <1>7, NumbersFacts DEF HubInv, CountedApart
  <2> QED
    BY <1>2, <1>4, <1>5, <2>1
<1>9. \A r \in Sessions : /\ \A k \in dropped[r] : k \in Nat /\ k <= produced[r] /\ k <= produced'[r]
                          /\ due[r] \in Nat /\ due[r] <= produced[r] /\ due[r] <= produced'[r]
                          /\ produced'[r] <= total'
  <2> TAKE r \in Sessions
  <2>1. /\ due[r] \in Nat /\ due[r] <= produced[r] /\ produced[r] <= total
        /\ \A k \in dropped[r] : k \in Nat /\ k <= produced[r]
    BY QueueFacts, NumbersFacts DEF HubInv, Stamped
  <2>2. produced'[r] <= total'
    <3>1. CASE r = s
      BY <1>1, <1>2, <1>5, <3>1
    <3>2. CASE r # s
      BY <1>1, <1>2, <1>4, <2>1, <3>2
    <3> QED
      BY <3>1, <3>2
  <2> QED
    BY <1>4, <2>1, <2>2
<1>10. \A x \in ItemsOf(pending) : ~x.marker =>
         /\ x.session \in Sessions /\ x.seq \in Nat /\ x.seq <= produced[x.session]
         /\ x.seq <= produced'[x.session]
  <2>1. \A x \in ItemsOf(pending) : ~x.marker =>
          x.session \in Sessions /\ x.seq \in Nat /\ x.seq <= produced[x.session]
    BY QueueFacts, ItemFacts, NumbersFacts DEF HubInv, EventsInOrder
  <2> QED
    BY <1>4, <2>1
<1>11. \A c \in ItemsOf(rx) : IsEvent(c) =>
         /\ c.session \in Sessions /\ c.seq \in Nat /\ c.seq <= produced[c.session]
         /\ c.seq <= produced'[c.session]
  <2>1. \A c \in ItemsOf(rx) : IsEvent(c) =>
          c.session \in Sessions /\ c.seq \in Nat /\ c.seq <= produced[c.session]
    BY QueueFacts, ReceivedFacts, NumbersFacts DEF HubInv, EventsInOrder, IsEvent
  <2> QED
    BY <1>4, <2>1
<1>12. HubTypeOK'
  <2>1. refused' \subseteq {g \in Forwarders : hand'[g] # 0}
    BY <1>1, <1>5 DEF HubInv, HubTypeOK
  <2> QED
    BY <1>1, <1>6, <2>1 DEF HubInv, HubTypeOK
<1>13. Stamped'
  <2>1. ASSUME NEW g \in Forwarders, hand'[g] # 0
        PROVE  /\ hand'[g] <= produced'[SessionOf[g]] /\ due[SessionOf[g]] < hand'[g]
               /\ \A h \in Forwarders : g # h /\ SessionOf[g] = SessionOf[h] => hand'[g] # hand'[h]
    <3>1. \A h \in Forwarders : /\ SessionOf[h] \in Sessions /\ hand[h] \in Nat
                                /\ hand[h] # 0 => hand[h] <= produced[SessionOf[h]]
      BY HandFacts DEF HubInv, Stamped
    <3>2. CASE g = f
      <4>1. hand'[g] = n /\ n <= produced'[s] /\ due[s] < n
        BY <1>2, <1>3, <1>5, <1>9, <3>2
      <4>2. ASSUME NEW h \in Forwarders, g # h, SessionOf[g] = SessionOf[h]
            PROVE  hand'[g] # hand'[h]
        <5>1. hand'[h] = hand[h] /\ hand[h] \in Nat /\ hand[h] <= produced[s]
          BY <1>2, <1>5, <3>1, <3>2, <4>2
        <5> QED
          BY <1>2, <1>5, <4>1, <5>1
      <4> QED
        BY <3>2, <4>1, <4>2
    <3>3. CASE g # f
      <4>1. /\ hand'[g] = hand[g] /\ hand[g] # 0 /\ hand[g] \in Nat
            /\ hand[g] <= produced[SessionOf[g]] /\ due[SessionOf[g]] < hand[g]
            /\ \A h \in Forwarders : g # h /\ SessionOf[g] = SessionOf[h] => hand[g] # hand[h]
        BY <1>5, <2>1, <3>1, <3>3 DEF HubInv, Stamped
      <4>2. SessionOf[g] = SessionOf[f] => hand[g] # n
        BY <1>2, <1>5, <4>1
      <4> QED
        BY <1>4, <1>5, <3>1, <4>1, <4>2
    <3> QED
      BY <3>2, <3>3
  <2> QED
    BY <1>1, <1>9, <2>1 DEF Stamped
<1>14. Leaving'
  BY <1>1 DEF HubInv, Leaving, IsEvent
<1>15. EventsInOrder'
  BY <1>1, <1>10, <1>11 DEF HubInv, EventsInOrder, Ordered, IsEvent, Before
<1>16. HeldBehind'
  <2> SUFFICES ASSUME NEW g \in Forwarders, hand'[g] # 0
               PROVE  /\ \A x \in ItemsOf(pending) : ~x.marker /\ x.session = SessionOf[g] =>
                           Before(x.session, x.seq, hand'[g])
                      /\ \A c \in ItemsOf(rx) : IsEvent(c) /\ c.session = SessionOf[g] =>
                           Before(c.session, c.seq, hand'[g])
    BY <1>1 DEF HeldBehind, IsEvent, Before
  <2>1. CASE g = f
    BY <1>2, <1>5, <1>10, <1>11, <2>1 DEF Before
  <2>2. CASE g # f
    BY <1>5, <2>2 DEF HubInv, HeldBehind
  <2> QED
    BY <2>1, <2>2
<1>17. ASSUME NEW nums, NEW r, CountsNone(nums, r), r = s => n \notin nums
       PROVE  /\ \A x \in ItemsOf(pending') : ~x.marker /\ x.session = r => x.seq \notin nums
              /\ \A c \in ItemsOf(rx') : IsEvent(c) /\ c.session = r => c.seq \notin nums
              /\ \A g \in Forwarders : SessionOf[g] = r /\ hand'[g] # 0 => hand'[g] \notin nums
  BY <1>1, <1>5, <1>17 DEF CountsNone
<1>18. CountedApart' /\ CleanUnmarked'
  <2>1. \A r \in Sessions : CountsNone(dropped[r], r)'
    <3> TAKE r \in Sessions
    <3>1. CountsNone(dropped[r], r) /\ (r = s => n \notin dropped[r])
      BY <1>2, <1>5, <1>9 DEF HubInv, CountedApart
    <3> QED
      BY <1>1, <1>17, <3>1 DEF CountsNone
  <2>2. \A x \in Markers' : CountsNone(x.nums, x.session)'
    <3> TAKE x \in Markers'
    <3>1. CountsNone(x.nums, x.session) /\ (x.session = s => n \notin x.nums)
      BY <1>7, <1>8 DEF HubInv, CountedApart
    <3> QED
      BY <1>17, <3>1 DEF CountsNone
  <2>3. DropsCountedOnce' /\ CleanUnmarked'
    BY <1>1, <1>7 DEF HubInv, CountedApart, DropsCountedOnce, CleanUnmarked
  <2> QED
    BY <1>7, <1>8, <2>1, <2>2, <2>3 DEF CountedApart
<1>19. CleanDelivered'
  <2> SUFFICES ASSUME NEW r \in OneForwarder \ lossy, NEW k \in 1..produced'[r]
               PROVE  \/ InHand(r, k)'
                      \/ EventCmd(r, k) \in ItemsOf(rx)
                      \/ Event(r, k) \in ItemsOf(pending)
                      \/ IsStored(r, k)
                      \/ pc = "done" /\ k > due[r]
    BY <1>1 DEF CleanDelivered, IsStored
  <2>1. r \in Sessions
    BY HandFacts DEF HubInv
  <2>2. CASE k \in 1..produced[r]
    <3>1. InHand(r, k) => InHand(r, k)'
      BY <1>1, <1>5, <2>2 DEF InHand
    <3> QED
      BY <2>2, <3>1 DEF HubInv, CleanDelivered
  <2>3. CASE k \notin 1..produced[r]
    <3>1. r = s /\ k = n
      BY <1>2, <1>4, <1>5, <2>1, <2>3
    <3> QED
      BY <1>5, <3>1 DEF InHand
  <2> QED
    BY <2>2, <2>3
<1>20. CursorHonest' /\ GapFree(late)'
  BY <1>1, CursorKeeps, GapFreeKeeps DEF HubInv
<1> QED
  BY <1>12, <1>13, <1>14, <1>15, <1>16, <1>18, <1>19, <1>20 DEF HubInv

\* A forwarder lets its number go: the others hold other numbers.
LEMMA ReleaseKeepsHands ==
  ASSUME HubInv, NEW f \in Forwarders, hand[f] # 0, hand' = [hand EXCEPT ![f] = 0],
         UNCHANGED <<produced, due>>
  PROVE  /\ hand' \in [Forwarders -> 0..MaxEvents]
         /\ \A g \in Forwarders : hand'[g] # 0 =>
              /\ g # f /\ hand'[g] = hand[g] /\ (SessionOf[g] = SessionOf[f] => hand[g] # hand[f])
         /\ \A g \in Forwarders : hand'[g] # 0 =>
              /\ hand'[g] <= produced'[SessionOf[g]] /\ due'[SessionOf[g]] < hand'[g]
              /\ \A h \in Forwarders : g # h /\ SessionOf[g] = SessionOf[h] => hand'[g] # hand'[h]
<1>1. hand \in [Forwarders -> 0..MaxEvents] /\ MaxEvents \in Nat
  BY HubAssumption DEF HubInv, HubTypeOK
<1>2. hand' \in [Forwarders -> 0..MaxEvents]
  BY <1>1
<1>3. hand'[f] = 0 /\ \A g \in Forwarders : g # f => hand'[g] = hand[g]
  BY <1>1
<1>4. \A g \in Forwarders : hand[g] # 0 =>
        /\ hand[g] <= produced[SessionOf[g]] /\ due[SessionOf[g]] < hand[g]
        /\ \A h \in Forwarders : g # h /\ SessionOf[g] = SessionOf[h] => hand[g] # hand[h]
  BY DEF HubInv, Stamped
<1>5. \A g \in Forwarders : hand'[g] # 0 =>
        /\ g # f /\ hand'[g] = hand[g] /\ (SessionOf[g] = SessionOf[f] => hand[g] # hand[f])
  BY <1>3, <1>4
<1>6. ASSUME NEW g \in Forwarders, hand'[g] # 0
      PROVE  /\ hand'[g] <= produced'[SessionOf[g]] /\ due'[SessionOf[g]] < hand'[g]
             /\ \A h \in Forwarders : g # h /\ SessionOf[g] = SessionOf[h] => hand'[g] # hand'[h]
  <2>1. g # f /\ hand'[g] = hand[g] /\ hand[g] # 0
    BY <1>5, <1>6
  <2>2. \A h \in Forwarders : hand'[h] = hand[h] \/ hand'[h] = 0
    BY <1>3
  <2> QED
    BY <1>4, <2>1, <2>2
<1> QED
  BY <1>2, <1>5, <1>6

\* An event that is offered goes behind the others of its session.
LEMMA EnqueuedKeepsInv ==
  ASSUME HubInv, NEW f \in Forwarders, hand[f] # 0, f \notin refused, pc # "done", HasRoom,
         rx' = Append(rx, EventCmd(SessionOf[f], hand[f])), hand' = [hand EXCEPT ![f] = 0],
         UNCHANGED <<refused, produced, total, others, dropped, pending, live, online, shutting, pc,
                     stored, late, trimmed, lossy, due>>
  PROVE  HubInv'
<1> DEFINE s == SessionOf[f]
           n == hand[f]
           c == EventCmd(s, n)
<1>1. s \in Sessions /\ n \in Numbers
  BY HandFacts DEF HubInv
<1>2. c \in Command /\ IsEvent(c) /\ c.session = s /\ c.seq = n
  BY <1>1, CommandFacts
<1>3. /\ n <= produced[s] /\ due[s] < n
      /\ \A x \in ItemsOf(pending) : ~x.marker /\ x.session = s => Before(x.session, x.seq, n)
      /\ \A e \in ItemsOf(rx) : IsEvent(e) /\ e.session = s => Before(e.session, e.seq, n)
  BY DEF HubInv, Stamped, HeldBehind
<1>4. /\ hand' \in [Forwarders -> 0..MaxEvents]
      /\ \A g \in Forwarders : hand'[g] # 0 =>
           /\ g # f /\ hand'[g] = hand[g] /\ (SessionOf[g] = s => hand[g] # n)
      /\ \A g \in Forwarders : hand'[g] # 0 =>
           /\ hand'[g] <= produced'[SessionOf[g]] /\ due'[SessionOf[g]] < hand'[g]
           /\ \A h \in Forwarders : g # h /\ SessionOf[g] = SessionOf[h] => hand'[g] # hand'[h]
  BY ReleaseKeepsHands
<1>5. rx' = Append(rx, c)
  OBVIOUS
<1>6. hand' = [hand EXCEPT ![f] = 0]
  OBVIOUS
<1>7. \A r, k : c = EventCmd(r, k) <=> r = s /\ k = n
  BY DEF EventCmd
<1> HIDE DEF c, n
<1>8. /\ rx \in Seq(Command) /\ rx' \in Seq(Command) /\ Len(rx') = Len(rx) + 1 /\ Len(rx) \in Nat
      /\ ItemsOf(rx') = ItemsOf(rx) \cup {c}
  BY <1>2, <1>5, SentFacts DEF HubInv, HubTypeOK
<1>9. HubTypeOK'
  <2>1. Len(rx') <= ChannelCapacity
    BY <1>8, HubAssumption DEF HasRoom
  <2>2. refused' \subseteq {g \in Forwarders : hand'[g] # 0}
    BY <1>6 DEF HubInv, HubTypeOK
  <2> QED
    BY <1>4, <1>8, <2>1, <2>2 DEF HubInv, HubTypeOK
<1>10. Stamped'
  BY <1>4 DEF HubInv, Stamped
<1>11. Leaving'
  <2>1. \A e \in ItemsOf(rx') : IsEvent(e) => e \in ItemsOf(rx) \/ e.seq > due[e.session]
    <3>1. due[s] \in Nat /\ n \in Nat
      BY <1>1, QueueFacts, NumbersFacts DEF HubInv
    <3> QED
      BY <1>2, <1>3, <1>8, <3>1
  <2> QED
    BY <2>1 DEF HubInv, Leaving, IsEvent
<1>12. EventsInOrder'
  BY <1>2, <1>3, <1>5, SendKeepsOrder
<1>13. HeldBehind'
  <2> SUFFICES ASSUME NEW g \in Forwarders, hand'[g] # 0
               PROVE  /\ \A x \in ItemsOf(pending) : ~x.marker /\ x.session = SessionOf[g] =>
                           Before(x.session, x.seq, hand'[g])
                      /\ \A e \in ItemsOf(rx') : IsEvent(e) /\ e.session = SessionOf[g] =>
                           Before(e.session, e.seq, hand'[g])
    BY DEF HeldBehind, IsEvent, Before
  <2>1. g # f /\ hand'[g] = hand[g] /\ hand[g] # 0 /\ (SessionOf[g] = s => hand[g] # n)
    BY <1>4
  <2>2. SessionOf[g] = s => Before(s, n, hand[g])
    <3>1. SessionOf[g] = s => s \notin OneForwarder
      BY <2>1, HandFacts DEF HubInv
    <3> QED
      BY <2>1, <3>1 DEF Before
  <2>3. /\ \A x \in ItemsOf(pending) : ~x.marker /\ x.session = SessionOf[g] =>
             Before(x.session, x.seq, hand[g])
        /\ \A e \in ItemsOf(rx) : IsEvent(e) /\ e.session = SessionOf[g] =>
             Before(e.session, e.seq, hand[g])
    BY <2>1 DEF HubInv, HeldBehind
  <2> QED
    BY <1>2, <1>8, <2>1, <2>2, <2>3
<1>14. ASSUME NEW nums, NEW r, CountsNone(nums, r)
       PROVE  /\ \A x \in ItemsOf(pending') : ~x.marker /\ x.session = r => x.seq \notin nums
              /\ \A e \in ItemsOf(rx') : IsEvent(e) /\ e.session = r => e.seq \notin nums
              /\ \A g \in Forwarders : SessionOf[g] = r /\ hand'[g] # 0 => hand'[g] \notin nums
  <2>1. r = s => n \notin nums
    BY <1>14 DEF CountsNone, n
  <2> QED
    BY <1>2, <1>4, <1>8, <1>14, <2>1 DEF CountsNone
<1>15. Markers' = Markers
  BY DEF Markers
<1>16. CountedApart' /\ CleanUnmarked'
  <2>1. \A r \in Sessions : CountsNone(dropped[r], r)'
    <3> TAKE r \in Sessions
    <3>1. CountsNone(dropped[r], r)
      BY DEF HubInv, CountedApart
    <3> QED
      BY <1>14, <3>1 DEF CountsNone
  <2>2. \A x \in Markers' : CountsNone(x.nums, x.session)'
    <3> TAKE x \in Markers'
    <3>1. CountsNone(x.nums, x.session)
      BY <1>15 DEF HubInv, CountedApart
    <3> QED
      BY <1>14, <3>1 DEF CountsNone
  <2> QED
    BY <1>15, <2>1, <2>2 DEF HubInv, CountedApart, DropsCountedOnce, CleanUnmarked
<1>17. CleanDelivered'
  <2> SUFFICES ASSUME NEW r \in OneForwarder \ lossy, NEW k \in 1..produced[r]
               PROVE  \/ InHand(r, k)'
                      \/ EventCmd(r, k) \in ItemsOf(rx')
                      \/ Event(r, k) \in ItemsOf(pending)
                      \/ IsStored(r, k)
    BY DEF CleanDelivered, IsStored
  <2>1. \/ InHand(r, k)
        \/ EventCmd(r, k) \in ItemsOf(rx)
        \/ Event(r, k) \in ItemsOf(pending)
        \/ IsStored(r, k)
    BY DEF HubInv, CleanDelivered
  <2>2. CASE InHand(r, k)
    <3>1. PICK g \in Forwarders : SessionOf[g] = r /\ hand[g] = k
      BY <2>2 DEF InHand
    <3>2. CASE g = f
      BY <1>7, <1>8, <3>1, <3>2 DEF n
    <3>3. CASE g # f
      <4>1. hand'[g] = hand[g]
        BY <1>6, <3>3 DEF HubInv, HubTypeOK
      <4> QED
        BY <3>1, <4>1 DEF InHand
    <3> QED
      BY <3>2, <3>3
  <2> QED
    BY <1>8, <2>1, <2>2
<1>18. CursorHonest' /\ GapFree(late)'
  BY CursorKeeps, GapFreeKeeps DEF HubInv
<1> QED
  BY <1>9, <1>10, <1>11, <1>12, <1>13, <1>16, <1>17, <1>18 DEF HubInv

\* A number goes without trace when the worker has returned, or into a range.
LEMMA ReleasedKeepsInv ==
  ASSUME HubInv, NEW f \in Forwarders, hand[f] # 0, hand' = [hand EXCEPT ![f] = 0],
         refused' = refused \ {f},
         UNCHANGED <<produced, total, others, rx, pending, live, online, shutting, pc, stored, late,
                     trimmed, due>>,
         \/ UNCHANGED <<dropped, lossy>> /\ pc = "done"
         \/ /\ dropped' = [dropped EXCEPT ![SessionOf[f]] = @ \cup {hand[f]}]
            /\ lossy' = lossy \cup {SessionOf[f]}
  PROVE  HubInv'
<1> DEFINE s == SessionOf[f]
           n == hand[f]
<1>1. s \in Sessions /\ n \in Numbers /\ dropped \in [Sessions -> SUBSET Numbers]
  BY HandFacts DEF HubInv, HubTypeOK
<1>2. /\ n <= produced[s] /\ due[s] < n
      /\ \A x \in ItemsOf(pending) : ~x.marker /\ x.session = s => x.seq # n
      /\ \A c \in ItemsOf(rx) : IsEvent(c) /\ c.session = s => c.seq # n
  BY DEF HubInv, Stamped, HeldBehind, Before
<1>3. /\ hand' \in [Forwarders -> 0..MaxEvents]
      /\ \A g \in Forwarders : hand'[g] # 0 =>
           /\ g # f /\ hand'[g] = hand[g] /\ (SessionOf[g] = s => hand[g] # n)
      /\ \A g \in Forwarders : hand'[g] # 0 =>
           /\ hand'[g] <= produced'[SessionOf[g]] /\ due'[SessionOf[g]] < hand'[g]
           /\ \A h \in Forwarders : g # h /\ SessionOf[g] = SessionOf[h] => hand'[g] # hand'[h]
  BY ReleaseKeepsHands
<1>4. \A x \in Markers : x.session \in Sessions /\ (x.session = s => n \notin x.nums)
  BY QueueFacts, ItemFacts DEF HubInv, CountedApart, CountsNone
<1>5. hand' = [hand EXCEPT ![f] = 0] /\ \A g \in Forwarders : g # f => hand'[g] = hand[g]
  BY DEF HubInv, HubTypeOK
<1>6. \/ UNCHANGED <<dropped, lossy>> /\ pc = "done"
      \/ dropped' = [dropped EXCEPT ![s] = @ \cup {n}] /\ lossy' = lossy \cup {s}
  OBVIOUS
<1> HIDE DEF n
<1>7. /\ dropped' \in [Sessions -> SUBSET Numbers] /\ lossy \subseteq lossy' /\ lossy' \subseteq Sessions
      /\ \A r \in Sessions : /\ dropped'[r] \subseteq dropped[r] \cup (IF r = s THEN {n} ELSE {})
                             /\ (dropped'[r] # {} => dropped[r] # {} \/ r \in lossy')
  <2>1. CASE UNCHANGED <<dropped, lossy>>
    BY <1>1, <2>1 DEF HubInv, HubTypeOK
  <2>2. CASE dropped' = [dropped EXCEPT ![s] = @ \cup {n}] /\ lossy' = lossy \cup {s}
    BY <1>1, <2>2 DEF HubInv, HubTypeOK
  <2> QED
    BY <1>6, <2>1, <2>2
<1>8. HubTypeOK'
  <2>1. refused' \subseteq {g \in Forwarders : hand'[g] # 0}
    BY <1>5 DEF HubInv, HubTypeOK
  <2> QED
    BY <1>3, <1>7, <2>1 DEF HubInv, HubTypeOK
<1>9. Stamped' /\ Leaving'
  <2>1. \A r \in Sessions : \A k \in dropped'[r] : k <= produced[r]
    BY <1>2, <1>7 DEF HubInv, Stamped
  <2>2. Stamped'
    BY <1>3, <2>1 DEF HubInv, Stamped
  <2> QED
    BY <2>2 DEF HubInv, Leaving, IsEvent
<1>10. EventsInOrder' /\ HeldBehind'
  <2>1. EventsInOrder'
    BY DEF HubInv, EventsInOrder, Ordered, IsEvent, Before
  <2>2. HeldBehind'
    BY <1>3 DEF HubInv, HeldBehind, IsEvent, Before
  <2> QED
    BY <2>1, <2>2
<1>11. Markers' = Markers
  BY DEF Markers
<1>12. CountedApart' /\ CleanUnmarked'
  <2>1. \A r \in Sessions : CountsNone(dropped[r], r)'
    <3> TAKE r \in Sessions
    <3>1. CountsNone(dropped[r], r)
      BY DEF HubInv, CountedApart
    <3>2. \A x \in ItemsOf(pending) : ~x.marker /\ x.session = r => x.seq \notin dropped'[r]
      BY <1>2, <1>7, <3>1 DEF CountsNone
    <3>3. \A c \in ItemsOf(rx) : IsEvent(c) /\ c.session = r => c.seq \notin dropped'[r]
      BY <1>2, <1>7, <3>1 DEF CountsNone
    <3>4. \A g \in Forwarders : SessionOf[g] = r /\ hand'[g] # 0 => hand'[g] \notin dropped'[r]
      BY <1>3, <1>7, <3>1 DEF CountsNone
    <3> QED
      BY <3>2, <3>3, <3>4 DEF CountsNone, IsEvent
  <2>2. \A x \in Markers' : CountsNone(x.nums, x.session)'
    <3> TAKE x \in Markers'
    <3>1. CountsNone(x.nums, x.session)
      BY <1>11 DEF HubInv, CountedApart
    <3> QED
      BY <1>3, <3>1 DEF CountsNone, IsEvent
  <2>3. \A x \in Markers : x.nums \cap dropped'[x.session] = {}
    <3> TAKE x \in Markers
    <3>1. x.nums \cap dropped[x.session] = {}
      BY DEF HubInv, CountedApart, DropsCountedOnce
    <3> QED
      BY <1>4, <1>7, <3>1
  <2>4. DropsCountedOnce'
    BY <1>11, <2>3 DEF HubInv, CountedApart, DropsCountedOnce
  <2>5. CleanUnmarked'
    BY <1>7, <1>11 DEF HubInv, CleanUnmarked
  <2> QED
    BY <1>11, <2>1, <2>2, <2>4, <2>5 DEF HubInv, CountedApart
<1>13. CleanDelivered'
  <2> SUFFICES ASSUME NEW r \in OneForwarder \ lossy', NEW k \in 1..produced[r]
               PROVE  \/ InHand(r, k)'
                      \/ EventCmd(r, k) \in ItemsOf(rx)
                      \/ Event(r, k) \in ItemsOf(pending)
                      \/ IsStored(r, k)
                      \/ pc = "done" /\ k > due[r]
    BY DEF CleanDelivered, IsStored
  <2>1. \/ InHand(r, k)
        \/ EventCmd(r, k) \in ItemsOf(rx)
        \/ Event(r, k) \in ItemsOf(pending)
        \/ IsStored(r, k)
        \/ pc = "done" /\ k > due[r]
    BY <1>7 DEF HubInv, CleanDelivered
  <2>2. CASE InHand(r, k)
    <3>1. PICK g \in Forwarders : SessionOf[g] = r /\ hand[g] = k
      BY <2>2 DEF InHand
    <3>2. CASE g = f
      <4>1. r = s /\ k = n /\ pc = "done"
        BY <1>6, <3>1, <3>2 DEF n
      <4>2. due[s] \in Nat /\ n \in Nat
        BY <1>1, QueueFacts, NumbersFacts DEF HubInv
      <4> QED
        BY <1>2, <4>1, <4>2
    <3>3. CASE g # f
      BY <1>5, <3>1, <3>3 DEF InHand
    <3> QED
      BY <3>2, <3>3
  <2> QED
    BY <2>1, <2>2
<1>14. CursorHonest' /\ GapFree(late)'
  BY <1>7, CursorKeeps, GapFreeKeeps DEF HubInv
<1> QED
  BY <1>8, <1>9, <1>10, <1>12, <1>13, <1>14 DEF HubInv

\* A full channel only makes the forwarder note that it was refused.
LEMMA RefusedKeepsInv ==
  ASSUME HubInv, NEW f \in Forwarders, hand[f] # 0, refused' = refused \cup {f},
         UNCHANGED <<produced, total, hand, others, rx, dropped, pending, live, online, shutting, pc,
                     stored, late, trimmed, lossy, due>>
  PROVE  HubInv'
<1>1. HubTypeOK'
  BY DEF HubInv, HubTypeOK
<1>2. Stamped' /\ Leaving'
  BY DEF HubInv, Stamped, Leaving, IsEvent
<1>3. Markers' = Markers
  BY DEF Markers
<1>4. NothingNew /\ Ordered(pending')
  BY <1>3 DEF NothingNew, HubInv, EventsInOrder
<1>5. EventsInOrder' /\ HeldBehind' /\ CountedApart' /\ CleanUnmarked'
  BY <1>4, NothingNewOrder, NothingNewCounts
<1>6. CleanDelivered'
  BY DEF HubInv, CleanDelivered, InHand, IsStored
<1>7. CursorHonest' /\ GapFree(late)'
  BY CursorKeeps, GapFreeKeeps DEF HubInv
<1> QED
  BY <1>1, <1>2, <1>5, <1>6, <1>7 DEF HubInv

LEMMA TryEnqueueKeepsInv ==
  ASSUME HubInv, NEW f \in Forwarders, TryEnqueue(f)
  PROVE  HubInv'
<1>1. /\ UNCHANGED <<produced, total, others, dropped, pending, live, online, shutting, pc, stored,
                     late, trimmed, lossy, due>>
      /\ hand[f] # 0 /\ f \notin refused
  BY DEF TryEnqueue, hubVars, history
<1>2. CASE /\ pc # "done" /\ HasRoom /\ rx' = Append(rx, EventCmd(SessionOf[f], hand[f]))
           /\ hand' = [hand EXCEPT ![f] = 0] /\ UNCHANGED refused
  BY <1>1, <1>2, EnqueuedKeepsInv
<1>3. CASE refused' = refused \cup {f} /\ UNCHANGED <<rx, hand>>
  BY <1>1, <1>3, RefusedKeepsInv
<1>4. CASE pc = "done" /\ hand' = [hand EXCEPT ![f] = 0] /\ UNCHANGED <<rx, refused>>
  <2>1. refused' = refused \ {f}
    BY <1>1, <1>4
  <2> QED
    BY <1>1, <1>4, <2>1, ReleasedKeepsInv
<1> QED
  BY <1>2, <1>3, <1>4 DEF TryEnqueue

LEMMA RecordDroppedKeepsInv ==
  ASSUME HubInv, NEW f \in Forwarders, RecordDropped(f)
  PROVE  HubInv'
<1>1. hand[f] # 0
  BY DEF RecordDropped, HubInv, HubTypeOK
<1>2. /\ UNCHANGED <<produced, total, others, rx, pending, live, online, shutting, pc, stored, late,
                     trimmed, due>>
      /\ hand' = [hand EXCEPT ![f] = 0] /\ refused' = refused \ {f}
      /\ dropped' = [dropped EXCEPT ![SessionOf[f]] = @ \cup {hand[f]}]
      /\ lossy' = lossy \cup {SessionOf[f]}
  BY DEF RecordDropped, hubVars
<1> QED
  BY <1>1, <1>2, ReleasedKeepsInv

\* A command leaves the channel; what the worker makes of it is queued.
LEMMA ReceiveKeepsInv ==
  ASSUME HubInv, Receive, pc \in {"drain", "select"}, pc' \in {"drain", "top"}
  PROVE  HubInv'
<1>1. /\ UNCHANGED <<produced, total, hand, refused, others, shutting, stored, late, trimmed, lossy,
                     due>>
      /\ rx # <<>> /\ rx' = Tail(rx)
  BY DEF Receive, producerVars, hubVars, history
<1>2. /\ rx \in Seq(Command) /\ rx' \in Seq(Command) /\ Len(rx') = Len(rx) - 1 /\ Len(rx) \in Nat \ {0}
      /\ rx[1] \in Command /\ rx[1] \in ItemsOf(rx)
      /\ ItemsOf(rx) = ItemsOf(rx') \cup {rx[1]}
      /\ \A i \in 1..Len(rx') : i + 1 \in 1..Len(rx) /\ rx'[i] = rx[i + 1]
  BY <1>1, TakenFacts DEF HubInv, HubTypeOK
<1>3. Len(rx') <= ChannelCapacity
  BY <1>2, HubAssumption DEF HubInv, HubTypeOK
<1>4. \A i, j \in 1..Len(rx') :
        i < j /\ IsEvent(rx'[i]) /\ IsEvent(rx'[j]) /\ rx'[i].session = rx'[j].session =>
          Before(rx'[i].session, rx'[i].seq, rx'[j].seq)
  <2> SUFFICES ASSUME NEW i \in 1..Len(rx'), NEW j \in 1..Len(rx'), i < j, IsEvent(rx'[i]),
                      IsEvent(rx'[j]), rx'[i].session = rx'[j].session
               PROVE  Before(rx'[i].session, rx'[i].seq, rx'[j].seq)
    OBVIOUS
  <2>1. i + 1 \in 1..Len(rx) /\ j + 1 \in 1..Len(rx) /\ i + 1 < j + 1
    BY <1>2
  <2> QED
    BY <1>2, <2>1 DEF HubInv, EventsInOrder
<1>5. Leaving'
  BY DEF Leaving
<1>6. CursorHonest' /\ GapFree(late)'
  BY <1>1, CursorKeeps, GapFreeKeeps DEF HubInv
<1>7. CASE /\ rx[1].kind \in {"ephemeral", "announce"} /\ UNCHANGED <<pending, dropped>>
           /\ live' \in Announces /\ online' \in BOOLEAN
  <2>1. HubTypeOK'
    BY <1>1, <1>2, <1>3, <1>7 DEF HubInv, HubTypeOK
  <2>2. Markers' = Markers
    BY <1>1, <1>7 DEF Markers
  <2>3. NothingNew
    BY <1>1, <1>2, <1>7, <2>2 DEF NothingNew
  <2>4. CountedApart' /\ CleanUnmarked'
    BY <2>3, NothingNewCounts
  <2>5. EventsInOrder' /\ HeldBehind'
    <3>1. ItemsOf(rx') \subseteq ItemsOf(rx) /\ Ordered(pending)' /\ pending' = pending
      BY <1>2, <1>7 DEF HubInv, EventsInOrder, Ordered, Before
    <3>2. HeldBehind'
      BY <1>1, <3>1, HeldStaysBehind
    <3> QED
      BY <1>1, <1>4, <3>1, <3>2 DEF HubInv, EventsInOrder, IsEvent, Before
  <2>6. Stamped'
    BY <1>1, <1>7 DEF HubInv, Stamped
  <2>7. CleanDelivered'
    <3> SUFFICES ASSUME NEW s \in OneForwarder \ lossy, NEW n \in 1..produced[s]
                 PROVE  \/ InHand(s, n)
                        \/ EventCmd(s, n) \in ItemsOf(rx')
                        \/ Event(s, n) \in ItemsOf(pending)
                        \/ IsStored(s, n)
      BY <1>1, <1>7 DEF CleanDelivered, InHand, IsStored
    <3>1. rx[1] # EventCmd(s, n)
      BY <1>7 DEF EventCmd
    <3> QED
      BY <1>2, <3>1 DEF HubInv, CleanDelivered
  <2> QED
    BY <1>5, <1>6, <2>1, <2>4, <2>5, <2>6, <2>7 DEF HubInv
<1>8. CASE /\ rx[1].kind = "event" /\ Pushed(rx[1].session, rx[1].seq) /\ UNCHANGED <<live, online>>
  <2> DEFINE s == rx[1].session
             n == rx[1].seq
             marks == dropped[s] # {} /\ LastOf(dropped[s]) < n
             M == IF marks THEN <<Marker(s, dropped[s])>> ELSE <<>>
             R == [r \in Sessions |-> IF r = s /\ marks THEN dropped[s] ELSE {}]
  <2>1. s \in Sessions /\ n \in Numbers /\ n \in Nat /\ rx[1] = EventCmd(s, n)
    BY <1>2, <1>8, ReceivedFacts, NumbersFacts
  <2>2. pending' = pending \o M \o <<Event(s, n)>> /\ dropped' = [dropped EXCEPT ![s] = IF marks THEN {} ELSE @]
    BY <1>8 DEF Pushed
  <2>3. dropped \in [Sessions -> SUBSET Numbers] /\ pending \in Seq(Item) /\ Ordered(pending)
    BY DEF HubInv, HubTypeOK, EventsInOrder
  <2>4. R \in [Sessions -> SUBSET Numbers]
    BY <2>1, <2>3
  <2>5. \A r \in Sessions : R[r] \subseteq dropped[r] /\ dropped'[r] = dropped[r] \ R[r]
    BY <2>1, <2>2, <2>3
  <2>6. dropped' \in [Sessions -> SUBSET Numbers]
    BY <2>1, <2>2, <2>3
  <2>7. M \in Seq(Item) /\ \A x \in ItemsOf(M) : x = Marker(s, R[s]) /\ R[s] # {} /\ x.marker
    <3>1. CASE marks
      <4>1. M = <<Marker(s, dropped[s])>> /\ R[s] = dropped[s] /\ dropped[s] # {}
        BY <2>1, <3>1
      <4>2. Marker(s, dropped[s]) \in Item /\ Marker(s, dropped[s]).marker = TRUE
        BY <2>1, <2>3, <4>1, MarkerFacts
      <4>3. ItemsOf(M) = {Marker(s, dropped[s])}
        BY <4>1 DEF ItemsOf
      <4>4. M \in Seq(Item)
        BY <4>1, <4>2
      <4> HIDE DEF M, R
      <4> QED
        BY <4>1, <4>2, <4>3, <4>4
    <3>2. CASE ~marks
      <4>1. M = <<>>
        BY <3>2
      <4> HIDE DEF M, R
      <4>2. ItemsOf(M) = {} /\ M \in Seq(Item)
        BY <4>1 DEF ItemsOf
      <4> QED
        BY <4>2
    <3> QED
      BY <3>1, <3>2
  <2> DEFINE E == <<Event(s, n)>>
  <2>8. E \in Seq(Item) /\ ItemsOf(E) = {Event(s, n)} /\ Ordered(E)
    <3>1. Event(s, n) \in Item
      BY <2>1, EventFacts
    <3>2. Len(E) = 1 /\ E[1] = Event(s, n) /\ E \in Seq(Item)
      BY <3>1
    <3>3. ItemsOf(E) = {Event(s, n)}
      BY <3>2 DEF ItemsOf
    <3>4. Ordered(E)
      BY <3>2 DEF Ordered
    <3> QED
      BY <3>2, <3>3, <3>4
  <2>9. Event(s, n).session = s /\ Event(s, n).seq = n /\ Event(s, n).marker = FALSE
    BY DEF Event
  <2>10. pending' = (pending \o M) \o E
    BY <2>2
  <2> HIDE DEF M, R, E, marks
  <2>11. pending \o M \in Seq(Item) /\ ItemsOf(pending \o M) = ItemsOf(pending) \cup ItemsOf(M)
    BY <2>3, <2>7, ItemsConcat
  <2>12. pending' \in Seq(Item) /\ ItemsOf(pending') = ItemsOf(pending) \cup ItemsOf(M) \cup {Event(s, n)}
    <3> DEFINE front == pending \o M
    <3>1. front \in Seq(Item) /\ pending' = front \o E
      BY <2>10, <2>11
    <3> HIDE DEF front
    <3>2. pending' \in Seq(Item) /\ ItemsOf(pending') = ItemsOf(front) \cup ItemsOf(E)
      BY <2>8, <3>1, ItemsConcat
    <3> QED
      BY <2>8, <2>11, <3>2 DEF front
  <2>13. IsEvent(rx[1]) /\ \A x \in ItemsOf(pending) : ~x.marker /\ x.session = s => Before(s, x.seq, n)
    BY <1>2, <1>8 DEF HubInv, EventsInOrder, IsEvent
  <2>14. Ordered(pending')
    <3>1. Ordered(M)
      BY <2>7, MarkersOrdered
    <3>2. Ordered(pending \o M)
      BY <2>3, <2>7, <3>1, OrderedConcat
    <3>3. \A x \in ItemsOf(pending \o M), y \in ItemsOf(E) :
            ~x.marker /\ ~y.marker /\ x.session = y.session => Before(x.session, x.seq, y.seq)
      BY <2>7, <2>8, <2>9, <2>11, <2>13
    <3> QED
      BY <2>8, <2>10, <2>11, <3>2, <3>3, OrderedConcat
  <2>15. \A x \in ItemsOf(pending') : ~x.marker => x \in ItemsOf(pending) \/ x = Event(s, n)
    BY <2>7, <2>12
  <2>16. HubTypeOK'
    BY <1>1, <1>2, <1>3, <1>8, <2>6, <2>12 DEF HubInv, HubTypeOK
  <2>17. Stamped'
    BY <1>1, <2>5 DEF HubInv, Stamped
  <2>18. n <= produced[s] /\ n \notin dropped[s] /\ \A x \in Markers : x.session = s => n \notin x.nums
    BY <1>2, <2>1, <2>13 DEF HubInv, EventsInOrder, CountedApart, CountsNone
  <2>19. ASSUME NEW c \in ItemsOf(rx'), IsEvent(c), c.session = s PROVE Before(s, n, c.seq)
    <3>1. PICK i \in 1..Len(rx') : c = rx'[i]
      BY DEF ItemsOf
    <3>2. c = rx[i + 1] /\ i + 1 \in 1..Len(rx) /\ 1 \in 1..Len(rx) /\ 1 < i + 1
      BY <1>2, <3>1
    <3> QED
      BY <2>13, <2>19, <3>2 DEF HubInv, EventsInOrder
  <2>20. EventsInOrder' /\ HeldBehind'
    <3>1. Ordered(pending)'
      BY <2>14 DEF Ordered, Before
    <3>2. \A x \in ItemsOf(pending') : ~x.marker => x.seq <= produced'[x.session]
      BY <1>1, <2>9, <2>15, <2>18 DEF HubInv, EventsInOrder
    <3>3. ASSUME NEW c \in ItemsOf(rx'), IsEvent(c)
          PROVE  /\ c.seq <= produced'[c.session]
                 /\ \A x \in ItemsOf(pending') : ~x.marker /\ x.session = c.session =>
                      Before(x.session, x.seq, c.seq)
      <4>1. /\ c \in ItemsOf(rx) /\ c.seq <= produced[c.session]
            /\ \A x \in ItemsOf(pending) : ~x.marker /\ x.session = c.session =>
                 Before(x.session, x.seq, c.seq)
        BY <1>2, <3>3 DEF HubInv, EventsInOrder
      <4> QED
        BY <1>1, <2>9, <2>15, <2>19, <3>3, <4>1
    <3>4. HeldBehind'
      <4>1. \A x \in ItemsOf(pending') : ~x.marker =>
              \/ x \in ItemsOf(pending)
              \/ \E c \in ItemsOf(rx) : IsEvent(c) /\ c.session = x.session /\ c.seq = x.seq
        BY <1>2, <2>9, <2>13, <2>15
      <4>2. ItemsOf(rx') \subseteq ItemsOf(rx)
        BY <1>2
      <4> QED
        BY <1>1, <4>1, <4>2, HeldStaysBehind
    <3> QED
      BY <1>4, <3>1, <3>2, <3>3, <3>4 DEF EventsInOrder, IsEvent, Before
  <2>21. CountedApart' /\ CleanUnmarked'
    <3>0. PICK Q \in [Sessions -> SUBSET Numbers] : Q = R
      BY <2>4
    <3>1. \A x \in Markers' : x \in Markers \/ \E r \in Sessions : Q[r] # {} /\ x = Marker(r, Q[r])
      BY <1>1, <2>1, <2>7, <2>9, <2>12, <3>0 DEF Markers
    <3>2. \A x \in ItemsOf(pending') : ~x.marker =>
            \/ x \in ItemsOf(pending)
            \/ \E c \in ItemsOf(rx) : IsEvent(c) /\ c.session = x.session /\ c.seq = x.seq
      BY <1>2, <2>9, <2>13, <2>15
    <3>3. \A r \in Sessions : \A k \in Q[r] : k <= produced[r] /\ k \notin dropped'[r]
      BY <2>5, <3>0 DEF HubInv, Stamped
    <3>4. \A r \in Sessions : CountsNone(Q[r], r)'
      <4> TAKE r \in Sessions
      <4>1. CountsNone(dropped[r], r)
        BY DEF HubInv, CountedApart
      <4>2. \A x \in ItemsOf(pending') : ~x.marker /\ x.session = r => x.seq \notin Q[r]
        BY <2>5, <2>9, <2>15, <2>18, <3>0, <4>1 DEF CountsNone
      <4>3. \A c \in ItemsOf(rx') : IsEvent(c) /\ c.session = r => c.seq \notin Q[r]
        BY <1>2, <2>5, <3>0, <4>1 DEF CountsNone
      <4>4. \A f \in Forwarders : SessionOf[f] = r /\ hand'[f] # 0 => hand'[f] \notin Q[r]
        BY <1>1, <2>5, <3>0, <4>1 DEF CountsNone
      <4> QED
        BY <4>2, <4>3, <4>4 DEF CountsNone
    <3>5. \A x \in Markers : Q[x.session] \cap x.nums = {}
      <4>1. \A x \in Markers : x.session \in Sessions /\ dropped[x.session] \cap x.nums = {}
        BY QueueFacts, ItemFacts DEF HubInv, CountedApart, DropsCountedOnce
      <4> QED
        BY <2>5, <3>0, <4>1
    <3>6. /\ \A r \in Sessions : Q[r] # {} => r \in lossy'
          /\ \A r \in Sessions : dropped'[r] \subseteq dropped[r]
          /\ UNCHANGED <<produced, hand>> /\ lossy \subseteq lossy'
          /\ ItemsOf(rx') \subseteq ItemsOf(rx)
      BY <1>1, <1>2, <2>5, <3>0 DEF HubInv, CleanUnmarked
    <3> QED
      BY <3>1, <3>2, <3>3, <3>4, <3>5, <3>6, NewMarkersCount
  <2>22. CleanDelivered'
    <3> SUFFICES ASSUME NEW r \in OneForwarder \ lossy, NEW k \in 1..produced[r]
                 PROVE  \/ InHand(r, k)
                        \/ EventCmd(r, k) \in ItemsOf(rx')
                        \/ Event(r, k) \in ItemsOf(pending')
                        \/ IsStored(r, k)
      BY <1>1 DEF CleanDelivered, InHand, IsStored
    <3>1. \/ InHand(r, k)
          \/ EventCmd(r, k) \in ItemsOf(rx)
          \/ Event(r, k) \in ItemsOf(pending)
          \/ IsStored(r, k)
      BY DEF HubInv, CleanDelivered
    <3>2. CASE rx[1] = EventCmd(r, k)
      <4>1. s = r /\ n = k
        BY <3>2 DEF EventCmd
      <4> QED
        BY <2>12, <4>1
    <3> QED
      BY <1>2, <2>12, <3>1, <3>2
  <2> QED
    BY <1>5, <1>6, <2>16, <2>17, <2>20, <2>21, <2>22 DEF HubInv
<1>9. live \in Announces /\ online \in BOOLEAN
  BY DEF HubInv, HubTypeOK
<1>10. CASE rx[1].kind = "announce" /\ live' = rx[1].sessions /\ online' = FALSE /\ UNCHANGED <<pending, dropped>>
  BY <1>2, <1>7, <1>10, ReceivedFacts
<1>11. CASE rx[1].kind = "ephemeral" /\ UNCHANGED <<pending, dropped, live, online>>
  BY <1>7, <1>9, <1>11
<1> QED
  BY <1>8, <1>10, <1>11 DEF Receive

-----------------------------------------------------------------------------
(* Steps that only move the worker. *)

LEMMA ControlKeepsInv ==
  ASSUME HubInv,
         UNCHANGED <<produced, total, hand, refused, others, rx, dropped, pending, live, stored, late,
                     trimmed, lossy>>,
         online' = online, shutting' \in {"no", "asked", "yes"},
         pc' \in {"top", "drain", "check", "mark", "select", "deliver", "flush", "done"},
         due' \in [Sessions -> 0..MaxEvents], \A s \in Sessions : due'[s] <= produced[s],
         \A f \in Forwarders : hand[f] # 0 => due'[SessionOf[f]] < hand[f],
         Leaving', pc = "done" => pc' = "done" /\ due' = due
  PROVE  HubInv'
<1>1. HubTypeOK'
  BY DEF HubInv, HubTypeOK
<1>2. Stamped'
  BY DEF HubInv, Stamped
<1>3. Markers' = Markers
  BY DEF Markers
<1>4. NothingNew
  BY <1>3 DEF NothingNew
<1>5. EventsInOrder' /\ HeldBehind' /\ CountedApart' /\ CleanUnmarked'
  <2>1. Ordered(pending')
    BY DEF HubInv, EventsInOrder
  <2> QED
    BY <1>4, <2>1, NothingNewOrder, NothingNewCounts
<1>6. CleanDelivered'
  BY DEF HubInv, CleanDelivered, InHand, IsStored
<1>7. CursorHonest' /\ GapFree(late)'
  BY CursorKeeps, GapFreeKeeps DEF HubInv
<1> QED
  BY <1>1, <1>2, <1>5, <1>6, <1>7 DEF HubInv

\* What is due at the request to shut down is below all that a forwarder holds.
LEMMA OfferedFacts ==
  ASSUME HubTypeOK, NEW s \in Sessions
  PROVE  /\ OfferedUpTo(s) \in 0..MaxEvents /\ OfferedUpTo(s) <= produced[s]
         /\ \A f \in Forwarders : SessionOf[f] = s /\ hand[f] # 0 => OfferedUpTo(s) < hand[f]
<1> DEFINE K == {n \in 0..produced[s] :
                   \A f \in Forwarders : SessionOf[f] = s /\ hand[f] # 0 => n < hand[f]}
<1>1. produced[s] \in 0..MaxEvents /\ produced[s] \in Nat /\ MaxEvents \in Nat
  BY HubAssumption DEF HubTypeOK
<1>2. \A f \in Forwarders : hand[f] \in Nat
  BY HandFacts
<1>3. K \in SUBSET (0..produced[s]) /\ 0 \in K
  BY <1>1, <1>2
<1>4. LastOf(K) \in K
  BY <1>1, <1>3, LastOfFacts
<1> QED
  BY <1>1, <1>4 DEF OfferedUpTo

LEMMA LoopKeepsInv ==
  ASSUME HubInv,
         \/ LoopHead \/ DrainEnds \/ CheckEmpty \/ SelectDeliver \/ SelectShutdown \/ NothingToSend
         \/ ConnectFails \/ AskShutdown
  PROVE  HubInv'
<1> USE DEF producerVars, hubVars, history, Goto
<1>0. /\ due \in [Sessions -> 0..MaxEvents] /\ \A s \in Sessions : due[s] <= produced[s]
      /\ \A f \in Forwarders : hand[f] # 0 => due[SessionOf[f]] < hand[f]
  BY DEF HubInv, HubTypeOK, Stamped
<1>1. CASE LoopHead \/ CheckEmpty \/ SelectDeliver \/ SelectShutdown \/ NothingToSend \/ ConnectFails
  <2>1. UNCHANGED <<produced, total, hand, refused, others, rx, dropped, pending, live, stored, late,
                    trimmed, lossy, due, online>>
    BY <1>1 DEF LoopHead, CheckEmpty, SelectDeliver, SelectShutdown, NothingToSend, ConnectFails
  <2>2. pc # "done" /\ pc' \in {"top", "drain", "check", "mark", "select", "deliver"}
    BY <1>1 DEF LoopHead, CheckEmpty, SelectDeliver, SelectShutdown, NothingToSend, ConnectFails
  <2>3. shutting' \in {"no", "asked", "yes"}
    BY <1>1
    DEF LoopHead, CheckEmpty, SelectDeliver, SelectShutdown, NothingToSend, ConnectFails, HubInv,
        HubTypeOK
  <2>4. Leaving'
    BY <2>2 DEF Leaving
  <2> QED
    BY <1>0, <2>1, <2>2, <2>3, <2>4, ControlKeepsInv
<1>2. CASE DrainEnds
  <2>1. UNCHANGED <<produced, total, hand, refused, others, rx, dropped, pending, live, stored, late,
                    trimmed, lossy, due, online, shutting>>
    BY <1>2 DEF DrainEnds
  <2>2. /\ pc # "done" /\ shutting \in {"no", "asked", "yes"}
        /\ pc' = IF shutting = "yes" THEN "flush" ELSE "check"
    BY <1>2 DEF DrainEnds, HubInv, HubTypeOK
  <2>3. Leaving'
    <3>1. Len(pending) \in Nat /\ PendingCapacity \in Nat
      BY QueueFacts, HubAssumption DEF HubInv
    <3>2. Len(pending) < PendingCapacity => ItemsOf(rx) = {}
      <4>1. rx = <<>> => ItemsOf(rx) = {}
        BY DEF ItemsOf
      <4> QED
        BY <1>2, <3>1, <4>1 DEF DrainEnds
    <3> QED
      BY <2>1, <2>2, <3>2 DEF Leaving
  <2> QED
    BY <1>0, <2>1, <2>2, <2>3, ControlKeepsInv
<1>3. CASE AskShutdown
  <2>1. /\ UNCHANGED <<produced, total, hand, refused, others, rx, dropped, pending, live, stored,
                       late, trimmed, lossy, online, pc>>
        /\ shutting = "no" /\ shutting' = "asked" /\ due' = [s \in Sessions |-> OfferedUpTo(s)]
    BY <1>3 DEF AskShutdown
  <2>2. pc \notin {"flush", "done"}
    BY <2>1 DEF HubInv, Leaving
  <2>3. Leaving' /\ pc' \in {"top", "drain", "check", "mark", "select", "deliver", "flush", "done"}
    BY <2>1, <2>2 DEF Leaving, HubInv, HubTypeOK
  <2>4. /\ due' \in [Sessions -> 0..MaxEvents] /\ \A s \in Sessions : due'[s] <= produced[s]
        /\ \A f \in Forwarders : hand[f] # 0 => due'[SessionOf[f]] < hand[f]
    BY <2>1, OfferedFacts, HandFacts DEF HubInv
  <2> QED
    BY <2>1, <2>2, <2>3, <2>4, ControlKeepsInv
<1> QED
  BY <1>1, <1>2, <1>3

LEMMA HubInitInv == HubInit => HubInv
<1> SUFFICES ASSUME HubInit PROVE HubInv
  OBVIOUS
<1>1. /\ produced = [s \in Sessions |-> 0] /\ total = 0 /\ others = 0
      /\ hand = [f \in Forwarders |-> 0] /\ refused = {}
      /\ rx = <<>> /\ dropped = [s \in Sessions |-> {}] /\ pending = <<>>
      /\ live \in Announces /\ online = FALSE /\ shutting = "no" /\ pc = "top"
      /\ stored = {} /\ late = <<>>
      /\ trimmed = {} /\ lossy = {} /\ due = [s \in Sessions |-> 0]
  BY DEF HubInit
<1>2. ItemsOf(rx) = {} /\ ItemsOf(pending) = {} /\ ItemsOf(late) = {} /\ Markers = {}
  BY <1>1 DEF ItemsOf, Markers
<1>3. Len(rx) = 0 /\ Len(pending) = 0
  BY <1>1
<1>4. HubTypeOK
  <2>1. rx \in Seq(Command) /\ pending \in Seq(Item) /\ late \in Seq(Item)
    BY <1>1
  <2>3. online \in BOOLEAN
    BY <1>1, Zenon
  <2>2. /\ produced \in [Sessions -> 0..MaxEvents] /\ due \in [Sessions -> 0..MaxEvents]
        /\ dropped \in [Sessions -> SUBSET Numbers] /\ hand \in [Forwarders -> 0..MaxEvents]
    BY <1>1, HubAssumption
  <2> QED
    BY <1>1, <1>3, <2>1, <2>2, <2>3, HubAssumption DEF HubTypeOK
<1>5. Stamped /\ Leaving
  BY <1>1 DEF Stamped, Leaving
<1>6. EventsInOrder /\ HeldBehind /\ CountedApart /\ CleanUnmarked
  BY <1>1, <1>2, <1>3
  DEF EventsInOrder, HeldBehind, Ordered, CountedApart, CountsNone, DropsCountedOnce, CleanUnmarked
<1>7. CleanDelivered
  BY <1>1 DEF CleanDelivered, OneForwarder
<1>8. CursorHonest
  <2>1. \A s : LastSeq(s) = 0
    BY <1>1 DEF LastSeq, StoredOf
  <2> QED
    BY <2>1 DEF CursorHonest
<1>9. GapFree(late)
  BY <1>2 DEF GapFree
<1> QED
  BY <1>4, <1>5, <1>6, <1>7, <1>8, <1>9 DEF HubInv

LEMMA NextKeepsHubInv == HubInv /\ [HubNext]_hubAll => HubInv'
<1> SUFFICES ASSUME HubInv, [HubNext]_hubAll PROVE HubInv'
  OBVIOUS
<1>1. CASE Produce
  <2>1. CASE \E f \in Forwarders : Stamp(f) \/ TryEnqueue(f) \/ RecordDropped(f)
    BY <2>1, StampKeepsInv, TryEnqueueKeepsInv, RecordDroppedKeepsInv
  <2>2. CASE SendOther(EphemeralCmd)
    BY <2>2, CommandFacts, SendOtherKeepsInv
  <2>3. CASE \E S \in Announces : SendOther(AnnounceCmd(S))
    BY <2>3, CommandFacts, SendOtherKeepsInv
  <2> QED
    BY <1>1, <2>1, <2>2, <2>3 DEF Produce
<1>2. CASE \/ LoopHead \/ DrainEnds \/ CheckEmpty \/ SelectDeliver \/ SelectShutdown \/ NothingToSend
           \/ ConnectFails \/ AskShutdown
  BY <1>2, LoopKeepsInv
<1>3. CASE DrainReady \/ SelectReceive
  BY <1>3, ReceiveKeepsInv DEF DrainReady, SelectReceive, Goto
<1>4. CASE MarkDropped
  <2>1. /\ PushAllDropped /\ pc = "mark" /\ rx' = rx
        /\ pc' \in {"drain", "select", "deliver"}
        /\ UNCHANGED <<producerVars, live, online, shutting, hubVars, history>>
    BY <1>4 DEF MarkDropped, Goto
  <2> QED
    BY <2>1, PushAllKeepsInv
<1>5. CASE Flush
  BY <1>5, PushAllKeepsInv DEF Flush, Goto
<1>6. CASE Connect \/ LateArrival
  BY <1>6, ConnectKeepsInv, LateArrivalKeepsInv
<1>7. CASE \E b \in Batches : SendAcked(b) \/ DropFrontBatch(b) \/ SendFails(b)
  BY <1>7, SendAckedKeepsInv, DropFrontKeepsInv, SendFailsKeepsInv
<1>8. CASE UNCHANGED hubAll
  <2>1. UNCHANGED <<produced, total, hand, refused, others, rx, dropped, pending, live, stored, late,
                    trimmed, lossy, due, online, shutting, pc>>
    BY <1>8 DEF hubAll, producerVars, hubVars, history
  <2>2. /\ Leaving' /\ shutting' \in {"no", "asked", "yes"}
        /\ pc' \in {"top", "drain", "check", "mark", "select", "deliver", "flush", "done"}
    BY <2>1 DEF HubInv, HubTypeOK, Leaving
  <2>3. /\ due' \in [Sessions -> 0..MaxEvents] /\ \A s \in Sessions : due'[s] <= produced[s]
        /\ \A f \in Forwarders : hand[f] # 0 => due'[SessionOf[f]] < hand[f]
    BY <2>1 DEF HubInv, HubTypeOK, Stamped
  <2> QED
    BY <2>1, <2>2, <2>3, ControlKeepsInv
<1> QED
  BY <1>1, <1>2, <1>3, <1>4, <1>5, <1>6, <1>7, <1>8 DEF HubNext, Work, Answered, Broken

\* The inductive invariant of the forwarders, the channel, the worker's queue and the
\* hub; it orders the numbers of the sessions with one forwarder only.
THEOREM HubInvariant == HubSpec => []HubInv
BY HubInitInv, NextKeepsHubInv, PTL DEF HubSpec

\* The channel never exceeds its capacity, and queues and hub hold stamped items.
THEOREM HubTypeCorrect == HubSpec => []HubTypeOK
<1>1. HubInv => HubTypeOK
  BY DEF HubInv
<1> QED
  BY <1>1, HubInvariant, PTL

\* No event of a session with one forwarder and without drops is lost by broken connections, lost
\* acknowledgements, late batches, trims, rejected batches of others or the flush.
THEOREM NoSilentLoss == HubSpec => []CleanDelivered
<1>1. HubInv => CleanDelivered
  BY DEF HubInv
<1> QED
  BY <1>1, HubInvariant, PTL

\* The cursor a reconnect resumes from passes no event that the hub does not have,
\* for a session with one forwarder and without drops.
THEOREM CursorsHonest == HubSpec => []CursorHonest
<1>1. HubInv => CursorHonest
  BY DEF HubInv
<1> QED
  BY <1>1, HubInvariant, PTL

\* No dropped event is counted by two markers, or by a marker and a range, however many
\* forwarders a session has.
THEOREM DropsCounted == HubSpec => []DropsCountedOnce
<1>1. HubInv => DropsCountedOnce
  BY DEF HubInv, CountedApart
<1> QED
  BY <1>1, HubInvariant, PTL
=============================================================================
