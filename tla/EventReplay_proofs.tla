------------------------- MODULE EventReplay_proofs -------------------------
(***************************************************************************)
(* Replay is gap-free for every retention, persist interval, crash and     *)
(* reconnect of a session whose events are stamped by one forwarder.       *)
(***************************************************************************)
EXTENDS EventReplay, SeqWatermark_proofs, WellFoundedInduction

Retained == [seq : Nat, id : Nat]

ReplayTypeOK ==
  /\ ring \in Seq(Retained)
  /\ high_seq \in Nat /\ routed \in Nat /\ base \in Nat /\ base <= routed
  /\ attached \in BOOLEAN
  /\ cursor \in Nat
  /\ seen \subseteq Nat

\* The ring holds the last events of the incarnation, without a hole.
RingIsSuffix ==
  /\ Len(ring) = IF routed - base <= Retention THEN routed - base ELSE Retention
  /\ \A i \in 1..Len(ring) : ring[i].id = routed - Len(ring) + i
  /\ \A i \in 1..Len(ring) : ring[i].seq <= high_seq

\* The part that holds with any number of forwarders.
RingInv == SeqInv /\ ReplayTypeOK /\ RingIsSuffix

\* Events reach the ring and the client in the order of their numbers, and a
\* number that is drawn and not routed is above all of them.
InOrder ==
  kept =>
    /\ cursor <= last
    /\ \A i \in 1..Len(ring) : ring[i].seq <= last
    /\ \A i, j \in 1..Len(ring) : i < j => ring[i].seq < ring[j].seq
    /\ \A f \in Forwarders : pc[f] # "idle" =>
         /\ drawn[f] = last
         /\ cursor < last
         /\ \A i \in 1..Len(ring) : ring[i].seq < last

\* What a client that knows the first k events has missed is above its cursor,
\* and once such an event is evicted replay_after answers TooOld.
Misses(k) ==
  /\ \A i \in 1..Len(ring) : ring[i].id > k => ring[i].seq > cursor
  /\ k < routed - Len(ring) =>
       IF ring # <<>> THEN ring[1].seq > cursor + 1 ELSE high_seq > cursor

\* The client knows all events of the incarnation up to some k, and up to the last
\* one while it is attached.
KnowsPrefix ==
  kept => \E k \in base..routed :
            /\ (base + 1)..k \subseteq seen
            /\ attached => k = routed
            /\ Misses(k)

ReplayInv == RingInv /\ InOrder /\ KnowsPrefix

\* Every event of the session is stamped by the same forwarder.
AtMostOneForwarder == \A f, g \in Forwarders : f = g

-----------------------------------------------------------------------------
(* Facts about the operators of the model. *)

\* A set of positions of a sequence has a last one.
LEMMA LastPosition ==
  ASSUME NEW n \in Nat, NEW K \in SUBSET (1..n), K # {}
  PROVE  Max(K) \in K /\ \A k \in K : k <= Max(K)
<1> DEFINE U == {u \in Nat : \A k \in K : k <= u}
<1> DEFINE R == OpToRel(<, Nat)
<1>1. n \in U
  OBVIOUS
<1>2. PICK u \in U : \A y \in U : ~(<<y, u>> \in R)
  <2>1. IsWellFoundedOn(R, Nat)
    BY NatLessThanWellFounded
  <2>2. U \subseteq Nat /\ U # {}
    BY <1>1
  <2> HIDE DEF U, R
  <2> QED
    BY <2>1, <2>2, WFMin
<1>3. \A y \in U : ~(y < u)
  BY <1>2 DEF OpToRel
<1>4. u \in K
  <2>1. SUFFICES ASSUME u \notin K PROVE FALSE
    OBVIOUS
  <2>2. \A k \in K : k \in Nat /\ 1 <= k /\ k <= u /\ k # u
    BY <2>1
  <2>3. u \in Nat /\ u # 0
    <3>1. PICK k \in K : TRUE
      OBVIOUS
    <3> QED
      BY <2>2, <3>1
  <2>4. u - 1 \in U
    BY <2>2, <2>3
  <2> QED
    BY <1>3, <2>3, <2>4
<1>5. \E m \in K : \A k \in K : m >= k
  BY <1>4
<1> QED
  BY <1>5 DEF Max

LEMMA RetainedFields ==
  ASSUME ReplayTypeOK
  PROVE  /\ Len(ring) \in Nat
         /\ \A i \in 1..Len(ring) : ring[i].seq \in Nat /\ ring[i].id \in Nat
<1>1. ring \in Seq(Retained)
  BY DEF ReplayTypeOK
<1>2. Len(ring) \in Nat /\ \A i \in 1..Len(ring) : ring[i] \in Retained
  BY <1>1
<1> QED
  BY <1>2 DEF Retained

\* What append leaves: the ring shifted by the evicted event, and the new event.
LEMMA AppendedShape ==
  ASSUME ReplayTypeOK, NEW e \in Retained, Len(ring) <= Retention
  PROVE  /\ Appended(e) \in Seq(Retained)
         /\ Len(Appended(e)) = IF Len(ring) < Retention THEN Len(ring) + 1 ELSE Retention
         /\ \A i \in 1..Len(Appended(e)) :
              LET j == i + Len(ring) + 1 - Len(Appended(e)) IN
              Appended(e)[i] = IF j <= Len(ring) THEN ring[j] ELSE e
<1> DEFINE r == Append(ring, e)
<1>1. /\ r \in Seq(Retained) /\ Len(ring) \in Nat /\ Len(r) = Len(ring) + 1
      /\ \A i \in 1..Len(r) : r[i] = IF i <= Len(ring) THEN ring[i] ELSE e
  BY DEF ReplayTypeOK
<1>2. CASE Retention = 0
  <2>1. Appended(e) = <<>>
    BY <1>2 DEF Appended
  <2> QED
    BY <1>1, <1>2, <2>1
<1>3. CASE Retention # 0 /\ Len(ring) < Retention
  <2>1. Appended(e) = r
    BY <1>1, <1>3, SeqAssumption DEF Appended
  <2> QED
    BY <1>1, <1>3, <2>1
<1>4. CASE Retention # 0 /\ Len(ring) = Retention
  <2>1. Appended(e) = Tail(r)
    BY <1>1, <1>4, SeqAssumption DEF Appended
  <2>2. r # <<>>
    BY <1>1
  <2> HIDE DEF r
  <2>3. /\ Tail(r) \in Seq(Retained) /\ Len(Tail(r)) = Len(r) - 1
        /\ \A i \in 1..Len(Tail(r)) : Tail(r)[i] = r[i + 1]
    BY <1>1, <2>2
  <2> QED
    BY <1>1, <1>4, <2>1, <2>3, SeqAssumption
<1> QED
  BY <1>1, <1>2, <1>3, <1>4, SeqAssumption

\* A step of the replay is a step of the allocator and the watermark, or leaves
\* them alone.
LEMMA ReplayStepsSeq ==
  ASSUME ReplayNext
  PROVE  SeqNext \/ UNCHANGED seqVars
BY DEF ReplayNext, SeqNext, RouteEvent, Attach, Disconnect, Subscribe, CloseRouting,
       ServerCrash

LEMMA ReplayKeepsSeqInv ==
  ASSUME SeqInv, [ReplayNext]_replayVars
  PROVE  SeqInv'
BY ReplayStepsSeq, NextKeepsSeqInv DEF replayVars

-----------------------------------------------------------------------------
(* The ring. *)

LEMMA RingInitInv == ReplayInit => RingInv
<1> SUFFICES ASSUME ReplayInit PROVE RingInv
  OBVIOUS
<1>1. SeqInv
  BY SeqInitInv DEF ReplayInit
<1>2. attached \in BOOLEAN
  BY DEF ReplayInit
<1>3. ring = <<>> /\ ring \in Seq(Retained) /\ Len(ring) = 0
  BY DEF ReplayInit
<1>4. ReplayTypeOK
  BY <1>2, <1>3 DEF ReplayInit, ReplayTypeOK
<1>5. RingIsSuffix
  BY <1>3, SeqAssumption DEF ReplayInit, RingIsSuffix
<1> QED
  BY <1>1, <1>4, <1>5 DEF RingInv

LEMMA DrawnIsNat ==
  ASSUME SeqInv, NEW f \in Forwarders
  PROVE  drawn[f] \in Nat
BY DEF SeqInv, SeqTypeOK

\* The ring after an event with number n was routed.
LEMMA RoutedRing ==
  ASSUME RingInv, NEW f \in Forwarders, RouteEvent(f)
  PROVE  (ReplayTypeOK /\ RingIsSuffix)'
<1> DEFINE e == [seq |-> drawn[f], id |-> routed + 1]
<1>1. e \in Retained /\ drawn[f] \in Nat
  BY DrawnIsNat DEF RingInv, ReplayTypeOK, Retained
<1>2. Len(ring) <= Retention /\ Len(ring) \in Nat
  BY SeqAssumption DEF RingInv, ReplayTypeOK, RingIsSuffix
<1>3. ring' = Appended(e) /\ routed' = routed + 1 /\ base' = base
  BY DEF RouteEvent
<1>4. high_seq' \in Nat /\ high_seq' >= high_seq /\ high_seq' >= drawn[f]
  BY <1>1 DEF RouteEvent, RingInv, ReplayTypeOK, Larger
<1> DEFINE j(i) == i + Len(ring) + 1 - Len(ring')
<1>5. /\ ring' \in Seq(Retained)
      /\ Len(ring') = IF Len(ring) < Retention THEN Len(ring) + 1 ELSE Retention
      /\ \A i \in 1..Len(ring') : ring'[i] = IF j(i) <= Len(ring) THEN ring[j(i)] ELSE e
  BY <1>1, <1>2, <1>3, AppendedShape DEF RingInv
<1>6. ReplayTypeOK'
  <2>1. attached' \in BOOLEAN
    BY DEF RouteEvent, RingInv, ReplayTypeOK
  <2>2. cursor' \in Nat /\ seen' \subseteq Nat
    <3>1. /\ cursor' = drawn[f] \/ cursor' = cursor
          /\ seen' = seen \cup {routed + 1} \/ seen' = seen
      BY DEF RouteEvent
    <3>2. cursor \in Nat /\ seen \subseteq Nat /\ routed + 1 \in Nat
      BY DEF RingInv, ReplayTypeOK
    <3> QED
      BY <1>1, <3>1, <3>2
  <2> QED
    BY <1>3, <1>4, <1>5, <2>1, <2>2 DEF RingInv, ReplayTypeOK
<1>7. Len(ring') = IF routed' - base' <= Retention THEN routed' - base' ELSE Retention
  BY <1>2, <1>3, <1>5, SeqAssumption DEF RingInv, ReplayTypeOK, RingIsSuffix
<1>8. ASSUME NEW i \in 1..Len(ring')
      PROVE  ring'[i].id = routed' - Len(ring') + i /\ ring'[i].seq <= high_seq'
  <2>1. Len(ring') \in Nat /\ i \in Nat /\ 1 <= i /\ i <= Len(ring')
    BY <1>2, <1>5, SeqAssumption
  <2>2. CASE j(i) <= Len(ring)
    <3>1. j(i) \in 1..Len(ring)
      BY <1>2, <1>5, <2>1, <2>2, SeqAssumption
    <3>2. ring'[i] = ring[j(i)]
      BY <1>5, <2>2
    <3>3. ring[j(i)].id = routed - Len(ring) + j(i) /\ ring[j(i)].seq <= high_seq
      BY <3>1 DEF RingInv, RingIsSuffix
    <3>4. ring[j(i)].seq \in Nat
      BY <3>1, RetainedFields DEF RingInv
    <3> QED
      BY <1>2, <1>3, <1>4, <2>1, <3>2, <3>3, <3>4 DEF RingInv, ReplayTypeOK
  <2>3. CASE ~(j(i) <= Len(ring))
    <3>1. i = Len(ring')
      BY <1>2, <2>1, <2>3
    <3>2. ring'[i] = e
      BY <1>5, <2>3
    <3> QED
      BY <1>1, <1>3, <1>4, <2>1, <3>1, <3>2 DEF RingInv, ReplayTypeOK
  <2> QED
    BY <2>2, <2>3
<1> QED
  BY <1>6, <1>7, <1>8 DEF RingIsSuffix

LEMMA DroppedRing ==
  ASSUME RingInv, DropRing, attached' = FALSE, UNCHANGED <<cursor, seen>>
  PROVE  (ReplayTypeOK /\ RingIsSuffix)'
<1>1. attached' \in BOOLEAN
  OBVIOUS
<1>2. ring' = <<>> /\ ring' \in Seq(Retained) /\ Len(ring') = 0
  BY DEF DropRing
<1>3. ReplayTypeOK'
  BY <1>1, <1>2 DEF RingInv, DropRing, ReplayTypeOK
<1>4. RingIsSuffix'
  BY <1>2, SeqAssumption DEF RingInv, DropRing, ReplayTypeOK, RingIsSuffix
<1> QED
  BY <1>3, <1>4

LEMMA SeededRing ==
  ASSUME RingInv, NEW w \in Nat, SeedRing(w), UNCHANGED clientVars
  PROVE  (ReplayTypeOK /\ RingIsSuffix)'
<1>1. ring' = ring /\ routed' = routed /\ base' = base
  BY DEF SeedRing
<1>2. high_seq' \in Nat /\ high_seq' >= high_seq
  BY DEF SeedRing, RingInv, ReplayTypeOK, Larger
<1>3. ReplayTypeOK'
  BY <1>1, <1>2 DEF clientVars, RingInv, ReplayTypeOK
<1>4. \A i \in 1..Len(ring) : ring[i].seq \in Nat
  BY RetainedFields DEF RingInv
<1>5. \A i \in 1..Len(ring) : ring[i].seq <= high_seq'
  BY <1>2, <1>4 DEF RingInv, ReplayTypeOK, RingIsSuffix
<1>6. RingIsSuffix'
  BY <1>1, <1>5 DEF RingInv, RingIsSuffix
<1> QED
  BY <1>3, <1>6

\* The position of the last event a subscriber is sent.
LEMMA LastReplayed ==
  ASSUME RingInv, Available(cursor) # {}
  PROVE  LET m == Max(Available(cursor)) IN
         /\ m \in 1..Len(ring)
         /\ ring[m].seq \in Nat /\ ring[m].seq > cursor
         /\ \A i \in Available(cursor) : i <= m
<1>1. Len(ring) \in Nat /\ Available(cursor) \in SUBSET (1..Len(ring))
  BY DEF RingInv, ReplayTypeOK, Available
<1>2. /\ Max(Available(cursor)) \in Available(cursor)
      /\ \A i \in Available(cursor) : i <= Max(Available(cursor))
  BY <1>1, LastPosition
<1> QED
  BY <1>1, <1>2, RetainedFields DEF Available, RingInv

LEMMA ClientStepKeepsRing ==
  ASSUME RingInv, Attach \/ Disconnect \/ Subscribe
  PROVE  (ReplayTypeOK /\ RingIsSuffix)'
<1>1. UNCHANGED ringVars
  BY DEF Attach, Disconnect, Subscribe
<1>2. RingIsSuffix'
  BY <1>1 DEF ringVars, RingInv, RingIsSuffix
<1>3. ASSUME Subscribe PROVE cursor' \in Nat /\ seen' \subseteq Nat
  <2>1. \A i \in Available(cursor) : ring[i].id \in Nat
    BY RetainedFields DEF Available, RingInv
  <2> QED
    BY <1>3, <2>1, LastReplayed DEF Subscribe, Ids, RingInv, ReplayTypeOK
<1>4. ReplayTypeOK'
  <2>1. attached' \in BOOLEAN
    BY DEF Attach, Disconnect, Subscribe
  <2>2. cursor' \in Nat /\ seen' \subseteq Nat
    <3>1. CASE Attach
      <4>1. cursor' = cursor /\ seen' = 1..routed
        BY <3>1 DEF Attach
      <4> QED
        BY <4>1 DEF RingInv, ReplayTypeOK
    <3>2. CASE Disconnect
      BY <3>2 DEF RingInv, ReplayTypeOK, Disconnect
    <3> QED
      BY <1>3, <3>1, <3>2
  <2> QED
    BY <1>1, <2>1, <2>2 DEF ringVars, RingInv, ReplayTypeOK
<1> QED
  BY <1>2, <1>4

LEMMA NextKeepsRingInv == RingInv /\ [ReplayNext]_replayVars => RingInv'
<1> SUFFICES ASSUME RingInv, [ReplayNext]_replayVars PROVE RingInv'
  OBVIOUS
<1>1. SeqInv'
  BY ReplayKeepsSeqInv DEF RingInv
<1>2. CASE \E f \in Forwarders : RouteEvent(f)
  BY <1>1, <1>2, RoutedRing DEF RingInv
<1>3. CASE \/ \E w \in loads : Restore(w) /\ SeedRing(w) /\ UNCHANGED clientVars
           \/ Admit /\ SeedRing(admission) /\ UNCHANGED clientVars
  BY <1>1, <1>3, SeededRing DEF RingInv, SeqInv, SeqTypeOK
<1>4. CASE Attach \/ Disconnect \/ Subscribe
  BY <1>1, <1>4, ClientStepKeepsRing DEF RingInv
<1>5. CASE CloseRouting \/ ServerCrash
  BY <1>1, <1>5, DroppedRing DEF CloseRouting, ServerCrash, RingInv
<1>6. CASE UNCHANGED <<ringVars, clientVars>>
  BY <1>1, <1>6 DEF ringVars, clientVars, RingInv, ReplayTypeOK, RingIsSuffix
<1> QED
  BY <1>2, <1>3, <1>4, <1>5, <1>6 DEF ReplayNext, replayVars

\* The inductive invariant of the ring, for any number of forwarders.
THEOREM RingInvariant == ReplaySpec => []RingInv
BY RingInitInv, NextKeepsRingInv, PTL DEF ReplaySpec

\* The retention ring is bounded, belongs to the current incarnation and knows the
\* highest number it holds, with any number of forwarders.
THEOREM RingCorrect == ReplaySpec => []RingOK
<1>1. RingInv => RingOK
  BY SeqAssumption DEF RingInv, ReplayTypeOK, RingIsSuffix, RingOK
<1> QED
  BY <1>1, RingInvariant, PTL

-----------------------------------------------------------------------------
(* Order and replay, with one forwarder. *)

LEMMA ReplayInitInv == ReplayInit => ReplayInv
<1> SUFFICES ASSUME ReplayInit PROVE ReplayInv
  OBVIOUS
<1>1. RingInv
  BY RingInitInv
<1>2. InOrder
  BY DEF ReplayInit, SeqInit, InOrder
<1>3. KnowsPrefix
  BY DEF ReplayInit, KnowsPrefix, Misses
<1> QED
  BY <1>1, <1>2, <1>3 DEF ReplayInv

\* Steps that leave the events and the client alone, and may seed the ring.
LEMMA QuietKeepsInv ==
  ASSUME ReplayInv, UNCHANGED <<ring, routed, base, clientVars, last>>,
         high_seq' \in Nat, high_seq' >= high_seq, kept' => kept,
         \A f \in Forwarders : pc'[f] # "idle" => pc[f] # "idle" /\ drawn'[f] = drawn[f]
  PROVE  InOrder' /\ KnowsPrefix'
<1>1. InOrder'
  BY DEF ReplayInv, InOrder, clientVars
<1>2. ASSUME NEW k \in base..routed, Misses(k) PROVE Misses(k)'
  BY <1>2 DEF Misses, clientVars, ReplayInv, RingInv, ReplayTypeOK
<1>3. KnowsPrefix'
  BY <1>2 DEF ReplayInv, KnowsPrefix, clientVars
<1> QED
  BY <1>1, <1>3

LEMMA DrawKeepsOrder ==
  ASSUME AtMostOneForwarder, ReplayInv, NEW f \in Forwarders, Draw(f),
         UNCHANGED <<ringVars, clientVars>>
  PROVE  InOrder' /\ KnowsPrefix'
<1>1. KnowsPrefix'
  BY DEF ReplayInv, KnowsPrefix, Misses, Draw, ringVars, clientVars
<1>2. ASSUME kept'
      PROVE  /\ cursor' <= last'
             /\ \A i \in 1..Len(ring) : ring[i].seq < last'
             /\ cursor < last'
             /\ \A g \in Forwarders : drawn'[g] = last'
  <2>1. next > last /\ last' = next /\ kept /\ next \in Nat /\ last \in Nat
    BY <1>2, DrawsAbove DEF Draw, ReplayInv, RingInv, SeqInv, SeqTypeOK
  <2>2. \A g \in Forwarders : drawn'[g] = last'
    BY <2>1 DEF Draw, AtMostOneForwarder, ReplayInv, RingInv, SeqInv, SeqTypeOK
  <2>3. /\ cursor <= last /\ cursor' = cursor /\ cursor \in Nat
        /\ \A i \in 1..Len(ring) : ring[i].seq \in Nat /\ ring[i].seq <= last
    BY <2>1, RetainedFields DEF ReplayInv, RingInv, ReplayTypeOK, InOrder, clientVars
  <2> QED
    BY <2>1, <2>2, <2>3
<1>3. ring' = ring /\ cursor' = cursor /\ (kept' => kept)
  BY DEF Draw, ringVars, clientVars
<1>4. ASSUME kept'
      PROVE  \A i \in 1..Len(ring) : ring[i].seq <= last'
  <2>1. last' \in Nat
    BY DEF Draw, ReplayInv, RingInv, SeqInv, SeqTypeOK
  <2> QED
    BY <1>2, <1>4, <2>1, RetainedFields DEF ReplayInv, RingInv
<1>5. InOrder'
  BY <1>2, <1>3, <1>4 DEF ReplayInv, InOrder
<1> QED
  BY <1>1, <1>5

LEMMA RouteKeepsOrder ==
  ASSUME AtMostOneForwarder, ReplayInv, NEW f \in Forwarders, RouteEvent(f)
  PROVE  InOrder' /\ KnowsPrefix'
<1>1. CASE ~kept
  BY <1>1 DEF RouteEvent, Route, InOrder, KnowsPrefix
<1>2. CASE kept
  <2> DEFINE e == [seq |-> drawn[f], id |-> routed + 1]
             j(i) == i + Len(ring) + 1 - Len(ring')
  <2>1. /\ last \in Nat /\ drawn[f] = last /\ cursor < last /\ cursor \in Nat
        /\ \A i \in 1..Len(ring) : ring[i].seq < last
    BY <1>2 DEF RouteEvent, Route, ReplayInv, InOrder, RingInv, SeqInv, SeqTypeOK,
                ReplayTypeOK
  <2>2. /\ Len(ring) \in Nat /\ Len(ring) <= Retention /\ Retention \in Nat
        /\ \A i \in 1..Len(ring) : ring[i].seq \in Nat /\ ring[i].id \in Nat
        /\ Len(ring) = IF routed - base <= Retention THEN routed - base ELSE Retention
        /\ \A i \in 1..Len(ring) : ring[i].id = routed - Len(ring) + i
        /\ base \in Nat /\ routed \in Nat /\ high_seq \in Nat /\ base <= routed
    BY RetainedFields, SeqAssumption DEF ReplayInv, RingInv, ReplayTypeOK, RingIsSuffix
  <2>3. e \in Retained
    BY <2>1, <2>2 DEF Retained
  <2>4. /\ ring' = Appended(e) /\ routed' = routed + 1 /\ base' = base
        /\ high_seq' = Larger(high_seq, last) /\ last' = last /\ kept' = kept
    BY <2>1 DEF RouteEvent, Route
  <2>5. /\ ring' \in Seq(Retained)
        /\ Len(ring') = IF Len(ring) < Retention THEN Len(ring) + 1 ELSE Retention
        /\ \A i \in 1..Len(ring') : ring'[i] = IF j(i) <= Len(ring) THEN ring[j(i)] ELSE e
    BY <2>2, <2>3, <2>4, AppendedShape DEF ReplayInv, RingInv
  <2> HIDE DEF e
  <2>6. e.seq = last /\ e.id = routed + 1
    BY <2>1 DEF e
  <2>7. ASSUME NEW i \in 1..Len(ring')
        PROVE  \/ /\ j(i) \in 1..Len(ring) /\ ring'[i] = ring[j(i)]
               \/ i = Len(ring') /\ ring'[i] = e
    <3>1. Len(ring') \in Nat /\ i \in Nat /\ 1 <= i /\ i <= Len(ring')
      BY <2>2, <2>5
    <3>2. CASE j(i) <= Len(ring)
      <4>1. ring'[i] = ring[j(i)]
        BY <2>5, <3>2
      <4>2. j(i) \in 1..Len(ring)
        BY <2>2, <2>5, <3>1, <3>2
      <4> QED
        BY <4>1, <4>2
    <3>3. CASE ~(j(i) <= Len(ring))
      <4>1. ring'[i] = e
        BY <2>5, <3>3
      <4>2. i = Len(ring')
        BY <2>2, <3>1, <3>3
      <4> QED
        BY <4>1, <4>2
    <3> QED
      BY <3>2, <3>3
  <2>8. \A i \in 1..Len(ring') : ring'[i].seq <= last'
    <3> SUFFICES ASSUME NEW i \in 1..Len(ring') PROVE ring'[i].seq <= last'
      OBVIOUS
    <3>1. CASE j(i) \in 1..Len(ring) /\ ring'[i] = ring[j(i)]
      <4>1. ring[j(i)].seq < last /\ ring[j(i)].seq \in Nat
        BY <2>1, <2>2, <3>1
      <4> QED
        BY <2>1, <2>4, <3>1, <4>1
    <3>2. CASE ring'[i] = e
      BY <2>1, <2>4, <2>6, <3>2
    <3> QED
      BY <2>7, <3>1, <3>2
  <2>9. \A i, h \in 1..Len(ring') : i < h => ring'[i].seq < ring'[h].seq
    <3> SUFFICES ASSUME NEW i \in 1..Len(ring'), NEW h \in 1..Len(ring'), i < h
                 PROVE  ring'[i].seq < ring'[h].seq
      OBVIOUS
    <3>1. j(i) \in 1..Len(ring) /\ ring'[i] = ring[j(i)] /\ j(i) < j(h)
      BY <2>2, <2>5, <2>7
    <3>2. CASE j(h) \in 1..Len(ring) /\ ring'[h] = ring[j(h)]
      BY <1>2, <3>1, <3>2 DEF ReplayInv, InOrder
    <3>3. CASE ring'[h] = e
      BY <2>1, <2>6, <3>1, <3>3
    <3> QED
      BY <2>7, <3>2, <3>3
  <2>10. \A g \in Forwarders : pc'[g] = "idle"
    BY DEF RouteEvent, Route, AtMostOneForwarder, ReplayInv, RingInv, SeqInv, SeqTypeOK
  <2>11. cursor' <= last'
    <3>1. cursor' = last \/ cursor' = cursor
      BY <2>1 DEF RouteEvent
    <3> QED
      BY <2>1, <2>4, <3>1
  <2>12. InOrder'
    BY <2>8, <2>9, <2>10, <2>11 DEF InOrder
  <2>13. PICK k \in base..routed :
           /\ (base + 1)..k \subseteq seen
           /\ attached => k = routed
           /\ Misses(k)
    BY <1>2 DEF ReplayInv, KnowsPrefix
  <2>14. CASE attached /\ cursor' = drawn[f] /\ seen' = seen \cup {routed + 1}
    <3>1. routed' \in base'..routed'
      BY <2>2, <2>4
    <3>2. (base' + 1)..routed' \subseteq seen'
      BY <2>2, <2>4, <2>13, <2>14
    <3>3. \A i \in 1..Len(ring') : ~(ring'[i].id > routed')
      <4> SUFFICES ASSUME NEW i \in 1..Len(ring') PROVE ~(ring'[i].id > routed')
        OBVIOUS
      <4>1. CASE j(i) \in 1..Len(ring) /\ ring'[i] = ring[j(i)]
        <5>1. \A h \in 1..Len(ring) : ring[h].id \in Nat /\ ring[h].id <= routed
          BY <2>2
        <5> HIDE DEF j
        <5> QED
          BY <2>2, <2>4, <4>1, <5>1
      <4>2. CASE ring'[i] = e
        BY <2>2, <2>4, <2>6, <4>2
      <4> QED
        BY <2>7, <4>1, <4>2
    <3>4. ~(routed' < routed' - Len(ring'))
      BY <2>2, <2>4, <2>5
    <3> QED
      BY <2>12, <3>1, <3>2, <3>3, <3>4 DEF KnowsPrefix, Misses
  <2>15. CASE attached' = FALSE /\ cursor' = cursor /\ seen' = seen
    <3>1. k \in base'..routed' /\ (base' + 1)..k \subseteq seen'
      BY <2>2, <2>4, <2>13, <2>15
    <3>2. \A i \in 1..Len(ring') : ring'[i].id > k => ring'[i].seq > cursor'
      BY <2>1, <2>2, <2>6, <2>7, <2>13, <2>15 DEF Misses
    <3>3. ASSUME k < routed' - Len(ring')
          PROVE  IF ring' # <<>> THEN ring'[1].seq > cursor' + 1 ELSE high_seq' > cursor'
      <4>1. CASE ring' = <<>>
        BY <2>1, <2>2, <2>4, <2>15, <4>1 DEF Larger
      <4>2. CASE ring' # <<>>
        <5>1. Len(ring') # 0 /\ 1 \in 1..Len(ring')
          BY <2>2, <2>5, <4>2
        <5>2. Len(ring) # 0 /\ ring # <<>> /\ Retention # 0
          BY <2>2, <2>4, <2>5, <3>3, <5>1
        <5>3. CASE k < routed - Len(ring)
          <6>1. ring[1].seq > cursor + 1
            BY <2>13, <5>2, <5>3 DEF Misses
          <6>2. ring'[1].seq >= ring[1].seq
            <7>1. CASE ring'[1] = e
              BY <2>1, <2>2, <2>6, <5>2, <7>1
            <7>2. CASE j(1) \in 1..Len(ring) /\ ring'[1] = ring[j(1)]
              <8>1. j(1) = 1 \/ j(1) > 1
                BY <7>2
              <8> QED
                BY <1>2, <2>2, <5>2, <7>2, <8>1 DEF ReplayInv, InOrder
            <7> QED
              BY <2>7, <5>1, <7>1, <7>2
          <6>3. ring'[1].seq \in Nat
            BY <2>1, <2>2, <2>6, <2>7, <5>1
          <6> QED
            BY <2>1, <2>2, <2>15, <4>2, <5>2, <6>1, <6>2, <6>3
        <5>4. CASE ~(k < routed - Len(ring))
          <6>1. k = routed - Len(ring) /\ Len(ring) = Retention /\ Len(ring') = Retention
            BY <2>2, <2>4, <2>5, <3>3, <5>4
          <6>2. ring[1].id > k /\ ring[1].seq > cursor
            BY <2>2, <2>13, <5>2, <6>1 DEF Misses
          <6>3. ring'[1].seq > ring[1].seq
            <7>1. CASE ring'[1] = e
              BY <2>1, <2>2, <2>6, <5>2, <7>1
            <7>2. CASE j(1) \in 1..Len(ring) /\ ring'[1] = ring[j(1)]
              <8>1. j(1) > 1 /\ 1 \in 1..Len(ring)
                BY <2>2, <5>2, <6>1, <7>2
              <8> QED
                BY <1>2, <7>2, <8>1 DEF ReplayInv, InOrder
            <7> QED
              BY <2>7, <5>1, <7>1, <7>2
          <6>4. ring'[1].seq \in Nat
            BY <2>1, <2>2, <2>6, <2>7, <5>1
          <6> QED
            BY <2>1, <2>2, <2>15, <4>2, <5>2, <6>2, <6>3, <6>4
        <5> QED
          BY <5>3, <5>4
      <4> QED
        BY <4>1, <4>2
    <3> QED
      BY <2>12, <2>15, <3>1, <3>2, <3>3 DEF KnowsPrefix, Misses
  <2> QED
    BY <2>14, <2>15 DEF RouteEvent
<1> QED
  BY <1>1, <1>2

LEMMA DropKeepsOrder ==
  ASSUME ReplayInv, DropRing, UNCHANGED <<cursor, seen, last>>, attached' = FALSE, kept' => kept,
         \A f \in Forwarders : pc'[f] # "idle" => pc[f] # "idle" /\ drawn'[f] = drawn[f]
  PROVE  InOrder' /\ KnowsPrefix'
<1>1. ring' = <<>> /\ Len(ring') = 0 /\ base' = routed /\ routed' = routed /\ routed \in Nat
  BY DEF DropRing, ReplayInv, RingInv, ReplayTypeOK
<1>2. InOrder'
  BY <1>1 DEF ReplayInv, InOrder
<1>3. Misses(routed)'
  BY <1>1 DEF Misses
<1>4. KnowsPrefix'
  BY <1>1, <1>3 DEF KnowsPrefix
<1> QED
  BY <1>2, <1>4

LEMMA ClientKeepsOrder ==
  ASSUME ReplayInv, Attach \/ Disconnect
  PROVE  InOrder' /\ KnowsPrefix'
<1>1. UNCHANGED <<ringVars, cursor, last, kept, pc, drawn>>
  BY DEF Attach, Disconnect, seqVars
<1>2. InOrder'
  BY <1>1 DEF ReplayInv, InOrder, ringVars
<1>3. CASE Disconnect
  <2>1. UNCHANGED <<ring, high_seq, routed, base, cursor, seen, kept>> /\ attached'= FALSE
    BY <1>1, <1>3 DEF Disconnect, ringVars
  <2>2. \A k : Misses(k)' <=> Misses(k)
    BY <2>1 DEF Misses
  <2>3. KnowsPrefix'
    BY <2>1, <2>2 DEF ReplayInv, KnowsPrefix
  <2> QED
    BY <1>2, <2>3
<1>4. CASE Attach
  <2>1. /\ base \in Nat /\ routed \in Nat /\ base <= routed
        /\ Len(ring) \in Nat
        /\ \A i \in 1..Len(ring) : ring[i].id \in Nat /\ ring[i].id = routed - Len(ring) + i
    BY RetainedFields DEF ReplayInv, RingInv, ReplayTypeOK, RingIsSuffix
  <2>2. Misses(routed)'
    BY <1>1, <2>1 DEF Misses, ringVars
  <2>3. routed' \in base'..routed' /\ (base' + 1)..routed' \subseteq seen'
    BY <1>1, <1>4, <2>1 DEF Attach, ringVars
  <2> QED
    BY <1>1, <1>2, <2>2, <2>3 DEF KnowsPrefix, ringVars
<1> QED
  BY <1>2, <1>3, <1>4

LEMMA SubscribeKeepsOrder ==
  ASSUME ReplayInv, Subscribe
  PROVE  InOrder' /\ KnowsPrefix'
<1>1. UNCHANGED <<ringVars, last, kept, pc, drawn>>
  BY DEF Subscribe, seqVars
<1>2. CASE ~kept
  BY <1>1, <1>2 DEF InOrder, KnowsPrefix
<1>3. CASE kept
  <2>1. /\ base \in Nat /\ routed \in Nat /\ base <= routed /\ cursor \in Nat /\ last \in Nat
        /\ Len(ring) \in Nat /\ high_seq \in Nat
        /\ \A i \in 1..Len(ring) : ring[i].id \in Nat /\ ring[i].seq \in Nat
        /\ \A i \in 1..Len(ring) : ring[i].id = routed - Len(ring) + i
        /\ Len(ring) <= routed - base
    BY RetainedFields, SeqAssumption
    DEF ReplayInv, RingInv, ReplayTypeOK, RingIsSuffix, SeqInv, SeqTypeOK
  <2>2. PICK k \in base..routed : (base + 1)..k \subseteq seen /\ Misses(k)
    BY <1>3 DEF ReplayInv, KnowsPrefix
  <2>3. ~(k < routed - Len(ring))
    <3>1. SUFFICES ASSUME k < routed - Len(ring) PROVE FALSE
      OBVIOUS
    <3>2. IF ring # <<>> THEN ring[1].seq > cursor + 1 ELSE high_seq > cursor
      BY <2>2, <3>1 DEF Misses
    <3>3. IF ring # <<>> THEN ~(cursor < ring[1].seq - 1)
          ELSE ~(high_seq # 0 /\ cursor < high_seq)
      BY DEF Subscribe, TooOld
    <3>4. ring # <<>> => 1 \in 1..Len(ring)
      BY <2>1
    <3> QED
      BY <2>1, <3>2, <3>3, <3>4
  <2>4. (base + 1)..routed \subseteq seen'
    <3> SUFFICES ASSUME NEW n \in (base + 1)..routed PROVE n \in seen'
      OBVIOUS
    <3>1. seen' = seen \cup Ids(Available(cursor))
      BY DEF Subscribe
    <3>2. CASE n <= k
      BY <2>1, <2>2, <3>1, <3>2
    <3>3. CASE n > k
      <4> DEFINE i == n - (routed - Len(ring))
      <4>1. i \in 1..Len(ring)
        BY <2>1, <2>3, <3>3
      <4>2. ring[i].id = n
        BY <2>1, <4>1
      <4>3. ring[i].seq > cursor
        BY <2>2, <3>3, <4>1, <4>2 DEF Misses
      <4> HIDE DEF i
      <4> QED
        BY <3>1, <4>1, <4>2, <4>3 DEF Ids, Available
    <3> QED
      BY <2>1, <3>2, <3>3
  <2>5. \A i \in 1..Len(ring) : ~(ring[i].id > routed)
    BY <2>1
  <2>6. KnowsPrefix'
    <3>1. Misses(routed)'
      BY <1>1, <2>1, <2>5 DEF Misses, ringVars
    <3> QED
      BY <1>1, <2>1, <2>4, <3>1 DEF KnowsPrefix, ringVars
  <2>7. /\ cursor' \in Nat /\ cursor' <= last
        /\ cursor' = cursor \/ \E i \in 1..Len(ring) : cursor' = ring[i].seq
    <3>1. cursor' = IF Available(cursor) = {} THEN cursor
                    ELSE ring[Max(Available(cursor))].seq
      BY DEF Subscribe
    <3> QED
      BY <1>3, <2>1, <3>1, LastReplayed DEF ReplayInv, InOrder
  <2>8. InOrder'
    BY <1>1, <1>3, <2>7 DEF ReplayInv, InOrder, ringVars
  <2> QED
    BY <2>6, <2>8
<1> QED
  BY <1>2, <1>3

LEMMA NextKeepsReplayInv ==
  ASSUME AtMostOneForwarder, ReplayInv, [ReplayNext]_replayVars
  PROVE  ReplayInv'
<1>1. RingInv'
  BY NextKeepsRingInv DEF ReplayInv
<1>2. CASE \E f \in Forwarders : RouteEvent(f)
  BY <1>1, <1>2, RouteKeepsOrder DEF ReplayInv
<1>3. CASE \E f \in Forwarders : Draw(f) /\ UNCHANGED <<ringVars, clientVars>>
  BY <1>1, <1>3, DrawKeepsOrder DEF ReplayInv
<1>4. CASE Attach \/ Disconnect \/ Subscribe
  BY <1>1, <1>4, ClientKeepsOrder, SubscribeKeepsOrder DEF ReplayInv
<1>5. CASE CloseRouting \/ ServerCrash
  <2>1. \A f \in Forwarders : pc'[f] # "idle" => pc[f] # "idle" /\ drawn'[f] = drawn[f]
    BY <1>5 DEF CloseRouting, ServerCrash, EndClose, Crash
  <2>2. DropRing /\ UNCHANGED <<cursor, seen, last>> /\ attached' = FALSE
    BY <1>5 DEF CloseRouting, ServerCrash, EndClose, Crash
  <2>3. kept' => kept
    BY <1>5, Zenon DEF CloseRouting, ServerCrash, EndClose, Crash
  <2> QED
    BY <1>1, <2>1, <2>2, <2>3, DropKeepsOrder DEF ReplayInv
<1>6. CASE \/ \E w \in loads : Restore(w) /\ SeedRing(w) /\ UNCHANGED clientVars
           \/ Admit /\ SeedRing(admission) /\ UNCHANGED clientVars
  <2>1. PICK w \in Nat : SeedRing(w)
    BY <1>6 DEF ReplayInv, RingInv, SeqInv, SeqTypeOK
  <2>2. high_seq' \in Nat /\ high_seq' >= high_seq
    BY <2>1 DEF SeedRing, Larger, ReplayInv, RingInv, ReplayTypeOK
  <2>3. UNCHANGED <<ring, routed, base, clientVars, last, kept, pc, drawn>>
    BY <1>6 DEF SeedRing, Restore, Admit
  <2> QED
    BY <1>1, <2>2, <2>3, QuietKeepsInv DEF ReplayInv
<1>7. CASE /\ \/ \E f \in Forwarders : CallHook(f)
              \/ \E q \in writes : WriteEnds(q)
              \/ CreateTranscript \/ BeginClose \/ AnchorEnds \/ ReadTranscript
              \/ ReadForAdmission
           /\ UNCHANGED <<ringVars, clientVars>>
  <2>1. UNCHANGED <<ringVars, clientVars, last, kept, drawn>>
    BY <1>7 DEF CallHook, WriteEnds, CreateTranscript, BeginClose, AnchorEnds, ReadTranscript,
                ReadForAdmission
  <2>2. \A f \in Forwarders : pc'[f] # "idle" => pc[f] # "idle"
    BY <1>7 DEF CallHook, WriteEnds, CreateTranscript, BeginClose, AnchorEnds, ReadTranscript,
                ReadForAdmission, ReplayInv, RingInv, SeqInv, SeqTypeOK
  <2>3. high_seq' = high_seq /\ high_seq \in Nat
    BY <2>1 DEF ringVars, ReplayInv, RingInv, ReplayTypeOK
  <2> QED
    BY <1>1, <2>1, <2>2, <2>3, QuietKeepsInv DEF ReplayInv, ringVars
<1>8. CASE UNCHANGED replayVars
  <2>1. UNCHANGED <<ringVars, clientVars, last, kept, pc, drawn>>
    BY <1>8 DEF replayVars, seqVars
  <2>2. high_seq' = high_seq /\ high_seq \in Nat
    BY <2>1 DEF ringVars, ReplayInv, RingInv, ReplayTypeOK
  <2> QED
    BY <1>1, <2>1, <2>2, QuietKeepsInv DEF ReplayInv, ringVars
<1> QED
  BY <1>2, <1>3, <1>4, <1>5, <1>6, <1>7, <1>8 DEF ReplayNext

\* The inductive invariant of the ring and the client: what a client misses is
\* above its cursor.
THEOREM ReplayInvariant == AtMostOneForwarder => (ReplaySpec => []ReplayInv)
<1> SUFFICES ASSUME AtMostOneForwarder PROVE ReplaySpec => []ReplayInv
  OBVIOUS
<1>1. ReplayInv /\ [ReplayNext]_replayVars => ReplayInv'
  BY NextKeepsReplayInv
<1> QED
  BY <1>1, ReplayInitInv, PTL DEF ReplaySpec

\* An attached client has every durable event of the session's incarnation,
\* however it lost its connections and resumed, for every retention and interval.
THEOREM ReplayIsGapFree == AtMostOneForwarder => (ReplaySpec => []ReplayGapFree)
<1> SUFFICES ASSUME AtMostOneForwarder PROVE ReplaySpec => []ReplayGapFree
  OBVIOUS
<1>1. ReplayInv => ReplayGapFree
  BY DEF ReplayInv, KnowsPrefix, ReplayGapFree
<1> QED
  BY <1>1, ReplayInvariant, PTL

LEMMA CursorStep ==
  ASSUME AtMostOneForwarder, ReplayInv, [ReplayNext]_replayVars, kept
  PROVE  cursor' >= cursor
<1>1. cursor \in Nat
  BY DEF ReplayInv, RingInv, ReplayTypeOK
<1>2. CASE \E f \in Forwarders : RouteEvent(f)
  <2>1. PICK f \in Forwarders : RouteEvent(f)
    BY <1>2
  <2>2. cursor' = cursor \/ cursor' = drawn[f]
    BY <2>1 DEF RouteEvent
  <2>3. drawn[f] = last /\ cursor < last /\ last \in Nat
    BY <2>1 DEF RouteEvent, Route, ReplayInv, InOrder, RingInv, SeqInv, SeqTypeOK
  <2> QED
    BY <1>1, <2>2, <2>3
<1>3. CASE Subscribe
  BY <1>1, <1>3, LastReplayed DEF Subscribe, ReplayInv
<1>4. CASE UNCHANGED cursor
  BY <1>1, <1>4
<1> QED
  BY <1>2, <1>3, <1>4
  DEF ReplayNext, Attach, Disconnect, CloseRouting, ServerCrash, clientVars, replayVars

\* The numbers a client receives grow across reconnects and server restarts.
THEOREM ClientNumbersGrow == AtMostOneForwarder => (ReplaySpec => CursorGrows)
<1> SUFFICES ASSUME AtMostOneForwarder PROVE ReplaySpec => CursorGrows
  OBVIOUS
<1>1. ReplayInv /\ [ReplayNext]_replayVars => [kept => cursor' >= cursor]_replayVars
  BY CursorStep
<1> QED
  BY <1>1, ReplayInvariant, PTL DEF ReplaySpec, CursorGrows
=============================================================================
