---------------------------- MODULE EventReplay ----------------------------
(***************************************************************************)
(* Retention and replay of a session's durable events: the retention ring  *)
(* of the routing table, fed by the forwarders of SeqWatermark, and one    *)
(* client that attaches, loses its connection and subscribes again with    *)
(* the last sequence number it received.                                   *)
(*                                                                         *)
(* Source: app/server/src/lib.rs (RetentionRing, route_envelope,           *)
(* subscribe, close_session_attachments, initialize_ring_watermark).       *)
(*                                                                         *)
(* An event is its position in the order of routing (`id`) and its number. *)
(* An absent ring and an empty ring without high_seq answer alike, so both *)
(* are the empty sequence with high_seq 0.                                 *)
(***************************************************************************)
EXTENDS SeqWatermark, Sequences, FiniteSetsExt

VARIABLES
  ring,       \* retained events [seq, id], oldest first
  high_seq,   \* highest number the ring knows of, 0 for None
  routed,     \* number of durable events routed so far
  base,       \* `routed` when the ring was last dropped
  attached,   \* is the client attached to the session?
  cursor,     \* the last number the client received, 0 for none
  seen        \* ids the client knows, from events or from a snapshot

ringVars   == <<ring, high_seq, routed, base>>
clientVars == <<attached, cursor, seen>>
replayVars == <<seqVars, ringVars, clientVars>>

ReplayInit ==
  /\ SeqInit
  /\ ring = <<>> /\ high_seq = 0
  /\ routed = 0 /\ base = 0
  /\ attached = FALSE /\ cursor = 0 /\ seen = {}

-----------------------------------------------------------------------------
(* RetentionRing *)

\* append
Appended(e) ==
  LET r == Append(ring, e) IN
  IF Retention = 0 THEN <<>>
  ELSE IF Len(r) > Retention THEN Tail(r) ELSE r

\* Fault: the oldest retained event is taken for the one the client has.
TooOld_OffByOne(after) ==
  IF ring # <<>> THEN after < ring[1].seq - 2 ELSE high_seq # 0 /\ after < high_seq

\* replay_after answers TooOld.
TooOld(after) ==
  IF ring # <<>> THEN after < ring[1].seq - 1 ELSE high_seq # 0 /\ after < high_seq

\* replay_after answers Available with the events at these positions, in order.
Available(after) == {i \in 1..Len(ring) : ring[i].seq > after}

Ids(events) == {ring[i].id : i \in events}

\* Fault: close leaves the ring of the ended incarnation behind.
DropRing_Keeps ==
  /\ base' = routed
  /\ UNCHANGED <<ring, high_seq, routed>>

DropRing ==
  /\ ring' = <<>> /\ high_seq' = 0
  /\ base' = routed
  /\ UNCHANGED routed

-----------------------------------------------------------------------------
(* route_envelope: retained first, then delivered to the attached client,  *)
(* whose connection is dropped when its queue is full.                     *)
RouteEvent(f) ==
  LET id == routed + 1 IN
  /\ Route(f)
  /\ routed' = id
  /\ ring' = Appended([seq |-> drawn[f], id |-> id])
  /\ high_seq' = Larger(high_seq, drawn[f])
  /\ UNCHANGED base
  /\ \/ /\ attached
        /\ cursor' = drawn[f]
        /\ seen' = seen \cup {id}
        /\ UNCHANGED attached
     \/ /\ attached' = FALSE
        /\ UNCHANGED <<cursor, seen>>

\* session/start and session/resume attach with Full access: the result carries
\* the conversation so far, and live events follow.
Attach ==
  /\ session = "up"
  /\ ~attached
  /\ attached' = TRUE
  /\ seen' = 1..routed
  /\ UNCHANGED <<seqVars, ringVars, cursor>>

Disconnect ==
  /\ attached
  /\ attached' = FALSE
  /\ UNCHANGED <<seqVars, ringVars, cursor, seen>>

\* subscribe_live_session: replay and attachment are one step; a missing or too
\* old cursor changes nothing.
Subscribe ==
  LET events == Available(cursor) IN
  /\ session = "up"
  /\ ~attached
  /\ cursor # 0
  /\ ~TooOld(cursor)
  /\ attached' = TRUE
  /\ seen' = seen \cup Ids(events)
  /\ cursor' = IF events = {} THEN cursor ELSE ring[Max(events)].seq
  /\ UNCHANGED <<seqVars, ringVars>>

\* restore_session_seq_from_watermark seeds the ring with the watermark itself.
SeedRing(w) ==
  /\ high_seq' = Larger(high_seq, w)
  /\ UNCHANGED <<ring, routed, base>>

\* complete_session_close: close_session_attachments detaches and drops the ring.
CloseRouting ==
  /\ EndClose
  /\ DropRing
  /\ attached' = FALSE
  /\ UNCHANGED <<cursor, seen>>

ServerCrash ==
  /\ Crash
  /\ DropRing
  /\ attached' = FALSE
  /\ UNCHANGED <<cursor, seen>>

ReplayNext ==
  \/ \E f \in Forwarders : RouteEvent(f)
  \/ \E w \in loads : Restore(w) /\ SeedRing(w) /\ UNCHANGED clientVars
  \/ Admit /\ SeedRing(admission) /\ UNCHANGED clientVars
  \/ Attach \/ Disconnect \/ Subscribe \/ CloseRouting \/ ServerCrash
  \/ /\ \/ \E f \in Forwarders : Draw(f) \/ CallHook(f)
        \/ \E q \in writes : WriteEnds(q)
        \/ CreateTranscript \/ BeginClose \/ AnchorEnds \/ ReadTranscript \/ ReadForAdmission
     /\ UNCHANGED <<ringVars, clientVars>>

ReplaySpec == ReplayInit /\ [][ReplayNext]_replayVars

-----------------------------------------------------------------------------
(* Properties. *)

\* The ring holds at most Retention events, all routed in this incarnation, and
\* knows their highest number.
RingOK ==
  /\ Len(ring) <= Retention
  /\ \A i \in 1..Len(ring) : ring[i].id \in base + 1..routed /\ ring[i].seq <= high_seq

\* Replay is gap-free: an attached client has every durable event of the current
\* incarnation of the session, whether it came live, by replay or in a snapshot,
\* for every eviction, lost connection, resume and restart (subscribe, and
\* protocol-scope.md: "ordered and gap-free with the subsequent live stream").
ReplayGapFree == kept /\ attached => (base + 1)..routed \subseteq seen

\* The numbers a client receives grow, across reconnects and server restarts.
CursorGrows == [][kept => cursor' >= cursor]_replayVars

-----------------------------------------------------------------------------
(* A statement of the documentation that the code does not keep. *)

\* app_server.rs, initialize_session_ring_watermark: a seeded ring is there "so an
\* empty ring rejects a stale cursor": a client that attached has missed no event.
StaleCursorRejected ==
  kept /\ attached /\ ring = <<>> /\ high_seq # 0 => 1..routed \subseteq seen
=============================================================================
