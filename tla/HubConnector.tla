---------------------------- MODULE HubConnector ----------------------------
(***************************************************************************)
(* The event hub connector of a process: forwarders that stamp the durable *)
(* events of the sessions and offer them to a bounded channel, the worker  *)
(* that queues, batches and delivers them over a connection that breaks,   *)
(* and the hub that stores them and answers with cursors.                  *)
(*                                                                         *)
(* Source: hub/connector/src/worker.rs; agent-host's outbound.rs           *)
(* (route_app_server_session_event); hub/server/src/routes.rs              *)
(* (handle_hub_frame) and sqlite_store.rs (ingest_batch_sync).             *)
(*                                                                         *)
(* A forwarder draws a number, offers the envelope to the channel and, if  *)
(* the channel is full, records the drop; it holds no lock from one step   *)
(* to the next, so that two forwarders of a session may offer their        *)
(* numbers in the other order.                                             *)
(*                                                                         *)
(* An item is an event or an events_dropped marker.  `nums' are the event  *)
(* numbers it stands for: the event's own, or the ones the marker counts   *)
(* (count is their cardinality, since_seq and until_seq their bounds).     *)
(* The worker's loop is `pc'; the lock of the dropped ranges, each access  *)
(* to the channel and each exchange with the hub is a step.  A batch that  *)
(* the hub cannot parse is one that contains an event of Unparsable: the   *)
(* hub answers the same batch the same way.  Backoff times are left out.   *)
(***************************************************************************)
EXTENDS Naturals, Sequences, FiniteSets

CONSTANTS
  Sessions,         \* sessions of the process
  Forwarders,       \* outbound forwarder tasks that share the egress
  SessionOf,        \* the session whose events a forwarder stamps
  ChannelCapacity,  \* channel_capacity
  PendingCapacity,  \* pending_capacity
  BatchMax,         \* batch_max_events
  MaxEvents,        \* durable events of all sessions (bound)
  MaxOthers,        \* ephemeral envelopes and announce updates (bound)
  Announces,        \* sets of live sessions that are announced (bound)
  Unparsable        \* <<session, number>> of the events the hub rejects

ASSUME HubAssumption ==
  /\ IsFiniteSet(Sessions)
  /\ SessionOf \in [Forwarders -> Sessions]
  /\ ChannelCapacity \in Nat \ {0} /\ PendingCapacity \in Nat \ {0} /\ BatchMax \in Nat \ {0}
  /\ MaxEvents \in Nat /\ MaxOthers \in Nat
  /\ Announces \subseteq SUBSET Sessions /\ Announces # {}
  /\ Unparsable \subseteq Sessions \X (Nat \ {0})

VARIABLES
  produced,  \* last number stamped for each session
  total,     \* events stamped so far
  hand,      \* per forwarder: the number it stamped and still holds, 0 if none
  refused,   \* forwarders whose number found the channel full
  others,    \* ephemeral envelopes and announce updates sent so far
  rx,        \* the channel
  dropped,   \* DroppedEventRanges: numbers dropped since the last marker
  pending,   \* the worker's queue of items
  live,      \* config.announce.live_sessions
  online,    \* is there a client?
  shutting,  \* shutting_down: "no", "asked" (the oneshot is sent), "yes"
  pc,        \* where the worker is in its loop
  stored,    \* items in the hub's events table
  late,      \* a batch of a broken connection that may still reach the hub
  trimmed,   \* items counted in trimmed_resumed_events that the hub did not have (history)
  lossy,     \* sessions that had an event dropped (history)
  due        \* numbers offered by the request to shut down (history)

producerVars == <<produced, total, hand, refused, others>>
hubVars      == <<stored, late>>
history      == <<trimmed, lossy, due>>
hubAll == <<producerVars, rx, dropped, pending, live, online, shutting, pc, hubVars, history>>

-----------------------------------------------------------------------------
(* Items, and what travels in the channel. *)

LastOf(nums) == CHOOSE n \in nums : \A m \in nums : m <= n

Event(s, n) == [session |-> s, seq |-> n, nums |-> {n}, marker |-> FALSE]

Marker(s, nums) == [session |-> s, seq |-> LastOf(nums), nums |-> nums, marker |-> TRUE]

EventCmd(s, n)  == [kind |-> "event", session |-> s, seq |-> n]
EphemeralCmd    == [kind |-> "ephemeral"]
AnnounceCmd(S)  == [kind |-> "announce", sessions |-> S]

ItemsOf(q) == {q[i] : i \in 1..Len(q)}

\* Filters keep the order: the sequence of the items of q at the positions I (the
\* set has one element, the increasing enumeration of I is unique).
Filtered(q, I) ==
  LET n == Cardinality(I) IN
  {[i \in 1..n |-> q[g[i]]] :
     g \in {h \in [1..n -> I] : /\ \A i, j \in 1..n : i < j => h[i] < h[j]
                                /\ \A k \in I : \E i \in 1..n : h[i] = k}}

\* The markers of a map of ranges, in the order in which the map is iterated.
MarkerSeqs(ranges) ==
  LET D == {s \in Sessions : ranges[s] # {}}
      n == Cardinality(D)
  IN  {[i \in 1..n |-> Marker(o[i], ranges[o[i]])] :
         o \in {p \in [1..n -> D] : \A i, j \in 1..n : i # j => p[i] # p[j]}}

HubInit ==
  /\ produced = [s \in Sessions |-> 0] /\ total = 0 /\ others = 0
  /\ hand = [f \in Forwarders |-> 0] /\ refused = {}
  /\ rx = <<>> /\ dropped = [s \in Sessions |-> {}] /\ pending = <<>>
  /\ live \in Announces
  /\ online = FALSE /\ shutting = "no" /\ pc = "top"
  /\ stored = {} /\ late = <<>>
  /\ trimmed = {} /\ lossy = {} /\ due = [s \in Sessions |-> 0]

-----------------------------------------------------------------------------
(* Producers. *)

\* Fault: the channel takes one command more than channel_capacity.
HasRoom_OffByOne == Len(rx) <= ChannelCapacity

HasRoom == Len(rx) < ChannelCapacity

\* route_app_server_session_event: the envelope is stamped and given to the
\* routing table.
Stamp(f) ==
  LET s == SessionOf[f] IN
  /\ hand[f] = 0
  /\ total < MaxEvents
  /\ total' = total + 1
  /\ produced' = [produced EXCEPT ![s] = @ + 1]
  /\ hand' = [hand EXCEPT ![f] = produced[s] + 1]
  /\ UNCHANGED <<refused, others, rx, dropped, pending, live, online, shutting, pc, hubVars, history>>

\* try_enqueue, the try_send: the event goes into the channel, is refused by a full
\* one, or is gone when the worker has returned and the channel is closed.
TryEnqueue(f) ==
  /\ hand[f] # 0 /\ f \notin refused
  /\ \/ /\ pc # "done" /\ HasRoom
        /\ rx' = Append(rx, EventCmd(SessionOf[f], hand[f]))
        /\ hand' = [hand EXCEPT ![f] = 0]
        /\ UNCHANGED refused
     \/ /\ pc # "done" /\ ~HasRoom
        /\ refused' = refused \cup {f}
        /\ UNCHANGED <<rx, hand>>
     \/ /\ pc = "done"
        /\ hand' = [hand EXCEPT ![f] = 0]
        /\ UNCHANGED <<rx, refused>>
  /\ UNCHANGED <<produced, total, others, dropped, pending, live, online, shutting, pc, hubVars,
                 history>>

\* record_dropped_envelope, under the lock of the ranges.
RecordDropped(f) ==
  LET s == SessionOf[f] IN
  /\ f \in refused
  /\ dropped' = [dropped EXCEPT ![s] = @ \cup {hand[f]}]
  /\ lossy' = lossy \cup {s}
  /\ hand' = [hand EXCEPT ![f] = 0]
  /\ refused' = refused \ {f}
  /\ UNCHANGED <<produced, total, others, rx, pending, live, online, shutting, pc, hubVars, trimmed,
                 due>>

\* try_enqueue of an ephemeral envelope (one that finds the channel full is
\* forgotten), and update_announce, which waits for room.
SendOther(cmd) ==
  /\ pc # "done"
  /\ others < MaxOthers
  /\ HasRoom
  /\ others' = others + 1
  /\ rx' = Append(rx, cmd)
  /\ UNCHANGED <<produced, total, hand, refused, dropped, pending, live, online, shutting, pc,
                 hubVars, history>>

-----------------------------------------------------------------------------
(* The worker's queue. *)

\* Fault: the range stays when its marker is queued.
Pushed_KeepsRange(s, n) ==
  LET marks == dropped[s] # {} /\ LastOf(dropped[s]) < n IN
  /\ pending' = pending \o (IF marks THEN <<Marker(s, dropped[s])>> ELSE <<>>) \o <<Event(s, n)>>
  /\ UNCHANGED dropped

\* push_dropped_marker_before and the push of the event behind it.
Pushed(s, n) ==
  LET marks == dropped[s] # {} /\ LastOf(dropped[s]) < n IN
  /\ pending' = pending \o (IF marks THEN <<Marker(s, dropped[s])>> ELSE <<>>) \o <<Event(s, n)>>
  /\ dropped' = [dropped EXCEPT ![s] = IF marks THEN {} ELSE @]

\* rx.recv or rx.try_recv, and handle_command.
Receive ==
  /\ Len(pending) < PendingCapacity
  /\ rx # <<>>
  /\ rx' = Tail(rx)
  /\ \/ /\ rx[1].kind = "event"
        /\ Pushed(rx[1].session, rx[1].seq)
        /\ UNCHANGED <<live, online>>
     \/ /\ rx[1].kind = "ephemeral"
        /\ UNCHANGED <<pending, dropped, live, online>>
     \/ /\ rx[1].kind = "announce"
        /\ live' = rx[1].sessions
        /\ online' = FALSE
        /\ UNCHANGED <<pending, dropped>>
  /\ UNCHANGED <<producerVars, shutting, hubVars, history>>

\* push_all_dropped_markers
PushAllDropped ==
  \/ /\ Len(pending) >= PendingCapacity
     /\ UNCHANGED <<pending, dropped>>
  \/ /\ Len(pending) < PendingCapacity
     /\ \E m \in MarkerSeqs(dropped) : pending' = pending \o m
     /\ dropped' = [s \in Sessions |-> {}]

QueuesEmpty == pending = <<>> /\ rx = <<>>

-----------------------------------------------------------------------------
(* The worker's loop: run_worker. *)

Goto(l) == pc' = l

\* The head of the loop: offline it drains first, otherwise it first looks for
\* ranges to mark.
LoopHead ==
  /\ pc = "top"
  /\ Goto(IF shutting # "yes" /\ ~online THEN "drain"
          ELSE IF QueuesEmpty THEN "mark"
          ELSE IF shutting = "yes" THEN "drain" ELSE "select")
  /\ UNCHANGED <<producerVars, rx, dropped, pending, live, online, shutting, hubVars, history>>

\* drain_ready
DrainReady ==
  /\ pc = "drain"
  /\ Receive
  /\ UNCHANGED pc

DrainEnds ==
  /\ pc = "drain"
  /\ Len(pending) >= PendingCapacity \/ rx = <<>>
  /\ Goto(IF shutting = "yes" THEN "flush" ELSE "check")
  /\ UNCHANGED <<producerVars, rx, dropped, pending, live, online, shutting, hubVars, history>>

\* Offline: pending.is_empty() && rx.is_empty() after the drain.
CheckEmpty ==
  /\ pc = "check"
  /\ Goto(IF QueuesEmpty THEN "mark" ELSE "deliver")
  /\ UNCHANGED <<producerVars, rx, dropped, pending, live, online, shutting, hubVars, history>>

MarkDropped ==
  /\ pc = "mark"
  /\ PushAllDropped
  /\ Goto(IF shutting = "yes" THEN "drain" ELSE IF online THEN "select" ELSE "deliver")
  /\ UNCHANGED <<producerVars, rx, live, online, shutting, hubVars, history>>

\* Shutting down: the last markers, and the return once nothing is pending.
\* The channel goes with the worker.
Flush ==
  /\ pc = "flush"
  /\ PushAllDropped
  /\ \/ pending' = <<>> /\ Goto("done") /\ rx' = <<>>
     \/ pending' # <<>> /\ Goto("deliver") /\ UNCHANGED rx
  /\ UNCHANGED <<producerVars, live, online, shutting, hubVars, history>>

\* A full batch is delivered at once, a smaller one by flush_tick.
SelectDeliver ==
  /\ pc = "select"
  /\ pending # <<>>
  /\ Goto("deliver")
  /\ UNCHANGED <<producerVars, rx, dropped, pending, live, online, shutting, hubVars, history>>

SelectReceive ==
  /\ pc = "select"
  /\ Len(pending) < BatchMax
  /\ Receive
  /\ Goto("top")

\* The numbers of a session up to which every forwarder has made its offer.
OfferedUpTo(s) ==
  LastOf({n \in 0..produced[s] :
            \A f \in Forwarders : SessionOf[f] = s /\ hand[f] # 0 => n < hand[f]})

\* shutdown_and_flush
AskShutdown ==
  /\ shutting = "no"
  /\ shutting' = "asked"
  /\ due' = [s \in Sessions |-> OfferedUpTo(s)]
  /\ UNCHANGED <<producerVars, rx, dropped, pending, live, online, pc, hubVars, trimmed, lossy>>

\* shutdown_rx: only the online loop looks at it.
SelectShutdown ==
  /\ pc = "select"
  /\ Len(pending) < BatchMax
  /\ shutting = "asked"
  /\ shutting' = "yes"
  /\ Goto("top")
  /\ UNCHANGED <<producerVars, rx, dropped, pending, live, online, hubVars, history>>

-----------------------------------------------------------------------------
(* The hub. *)

StoredOf(s) == {x \in stored : x.session = s}

\* sessions.last_seq: the cursor of a session.
LastSeq(s) ==
  IF StoredOf(s) = {} THEN 0 ELSE LastOf({x.seq : x \in StoredOf(s)})

\* ingest_batch_sync: INSERT OR IGNORE under the key (session, number).  An envelope
\* of another instance would be skipped and acknowledged; the worker stamps each
\* one with the instance it announced.
Ingested(b) ==
  stored \cup {x \in ItemsOf(b) : \A y \in stored : y.session = x.session => y.seq # x.seq}

Parsable(b) == \A x \in ItemsOf(b) : x.marker \/ <<x.session, x.seq>> \notin Unparsable

\* BatchAckFrame.up_to_seq
UpToSeq(b, s) == LastOf({x.seq : x \in {y \in ItemsOf(b) : y.session = s}})

\* A batch that was on its way when its connection broke reaches the hub.
LateArrival ==
  /\ late # <<>>
  /\ stored' = Ingested(late)
  /\ late' = <<>>
  /\ UNCHANGED <<producerVars, rx, dropped, pending, live, online, shutting, pc, history>>

-----------------------------------------------------------------------------
(* deliver_or_backoff and deliver_once. *)

\* Fault: an event above the cursor by one is taken for stored.
AlreadyStored_OffByOne(x) == x.session \in live /\ x.seq <= LastSeq(x.session) + 1

\* announce_ack.resume_from has the cursors of the announced sessions.
AlreadyStored(x) == x.session \in live /\ x.seq <= LastSeq(x.session)

\* connect, announce and trim_pending_already_stored.
Connect ==
  /\ pc = "deliver" /\ ~online
  /\ online' = TRUE
  /\ pending' \in Filtered(pending, {i \in 1..Len(pending) : ~AlreadyStored(pending[i])})
  /\ trimmed' = trimmed \cup {x \in ItemsOf(pending) : AlreadyStored(x) /\ x \notin stored}
  /\ UNCHANGED <<producerVars, rx, dropped, live, shutting, pc, hubVars, lossy, due>>

\* The hub cannot be reached, or answers announce with an error.
ConnectFails ==
  /\ pc = "deliver" /\ ~online
  /\ Goto("top")
  /\ UNCHANGED <<producerVars, rx, dropped, pending, live, online, shutting, hubVars, history>>

NothingToSend ==
  /\ pc = "deliver" /\ online
  /\ pending = <<>>
  /\ Goto("top")
  /\ UNCHANGED <<producerVars, rx, dropped, pending, live, online, shutting, hubVars, history>>

\* batch_events_within_limits: at most BatchMax items, fewer where bytes run out.
Batches == {SubSeq(pending, 1, k) : k \in {j \in 1..Len(pending) : j <= BatchMax}}

\* Fault: the highest acknowledged number counts for every session.
PoppedFront_AnySession(b) ==
  LET Acked(x) == x.seq <= LastOf({y.seq : y \in ItemsOf(b)})
      k == LastOf({j \in 0..Len(pending) : \A i \in 1..j : Acked(pending[i])})
  IN  SubSeq(pending, k + 1, Len(pending))

\* Fault: the item with the acknowledged number itself stays.
PoppedFront_Strict(b) ==
  LET Acked(x) == \E y \in ItemsOf(b) : y.session = x.session /\ x.seq < UpToSeq(b, x.session)
      k == LastOf({j \in 0..Len(pending) : \A i \in 1..j : Acked(pending[i])})
  IN  SubSeq(pending, k + 1, Len(pending))

\* pop_acked_front: the front items whose session is acknowledged far enough.
PoppedFront(b) ==
  LET Acked(x) == \E y \in ItemsOf(b) : y.session = x.session /\ x.seq <= UpToSeq(b, x.session)
      k == LastOf({j \in 0..Len(pending) : \A i \in 1..j : Acked(pending[i])})
  IN  SubSeq(pending, k + 1, Len(pending))

SendAcked(b) ==
  /\ pc = "deliver" /\ online
  /\ Parsable(b)
  /\ stored' = Ingested(b)
  /\ pending' = PoppedFront(b)
  /\ Goto("top")
  /\ UNCHANGED <<producerVars, rx, dropped, live, online, shutting, late, history>>

\* The connection breaks, or the hub answers store_error: the batch got
\* through unacknowledged, did not get through, or is still on its way.
SendFails(b) ==
  /\ pc = "deliver" /\ online
  /\ online' = FALSE
  /\ Goto("top")
  /\ \/ Parsable(b) /\ stored' = Ingested(b) /\ UNCHANGED late
     \/ UNCHANGED hubVars
     \/ Parsable(b) /\ late' = b /\ UNCHANGED stored
  /\ UNCHANGED <<producerVars, rx, dropped, pending, live, shutting, history>>

\* Fault: a batch the hub cannot parse is tried again.
DropFrontBatch_Retries(b) ==
  /\ pc = "deliver" /\ online
  /\ ~Parsable(b)
  /\ online' = FALSE
  /\ Goto("top")
  /\ UNCHANGED <<producerVars, rx, dropped, pending, live, shutting, hubVars, history>>

\* is_non_retriable and drop_front_batch: markers go to the back, the events
\* become new markers behind them.
DropFrontBatch(b) ==
  LET ranges == [s \in Sessions |->
                   UNION {x.nums : x \in {y \in ItemsOf(b) : y.session = s /\ ~y.marker}}]
      rest   == SubSeq(pending, Len(b) + 1, Len(pending))
  IN  /\ pc = "deliver" /\ online
      /\ ~Parsable(b)
      /\ \E kept \in Filtered(b, {i \in 1..Len(b) : b[i].marker}), m \in MarkerSeqs(ranges) :
           pending' = rest \o kept \o m
      /\ lossy' = lossy \cup {s \in Sessions : ranges[s] # {}}
      /\ Goto("top")
      /\ UNCHANGED <<producerVars, rx, dropped, live, online, shutting, hubVars, trimmed, due>>

-----------------------------------------------------------------------------
Produce ==
  \/ \E f \in Forwarders : Stamp(f) \/ TryEnqueue(f) \/ RecordDropped(f)
  \/ SendOther(EphemeralCmd)
  \/ \E S \in Announces : SendOther(AnnounceCmd(S))

Work ==
  \/ LoopHead \/ DrainReady \/ DrainEnds \/ CheckEmpty \/ MarkDropped \/ Flush
  \/ SelectDeliver \/ SelectReceive \/ SelectShutdown \/ NothingToSend

\* The hub answers a batch.
Answered == \E b \in Batches : SendAcked(b) \/ DropFrontBatch(b)

Broken == ConnectFails \/ \E b \in Batches : SendFails(b)

HubNext ==
  Produce \/ AskShutdown \/ Work \/ Connect \/ Answered \/ Broken \/ LateArrival

HubSpec == HubInit /\ [][HubNext]_hubAll

\* The worker's task is polled; a hub that is tried again and again is reached,
\* and a batch that is sent again and again is answered, now and then.
HubFairSpec ==
  /\ HubSpec
  /\ WF_hubAll(Work)
  /\ SF_hubAll(Connect)
  /\ SF_hubAll(Answered)

-----------------------------------------------------------------------------
(* Properties. *)

Numbers == 1..MaxEvents

Item ==
  {Event(s, n) : s \in Sessions, n \in Numbers}
    \cup {Marker(s, N) : s \in Sessions, N \in (SUBSET Numbers) \ {{}}}

Command ==
  {EventCmd(s, n) : s \in Sessions, n \in Numbers}
    \cup {EphemeralCmd} \cup {AnnounceCmd(S) : S \in Announces}

\* Type invariant: the channel holds at most its capacity of commands, and
\* events and markers carry numbers that were stamped.
HubTypeOK ==
  /\ produced \in [Sessions -> 0..MaxEvents] /\ total \in 0..MaxEvents /\ others \in 0..MaxOthers
  /\ hand \in [Forwarders -> 0..MaxEvents] /\ refused \subseteq {f \in Forwarders : hand[f] # 0}
  /\ rx \in Seq(Command) /\ Len(rx) <= ChannelCapacity
  /\ dropped \in [Sessions -> SUBSET Numbers]
  /\ pending \in Seq(Item) /\ late \in Seq(Item)
  /\ live \in Announces /\ online \in BOOLEAN
  /\ shutting \in {"no", "asked", "yes"}
  /\ pc \in {"top", "drain", "check", "mark", "select", "deliver", "flush", "done"}
  /\ stored \subseteq Item /\ trimmed \subseteq Item
  /\ lossy \subseteq Sessions /\ due \in [Sessions -> 0..MaxEvents]

IsStored(s, n) == Event(s, n) \in stored

\* Sessions whose events one forwarder stamps: two forwarders of a session may offer
\* 2 before 1, the cursor of the hub is then 2, and a reconnect trims 1 unsent.
OneForwarder ==
  {s \in Sessions : \A f, g \in Forwarders : SessionOf[f] = s /\ SessionOf[g] = s => f = g}

InHand(s, n) == \E f \in Forwarders : SessionOf[f] = s /\ hand[f] = n

\* No silent loss: an event of a session with one forwarder, which never had an
\* event dropped, is in the forwarder's hands, in the channel, in the queue or at the
\* hub, through broken connections, lost acknowledgements, late batches, trims and new
\* announces; only events that were offered after the request to shut down may be
\* left in the channel when the worker returns, or find it closed.
CleanDelivered ==
  \A s \in OneForwarder \ lossy : \A n \in 1..produced[s] :
    \/ InHand(s, n)
    \/ EventCmd(s, n) \in ItemsOf(rx)
    \/ Event(s, n) \in ItemsOf(pending)
    \/ IsStored(s, n)
    \/ pc = "done" /\ n > due[s]

\* The cursor of a session with one forwarder, from which the next connection resumes,
\* never passes an event the hub does not have, unless the session had an event dropped.
CursorHonest ==
  \A s \in OneForwarder \ lossy : \A n \in 1..LastSeq(s) : IsStored(s, n)

Markers == {x \in ItemsOf(pending) \cup ItemsOf(late) \cup stored : x.marker}

\* The events_dropped markers count no event twice, neither two of them nor one
\* of them and the range that waits for the next marker, however many forwarders a
\* session has and however often markers are queued again and batches are repeated.
DropsCountedOnce ==
  \A x \in Markers :
    /\ x.nums \cap dropped[x.session] = {}
    /\ \A y \in Markers : x # y /\ x.session = y.session => x.nums \cap y.nums = {}

\* Once shutdown is requested the worker flushes and returns.
ShutdownFlushes == (shutting = "asked") ~> (pc = "done")

\* The hub catches up: again and again it has every event that was offered of the
\* sessions with one forwarder and without drops, unless the worker was shut down.
HubCatchesUp ==
  []<>(\/ pc = "done"
       \/ \A s \in OneForwarder \ lossy : \A n \in 1..produced[s] : InHand(s, n) \/ IsStored(s, n))

\* What worker.rs says of trimmed_resumed_events: the hub already has every
\* pending item that is skipped at announce time.
TrimmedStored == trimmed = {}

=============================================================================
