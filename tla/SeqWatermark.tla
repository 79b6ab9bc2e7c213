---------------------------- MODULE SeqWatermark ----------------------------
(***************************************************************************)
(* Allocation of durable per-session event sequence numbers, and the       *)
(* watermark in the transcript that continues them after a restart.        *)
(*                                                                         *)
(* Source: app/server/src/session_seq.rs (SessionSeqAllocator), the        *)
(* persist hook of agent-host's outbound.rs, the close-time anchor of      *)
(* session_close.rs, the resume path of session_resume_operation.rs and    *)
(* SessionManager::persist_session_seq_watermark.                          *)
(*                                                                         *)
(* One session: counters, gate and watermark are kept per session id and   *)
(* never mixed.  0 stands for an absent map entry or watermark.  Sequence  *)
(* numbers are i64 in the code; no run of a process reaches that limit.    *)
(***************************************************************************)
EXTENDS Naturals, FiniteSets

CONSTANTS
  Forwarders,   \* outbound forwarder tasks that stamp events of the session
  Interval,     \* WATERMARK_PERSIST_INTERVAL
  Retention,    \* event_retention_per_session
  MaxDraws,     \* bound: sequence numbers drawn in an instance
  MaxRestarts,  \* bound: process crashes in an instance
  MaxReads      \* bound: transcript reads by resumes in an instance

ASSUME SeqAssumption ==
  /\ Interval \in Nat \ {0}
  /\ Retention \in Nat
  /\ MaxDraws \in Nat /\ MaxRestarts \in Nat /\ MaxReads \in Nat

VARIABLES
  next,             \* the next number of the counter
  issued,           \* the last number handed out by this process
  last_persisted,   \* the last number for which a persist was due
  gate,             \* persist_gate: the highest watermark given to the hook
  pc, drawn,        \* per forwarder: position in `next()` and the number it drew
  writes,           \* watermark writes spawned and not finished
  loads,            \* watermarks read by resume requests and not applied yet
  admission,        \* watermark a load factory read under the write lease
  session,          \* runtime of the session in this process
  anchor,           \* high-water mark the close is writing
  transcript,       \* does the transcript file exist?
  disk,             \* largest watermark in the transcript
  last,             \* history: the number issued most recently, by any process
  kept,             \* history: every process persisted its watermarks in time
  draws, restarts, reads   \* counters for the bounds

counterVars == <<next, issued, last_persisted>>
diskVars    == <<transcript, disk>>
loadVars    == <<loads, admission>>
boundVars   == <<draws, restarts, reads>>
seqVars == <<counterVars, gate, pc, drawn, writes, loadVars, session, anchor, diskVars, last,
             kept, boundVars>>

Larger(a, b) == IF a >= b THEN a ELSE b

\* A session that was just started: nothing is written yet.
SeqInit ==
  /\ next = 1 /\ issued = 0 /\ last_persisted = 0
  /\ gate = 0
  /\ pc = [f \in Forwarders |-> "idle"]
  /\ drawn = [f \in Forwarders |-> 0]
  /\ writes = {}
  /\ loads = {}
  /\ admission = 0
  /\ session = "up"
  /\ anchor = 0
  /\ transcript = FALSE
  /\ disk = 0
  /\ last = 0
  /\ kept = TRUE
  /\ draws = 0 /\ restarts = 0 /\ reads = 0

-----------------------------------------------------------------------------
(* SessionSeqAllocator *)

\* Fault: the window is the retention alone.
Window_Unclamped == Retention

\* set_skip_ahead_window
Window == Larger(Retention, Interval) + Interval

Due == last_persisted = 0 \/ next - last_persisted >= Interval

\* The session has a runtime, which emits events.
Running == session \in {"up", "anchoring", "closing"}

\* next(), up to the release of the allocator lock.
Draw(f) ==
  /\ Running
  /\ pc[f] = "idle"
  /\ draws < MaxDraws
  /\ next' = next + 1
  /\ issued' = next
  /\ last_persisted' = IF Due THEN next ELSE last_persisted
  /\ pc' = [pc EXCEPT ![f] = IF Due THEN "hook" ELSE "route"]
  /\ drawn' = [drawn EXCEPT ![f] = next]
  /\ last' = next
  /\ draws' = draws + 1
  /\ UNCHANGED <<gate, writes, loadVars, session, anchor, diskVars, kept, restarts, reads>>

\* next(), the gated call of the persist hook, which spawns the write.
CallHook(f) ==
  /\ pc[f] = "hook"
  /\ \/ /\ drawn[f] > gate
        /\ gate' = drawn[f]
        /\ writes' = writes \cup {drawn[f]}
     \/ /\ drawn[f] <= gate
        /\ UNCHANGED <<gate, writes>>
  /\ pc' = [pc EXCEPT ![f] = "route"]
  /\ UNCHANGED <<counterVars, drawn, loadVars, session, anchor, diskVars, last, kept,
                 boundVars>>

\* The forwarder hands the stamped envelope to the routing table.
Route(f) ==
  /\ pc[f] = "route"
  /\ pc' = [pc EXCEPT ![f] = "idle"]
  /\ UNCHANGED <<counterVars, gate, drawn, writes, loadVars, session, anchor, diskVars, last,
                 kept, boundVars>>

\* Fault: a resume may move the counter back.
NextAfter_Overwrites(w) == w + Window + 1

NextAfter(w) == Larger(next, w + Window + 1)

\* initialize_after_watermark, when the transcript has a watermark.
InitializeAfterWatermark(w) ==
  /\ next' = IF w = 0 THEN next ELSE NextAfter(w)
  /\ last_persisted' = IF w = 0 THEN last_persisted ELSE 0
  /\ UNCHANGED issued

-----------------------------------------------------------------------------
(* The transcript. *)

\* The first transcript entry of the conversation is written.
CreateTranscript ==
  /\ Running
  /\ ~transcript
  /\ transcript' = TRUE
  /\ UNCHANGED <<counterVars, gate, pc, drawn, writes, loadVars, session, anchor, disk, last,
                 kept, boundVars>>

\* persist_session_seq_watermark: without a transcript it succeeds and writes
\* nothing; readers take the maximum of the appended watermarks.
Persisted(q) == disk' = IF transcript THEN Larger(disk, q) ELSE disk

WriteEnds(q) ==
  /\ q \in writes
  /\ writes' = writes \ {q}
  /\ Persisted(q) \/ UNCHANGED disk       \* an I/O error is logged and dropped
  /\ UNCHANGED <<counterVars, gate, pc, drawn, loadVars, session, anchor, transcript, last,
                 kept, boundVars>>

-----------------------------------------------------------------------------
(* Close and resume. *)

\* Fault: the anchor is the counter, which a resume has skipped ahead.
HighWater_Counter == next - 1

\* high_water
HighWater == issued

\* Fault: a close with nothing issued writes a watermark too.
HasHighWater_Always == TRUE

HasHighWater == issued # 0

\* persist_session_seq_watermark_on_close reads the high-water mark first, then
\* the runtime closes and emits its last events.
BeginClose ==
  /\ session = "up"
  /\ session' = IF HasHighWater THEN "anchoring" ELSE "closing"
  /\ anchor' = IF HasHighWater THEN HighWater ELSE 0
  /\ UNCHANGED <<counterVars, gate, pc, drawn, writes, loadVars, diskVars, last, kept,
                 boundVars>>

AnchorEnds ==
  /\ session = "anchoring"
  /\ session' = "closing"
  /\ anchor' = 0
  /\ Persisted(anchor) \/ UNCHANGED disk
  /\ UNCHANGED <<counterVars, gate, pc, drawn, writes, loadVars, transcript, last, kept,
                 boundVars>>

\* The forwarder of the closing connection routed the final SessionResult event
\* (send_session_event_and_wait); another forwarder may still be busy.
EndClose ==
  /\ session = "closing"
  /\ \E f \in Forwarders : pc[f] = "idle"
  /\ session' = "down"
  /\ UNCHANGED <<counterVars, gate, pc, drawn, writes, loadVars, anchor, diskVars, last, kept,
                 boundVars>>

\* A resume request loads the transcript, whatever the state of the session's slot.
ReadTranscript ==
  /\ transcript
  /\ reads < MaxReads
  /\ reads' = reads + 1
  /\ loads' = loads \cup {disk}
  /\ UNCHANGED <<counterVars, gate, pc, drawn, writes, admission, session, anchor, diskVars,
                 last, kept, draws, restarts>>

\* restore_session_seq_from_watermark before the registry decides whether the
\* session is live, loading or closing.
Restore(w) ==
  /\ w \in loads
  /\ InitializeAfterWatermark(w)
  /\ loads' = loads \ {w}
  /\ UNCHANGED <<gate, pc, drawn, writes, admission, session, anchor, diskVars, last, kept,
                 boundVars>>

\* The load factory takes the write lease and reads the transcript again.
ReadForAdmission ==
  /\ session = "down"
  /\ transcript
  /\ reads < MaxReads
  /\ reads' = reads + 1
  /\ session' = "loading"
  /\ admission' = disk
  /\ UNCHANGED <<counterVars, gate, pc, drawn, writes, loads, anchor, diskVars, last, kept,
                 draws, restarts>>

\* It restores the counter; then the runtime is built and published, or the build
\* fails.
Admit ==
  /\ session = "loading"
  /\ InitializeAfterWatermark(admission)
  /\ session' \in {"up", "down"}
  /\ admission' = 0
  /\ UNCHANGED <<gate, pc, drawn, writes, loads, anchor, diskVars, last, kept, boundVars>>

\* Every watermark that was due has been given to the hook, and the transcript
\* is at most one interval behind the newest.
PersistedInTime ==
  \/ issued = 0
  \/ /\ \A f \in Forwarders : pc[f] # "hook"
     /\ disk # 0
     /\ gate <= disk + Interval

\* The process dies and starts again: only the transcript survives.
Crash ==
  /\ restarts < MaxRestarts
  /\ next' = 1 /\ issued' = 0 /\ last_persisted' = 0
  /\ gate' = 0
  /\ pc' = [f \in Forwarders |-> "idle"]
  /\ drawn' = [f \in Forwarders |-> 0]
  /\ writes' = {}
  /\ loads' = {}
  /\ admission' = 0
  /\ session' = "down"
  /\ anchor' = 0
  /\ kept' = (kept /\ PersistedInTime)
  /\ restarts' = restarts + 1
  /\ UNCHANGED <<diskVars, last, draws, reads>>

SeqNext ==
  \/ \E f \in Forwarders : Draw(f) \/ CallHook(f) \/ Route(f)
  \/ \E q \in writes : WriteEnds(q)
  \/ \E w \in loads : Restore(w)
  \/ CreateTranscript \/ BeginClose \/ AnchorEnds \/ EndClose
  \/ ReadTranscript \/ ReadForAdmission \/ Admit \/ Crash

SeqSpec == SeqInit /\ [][SeqNext]_seqVars

-----------------------------------------------------------------------------
(* Properties. *)

\* The state components have their types, and a high-water mark is being written
\* exactly while a close anchors it.
SeqTypeOK ==
  /\ next \in Nat \ {0} /\ issued \in Nat /\ last_persisted \in Nat
  /\ gate \in Nat
  /\ pc \in [Forwarders -> {"idle", "hook", "route"}]
  /\ drawn \in [Forwarders -> Nat]
  /\ writes \subseteq Nat
  /\ loads \subseteq Nat
  /\ admission \in Nat
  /\ session \in {"up", "anchoring", "closing", "down", "loading"}
  /\ anchor \in Nat /\ (anchor # 0 <=> session = "anchoring")
  /\ transcript \in BOOLEAN
  /\ disk \in Nat
  /\ last \in Nat
  /\ kept \in BOOLEAN
  /\ draws \in Nat /\ restarts \in Nat /\ reads \in Nat

\* The argument of session_seq.rs: as long as no process died with its transcript
\* more than one interval behind, every draw of a number, by any forwarder, is above
\* every number drawn before it, through closes, resumes with stale watermarks and
\* restarts (emitted_max < watermark + window).
GrowsIfKept == [][kept /\ draws' # draws => last' > last]_seqVars

\* The watermark is a number that was really issued: idle resume/close cycles do
\* not inflate it by the skip-ahead window (AllocatorState::issued).
WatermarkIssued == kept => disk <= last
=============================================================================
