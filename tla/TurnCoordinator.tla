--------------------------- MODULE TurnCoordinator ---------------------------
(***************************************************************************)
(* The turn slot of one live session, the turns, goal bursts and shortcuts *)
(* that compete for it, the shared history they write, and the close of    *)
(* the runtime, which drains the slot (agent-host: session_runtime/turn.rs,*)
(* session_handle, the turn handlers, the turn executor, goal_driver.rs).  *)
(*                                                                         *)
(* A member of Turns is a request or a burst that may become a turn.  The  *)
(* slot is not keyed: whoever releases it releases whatever is in it.      *)
(***************************************************************************)
CONSTANTS Requests,  \* turn/start requests
          Bursts,    \* bursts of the goal driver
          NoTurn     \* no turn

Turns == Requests \cup Bursts

ASSUME TurnAssumption == Requests \cap Bursts = {} /\ NoTurn \notin Turns

VARIABLES
  stage,      \* stage[t]: the request before admission, then the kind of turn
  slot,       \* TurnLifecycleState
  eng,        \* eng[t]: the engine that t runs over the history
  task,       \* task[t]: turn_task (for a shortcut, its handler)
  rel,        \* rel[t]: what will release t's slot: forwarder or guard
  cancelled,  \* turns whose cancel token fired
  history,    \* entries of the shared history
  base,       \* base[t]: what t's engine read when it started
  closer,     \* progress of close_runtime
  drained,    \* the turn that the close took out of the slot
  closed      \* the tombstone

turnVars == <<stage, eng, task, rel, base>>
closeVars == <<closer, drained, closed>>
vars == <<stage, slot, eng, task, rel, cancelled, history, base,
          closer, drained, closed>>

Entries == Turns \X {"goal", "prompt", "reply"}
Idle == [st |-> "idle", turn |-> NoTurn]
Slot(st, t) == [st |-> st, turn |-> t]

(***************************************************************************)
(* The slot's state machine.                                               *)
(***************************************************************************)
IsBusy == slot.st # "idle"

\* mark_finishing and complete_finishing do not name the turn they end.
MarkFinishing == IF slot.st \in {"running", "finishing"}
                   THEN Slot("finishing", slot.turn) ELSE slot

CompleteFinishing == IF slot.st = "finishing" THEN Idle ELSE slot

ReleaseReservation == IF slot.st = "reserved" THEN Idle ELSE slot

Init ==
  /\ stage = [t \in Turns |-> "new"]
  /\ slot = Idle
  /\ eng = [t \in Turns |-> "none"]
  /\ task = [t \in Turns |-> "none"]
  /\ rel = [t \in Turns |-> "none"]
  /\ cancelled = {}
  /\ history = {}
  /\ base = [t \in Turns |-> {}]
  /\ closer = "none"
  /\ drained = NoTurn
  /\ closed = FALSE

(***************************************************************************)
(* Requests.  A handler finds the session while it is Live and calls the   *)
(* coordinator some awaits later.                                          *)
(***************************************************************************)
Resolve(t) ==
  /\ t \in Requests /\ stage[t] = "new"
  /\ closer = "none"
  /\ stage' = [stage EXCEPT ![t] = "resolved"]
  /\ UNCHANGED <<slot, eng, task, rel, cancelled, history, base, closeVars>>

\* A goal command that starts a turn probes the slot, writes its status and
\* text to the history without holding the slot, and goes on as turn/start.
ProbeSlot(t) ==
  /\ t \in Requests /\ stage[t] = "new"
  /\ closer = "none"
  /\ ~IsBusy
  /\ stage' = [stage EXCEPT ![t] = "probed"]
  /\ UNCHANGED <<slot, eng, task, rel, cancelled, history, base, closeVars>>

AppendGoal(t) ==
  /\ stage[t] = "probed"
  /\ stage' = [stage EXCEPT ![t] = "resolved"]
  /\ history' = history \cup {<<t, "goal">>}
  /\ UNCHANGED <<slot, eng, task, rel, cancelled, base, closeVars>>

\* Mutant: the probe is trusted and the slot is not tested again.
Admits_Busy == ~closed

Admits == ~closed /\ ~IsBusy

\* start: the slot is installed with the handles of the spawned tasks.
Install(t, kind) ==
  /\ Admits
  /\ stage' = [stage EXCEPT ![t] = kind]
  /\ slot' = Slot("running", t)
  /\ eng' = [eng EXCEPT ![t] = "building"]
  /\ task' = [task EXCEPT ![t] = "run"]
  /\ rel' = [rel EXCEPT ![t] = "open"]
  /\ UNCHANGED <<cancelled, history, base, closeVars>>

StartTurn(t) == stage[t] = "resolved" /\ Install(t, "user")

\* The driver starts a burst only when its last one has reported back.
StartBurst(t) ==
  /\ t \in Bursts /\ stage[t] = "new"
  /\ \A u \in Turns : stage[u] = "burst" => task[u] # "run"
  /\ Install(t, "burst")

Reserve(t) ==
  /\ stage[t] = "resolved"
  /\ Admits
  /\ stage' = [stage EXCEPT ![t] = "shortcut"]
  /\ slot' = Slot("reserved", t)
  /\ task' = [task EXCEPT ![t] = "run"]
  /\ rel' = [rel EXCEPT ![t] = "open"]
  /\ UNCHANGED <<eng, cancelled, history, base, closeVars>>

Refuse(t) ==
  /\ stage[t] = "resolved"
  /\ ~Admits
  /\ stage' = [stage EXCEPT ![t] = "refused"]
  /\ UNCHANGED <<slot, eng, task, rel, cancelled, history, base, closeVars>>

\* turn/interrupt of a Live session, while something is in the slot.
Interrupt ==
  /\ closer = "none"
  /\ IsBusy
  /\ cancelled' = cancelled \cup {slot.turn}
  /\ UNCHANGED <<turnVars, slot, history, closeVars>>

(***************************************************************************)
(* The engine of a turn: it appends the prompt, runs on a snapshot of the  *)
(* history and replaces the history by its result.                         *)
(***************************************************************************)
ReadHistory(t) ==
  /\ eng[t] = "building"
  /\ eng' = [eng EXCEPT ![t] = "running"]
  /\ history' = IF stage[t] = "user" THEN history \cup {<<t, "prompt">>} ELSE history
  /\ base' = [base EXCEPT ![t] = history']
  /\ UNCHANGED <<stage, slot, task, rel, cancelled, closeVars>>

\* A burst goes on to its next goal turn, unless it was aborted meanwhile.
NextEngine(t) ==
  IF stage[t] = "burst" /\ task[t] = "run" THEN "building" ELSE "done"

CommitHistory(t) ==
  /\ eng[t] = "running"
  /\ eng' = [eng EXCEPT ![t] = NextEngine(t)]
  /\ history' = base[t] \cup {<<t, "reply">>}
  /\ base' = [base EXCEPT ![t] = {}]
  /\ UNCHANGED <<stage, slot, task, rel, cancelled, closeVars>>

\* A goal turn panics in its own task; the burst hears of it.
GoalTurnDies(t) ==
  /\ stage[t] = "burst"
  /\ eng[t] = "running"
  /\ eng' = [eng EXCEPT ![t] = NextEngine(t)]
  /\ base' = [base EXCEPT ![t] = {}]
  /\ UNCHANGED <<stage, slot, task, rel, cancelled, history, closeVars>>

\* Mutant: the terminal is sent before the history is committed.
TaskEnds_BeforeCommit(t) ==
  /\ task[t] = "run"
  /\ stage[t] \in {"user", "burst"}
  /\ task' = [task EXCEPT ![t] = "ended"]
  /\ eng' = [eng EXCEPT ![t] = IF @ = "running" THEN @ ELSE "done"]
  /\ UNCHANGED <<stage, slot, rel, cancelled, history, base, closeVars>>

\* turn_task ends: the terminal is sent after the commit (or a hook blocked
\* the turn before the engine ran); a burst ends between two goal turns.
TaskEnds(t) ==
  /\ task[t] = "run"
  /\ stage[t] \in {"user", "burst"}
  /\ eng[t] # "running"
  /\ task' = [task EXCEPT ![t] = "ended"]
  /\ eng' = [eng EXCEPT ![t] = "done"]
  /\ UNCHANGED <<stage, slot, rel, cancelled, history, base, closeVars>>

\* The turn task panics, and its engine with it.
TaskPanics(t) ==
  /\ task[t] = "run"
  /\ stage[t] = "user"
  /\ eng[t] = "running"
  /\ task' = [task EXCEPT ![t] = "ended"]
  /\ eng' = [eng EXCEPT ![t] = "done"]
  /\ base' = [base EXCEPT ![t] = {}]
  /\ UNCHANGED <<stage, slot, rel, cancelled, history, closeVars>>

\* A shortcut appends its text and ends, or fails before.
ShortcutEnds(t) ==
  /\ task[t] = "run"
  /\ stage[t] = "shortcut"
  /\ task' = [task EXCEPT ![t] = "ended"]
  /\ history' \in {history, history \cup {<<t, "reply">>}}
  /\ UNCHANGED <<stage, slot, eng, rel, cancelled, base, closeVars>>

(***************************************************************************)
(* The release: the forwarder of a turn, on its terminal or on the end of  *)
(* its channel, or the guard of a burst or a shortcut.                     *)
(***************************************************************************)
Mark(t) ==
  /\ rel[t] = "open"
  /\ task[t] = "ended"
  /\ stage[t] \in {"user", "burst"}
  /\ rel' = [rel EXCEPT ![t] = "marked"]
  /\ slot' = MarkFinishing
  /\ UNCHANGED <<stage, eng, task, cancelled, history, base, closeVars>>

Complete(t) ==
  /\ rel[t] = "marked"
  /\ rel' = [rel EXCEPT ![t] = "done"]
  /\ slot' = CompleteFinishing
  /\ UNCHANGED <<stage, eng, task, cancelled, history, base, closeVars>>

ReleaseShortcut(t) ==
  /\ rel[t] = "open"
  /\ task[t] = "ended"
  /\ stage[t] = "shortcut"
  /\ rel' = [rel EXCEPT ![t] = "done"]
  /\ slot' = ReleaseReservation
  /\ UNCHANGED <<stage, eng, task, cancelled, history, base, closeVars>>

(***************************************************************************)
(* close_runtime: take the turn out of the slot, wait for its task and its *)
(* forwarder or abort them at the deadline, then set the tombstone.        *)
(***************************************************************************)
\* The turn that the drain cancels: a finishing one has its terminal sent.
ToCancel == IF slot.st = "running" THEN {slot.turn} ELSE {}

TakeForDrain ==
  /\ closer = "none"
  /\ slot' = Idle
  /\ IF slot.st \in {"running", "finishing"}
       THEN closer' = "task" /\ drained' = slot.turn
       ELSE closer' = "tombstone" /\ drained' = NoTurn
  /\ cancelled' = cancelled \cup ToCancel
  /\ UNCHANGED <<turnVars, history, closed>>

DrainTask ==
  /\ closer = "task"
  /\ task[drained] = "ended"
  /\ closer' = "forwarder"
  /\ UNCHANGED <<turnVars, slot, cancelled, history, drained, closed>>

\* Mutant: the drain waits for the turn task without a deadline.
AbortTask_NoDeadline == FALSE /\ UNCHANGED vars

\* An aborted burst leaves its goal turn, which runs in a task of its own; one
\* that is aborted between two goal turns leaves none.
AbortTask ==
  /\ closer = "task"
  /\ task[drained] = "run"
  /\ closer' = "forwarder"
  /\ task' = [task EXCEPT ![drained] = "ended"]
  /\ \E e \in IF stage[drained] # "burst" THEN {"done"}
              ELSE IF eng[drained] = "running" THEN {"running"}
              ELSE {eng[drained], "done"} :
       eng' = [eng EXCEPT ![drained] = e]
  /\ base' = [base EXCEPT ![drained] = IF stage[drained] = "burst" THEN @ ELSE {}]
  /\ UNCHANGED <<stage, slot, rel, cancelled, history, drained, closed>>

DrainForwarder ==
  /\ closer = "forwarder"
  /\ rel[drained] = "done"
  /\ closer' = "tombstone"
  /\ UNCHANGED <<turnVars, slot, cancelled, history, drained, closed>>

AbortForwarder ==
  /\ closer = "forwarder"
  /\ stage[drained] = "user"
  /\ rel[drained] # "done"
  /\ closer' = "tombstone"
  /\ rel' = [rel EXCEPT ![drained] = "done"]
  /\ UNCHANGED <<stage, slot, eng, task, cancelled, history, base, drained, closed>>

\* A turn found in the slot is cancelled unless it is finishing.
CloseCoordinator ==
  /\ closer = "tombstone"
  /\ closer' = "done"
  /\ closed' = TRUE
  /\ cancelled' = cancelled \cup
       (IF slot.st \in {"running", "reserved"} THEN {slot.turn} ELSE {})
  /\ UNCHANGED <<turnVars, slot, history, drained>>

CloseStep == DrainTask \/ AbortTask \/ DrainForwarder \/ AbortForwarder
             \/ CloseCoordinator

TurnStep(t) ==
  \/ Resolve(t) \/ ProbeSlot(t) \/ AppendGoal(t) \/ StartTurn(t) \/ StartBurst(t)
  \/ Reserve(t) \/ Refuse(t) \/ ReadHistory(t) \/ CommitHistory(t) \/ GoalTurnDies(t)
  \/ TaskEnds(t) \/ TaskPanics(t) \/ ShortcutEnds(t)
  \/ Mark(t) \/ Complete(t) \/ ReleaseShortcut(t)

Next == (\E t \in Turns : TurnStep(t)) \/ Interrupt \/ TakeForDrain \/ CloseStep

Spec == Init /\ [][Next]_vars

\* Tasks that are ready are polled, and the drain has a deadline.  Engines
\* need not end.
Fairness ==
  /\ WF_vars(CloseStep)
  /\ \A t \in Turns : WF_vars(Mark(t) \/ Complete(t) \/ ReleaseShortcut(t))

FairSpec == Spec /\ Fairness

-----------------------------------------------------------------------------
Executing(t) == eng[t] \in {"building", "running"}
Releasing(t) == rel[t] \in {"open", "marked"}

\* The types of the state.
TurnTypeOK ==
  /\ stage \in [Turns -> {"new", "probed", "resolved", "refused",
                          "user", "burst", "shortcut"}]
  /\ slot \in [st : {"idle", "reserved", "running", "finishing"},
               turn : Turns \cup {NoTurn}]
  /\ eng \in [Turns -> {"none", "building", "running", "done"}]
  /\ task \in [Turns -> {"none", "run", "ended"}]
  /\ rel \in [Turns -> {"none", "open", "marked", "done"}]
  /\ cancelled \subseteq Turns
  /\ history \subseteq Entries
  /\ base \in [Turns -> SUBSET Entries]
  /\ closer \in {"none", "task", "forwarder", "tombstone", "done"}
  /\ drained \in Turns \cup {NoTurn}
  /\ closed \in BOOLEAN

\* Until the session is closed, whatever runs an engine holds the slot, so no
\* two engines run over the shared history (goal_driver.rs:98-100); and at any
\* time what is in the slot has its release still ahead of it: no panic, abort
\* or late release of another turn wedges it (goal_driver.rs:105-107).
SlotOwnership ==
  /\ closer = "none" => \A t \in Turns : Executing(t) => slot.turn = t
  /\ IsBusy => slot.turn \in Turns /\ Releasing(slot.turn)

\* What turns and shortcuts have written to the history.
Written(h) == {e \in h : e[2] # "goal"}

\* Until the session is closed, a replacement of the history never drops what
\* an earlier turn or shortcut wrote: the next turn reads the history after
\* the commit of the one before (session_turn_executor.rs, CS-2 / R13).
HistoryKept ==
  [][closer = "none" => Written(history) \subseteq Written(history')]_vars

\* A turn whose task has ended, by whatever way, leaves the slot; and a close
\* reaches its tombstone even when the engine it drains never stops.
TurnsEnd ==
  /\ \A t \in Turns : task[t] = "ended" ~> slot.turn # t
  /\ closer # "none" ~> closed

\* session_handle/mod.rs:97-100 of close_turn_coordinator: "Cancels a turn
\* admitted in the drain->close window so it cannot run detached against the
\* closing session."
WindowTurnCancelled ==
  closed => \A t \in Turns \ {drained} : Executing(t) => t \in cancelled

=============================================================================
