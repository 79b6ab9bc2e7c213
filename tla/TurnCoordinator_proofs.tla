----------------------- MODULE TurnCoordinator_proofs -----------------------
(***************************************************************************)
(* Proofs about TurnCoordinator, for any requests and bursts.              *)
(*                                                                         *)
(* TInv is inductive.  StageInv relates the variables of one turn, SlotInv *)
(* the slot to the turn in it, DrainInv the close to the turn it drains,   *)
(* and LiveInv says what holds only while the session is not being closed: *)
(* a turn that has not released the slot is the one in the slot, and an    *)
(* engine has read all that was written.                                   *)
(***************************************************************************)
EXTENDS TurnCoordinator, TLAPS

Engines == {"user", "burst"}

StageInv ==
  \A t \in Turns :
    /\ rel[t] = "none" \/ task[t] = "none" => stage[t] \notin Engines \cup {"shortcut"}
    /\ stage[t] \notin Engines \cup {"shortcut"} =>
         rel[t] = "none" /\ task[t] = "none"
    /\ Executing(t) => stage[t] \in Engines
    /\ task[t] = "run" => rel[t] = "open"
    /\ rel[t] = "marked" => task[t] = "ended" /\ stage[t] \in Engines

SlotInv ==
  /\ slot.st = "idle" <=> slot.turn = NoTurn
  /\ slot.turn # NoTurn => Releasing(slot.turn)
  /\ slot.st = "reserved" => stage[slot.turn] = "shortcut"
  /\ slot.st \in {"running", "finishing"} => stage[slot.turn] \in Engines
  /\ slot.turn # NoTurn /\ rel[slot.turn] = "marked" => slot.st = "finishing"

DrainInv ==
  /\ closer = "none" => drained = NoTurn
  /\ closer \in {"task", "forwarder"} => drained # NoTurn
  /\ closer = "forwarder" => task[drained] = "ended"
  /\ drained # NoTurn => stage[drained] \in Engines /\ slot.turn # drained

LiveInv ==
  closer = "none" => \A t \in Turns :
    /\ Releasing(t) => slot.turn = t
    /\ Executing(t) => task[t] = "run"
    /\ eng[t] = "running" => Written(history) \subseteq base[t]

TInv == TurnTypeOK /\ StageInv /\ SlotInv /\ DrainInv /\ LiveInv

LEMMA TurnsAreTurns == NoTurn \notin Turns /\ Requests \subseteq Turns /\ Bursts \subseteq Turns
BY TurnAssumption DEF Turns

LEMMA InitTInv == Init => TInv
<1> SUFFICES ASSUME Init PROVE TInv
  OBVIOUS
<1> USE TurnsAreTurns DEF Init, Idle
<1>1. TurnTypeOK
  BY DEF TurnTypeOK
<1>2. StageInv
  BY DEF StageInv, Engines, Executing
<1>3. SlotInv /\ DrainInv
  BY DEF SlotInv, DrainInv
<1>4. LiveInv
  BY DEF LiveInv, Executing, Releasing
<1> QED BY <1>1, <1>2, <1>3, <1>4 DEF TInv

\* A resolved request has no task and no slot yet.
LEMMA ResolveStep ==
  ASSUME TInv, NEW t \in Turns, Resolve(t)
  PROVE  TInv'
<1> USE TurnsAreTurns DEF TInv, Resolve, closeVars
<1>1. TurnTypeOK'
  BY DEF TurnTypeOK
<1>2. StageInv'
  BY DEF TurnTypeOK, StageInv, SlotInv, DrainInv, Engines, Executing
<1>3. SlotInv'
  BY DEF TurnTypeOK, StageInv, SlotInv, DrainInv, Engines, Releasing
<1>4. DrainInv'
  BY DEF TurnTypeOK, StageInv, SlotInv, DrainInv, Engines
<1>5. LiveInv'
  BY DEF TurnTypeOK, StageInv, SlotInv, DrainInv, LiveInv, Engines, Executing, Releasing, Written
<1> QED BY <1>1, <1>2, <1>3, <1>4, <1>5

\* Neither has a probed one.
LEMMA ProbeSlotStep ==
  ASSUME TInv, NEW t \in Turns, ProbeSlot(t)
  PROVE  TInv'
<1> USE TurnsAreTurns DEF TInv, ProbeSlot, closeVars, IsBusy
<1>1. TurnTypeOK'
  BY DEF TurnTypeOK
<1>2. StageInv'
  BY DEF TurnTypeOK, StageInv, SlotInv, DrainInv, Engines, Executing
<1>3. SlotInv'
  BY DEF TurnTypeOK, StageInv, SlotInv, DrainInv, Engines, Releasing
<1>4. DrainInv'
  BY DEF TurnTypeOK, StageInv, SlotInv, DrainInv, Engines
<1>5. LiveInv'
  BY DEF TurnTypeOK, StageInv, SlotInv, DrainInv, LiveInv, Engines, Executing, Releasing, Written
<1> QED BY <1>1, <1>2, <1>3, <1>4, <1>5

\* What a goal command appends is not counted among what turns wrote.
LEMMA AppendGoalStep ==
  ASSUME TInv, NEW t \in Turns, AppendGoal(t)
  PROVE  TInv'
<1> USE TurnsAreTurns DEF TInv, AppendGoal, closeVars, Written, Entries
<1>1. TurnTypeOK'
  BY DEF TurnTypeOK
<1>2. StageInv'
  BY DEF TurnTypeOK, StageInv, SlotInv, DrainInv, Engines, Executing
<1>3. SlotInv'
  BY DEF TurnTypeOK, StageInv, SlotInv, DrainInv, Engines, Releasing
<1>4. DrainInv'
  BY DEF TurnTypeOK, StageInv, SlotInv, DrainInv, Engines
<1>5. LiveInv'
  BY DEF TurnTypeOK, StageInv, SlotInv, DrainInv, LiveInv, Engines, Executing, Releasing
<1> QED BY <1>1, <1>2, <1>3, <1>4, <1>5

\* A turn is installed in an idle slot.
LEMMA StartTurnStep ==
  ASSUME TInv, NEW t \in Turns, StartTurn(t)
  PROVE  TInv'
<1> USE TurnsAreTurns DEF TInv, StartTurn, closeVars, Install, Admits, IsBusy, Slot
<1>1. TurnTypeOK'
  BY DEF TurnTypeOK
<1>2. StageInv'
  BY DEF TurnTypeOK, StageInv, SlotInv, DrainInv, Engines, Executing
<1>3. SlotInv'
  BY DEF TurnTypeOK, StageInv, SlotInv, DrainInv, Engines, Releasing
<1>4. DrainInv'
  BY DEF TurnTypeOK, StageInv, SlotInv, DrainInv, Engines
<1>5. LiveInv'
  BY DEF TurnTypeOK, StageInv, SlotInv, DrainInv, LiveInv, Engines, Executing, Releasing, Written
<1> QED BY <1>1, <1>2, <1>3, <1>4, <1>5

\* So is a burst.
LEMMA StartBurstStep ==
  ASSUME TInv, NEW t \in Turns, StartBurst(t)
  PROVE  TInv'
<1> USE TurnsAreTurns DEF TInv, StartBurst, closeVars, Install, Admits, IsBusy, Slot
<1>1. TurnTypeOK'
  BY DEF TurnTypeOK
<1>2. StageInv'
  BY DEF TurnTypeOK, StageInv, SlotInv, DrainInv, Engines, Executing
<1>3. SlotInv'
  BY DEF TurnTypeOK, StageInv, SlotInv, DrainInv, Engines, Releasing
<1>4. DrainInv'
  BY DEF TurnTypeOK, StageInv, SlotInv, DrainInv, Engines
<1>5. LiveInv'
  BY DEF TurnTypeOK, StageInv, SlotInv, DrainInv, LiveInv, Engines, Executing, Releasing, Written
<1> QED BY <1>1, <1>2, <1>3, <1>4, <1>5

\* So is a shortcut.
LEMMA ReserveStep ==
  ASSUME TInv, NEW t \in Turns, Reserve(t)
  PROVE  TInv'
<1> USE TurnsAreTurns DEF TInv, Reserve, closeVars, Admits, IsBusy, Slot
<1>1. TurnTypeOK'
  BY DEF TurnTypeOK
<1>2. StageInv'
  BY DEF TurnTypeOK, StageInv, SlotInv, DrainInv, Engines, Executing
<1>3. SlotInv'
  BY DEF TurnTypeOK, StageInv, SlotInv, DrainInv, Engines, Releasing
<1>4. DrainInv'
  BY DEF TurnTypeOK, StageInv, SlotInv, DrainInv, Engines
<1>5. LiveInv'
  BY DEF TurnTypeOK, StageInv, SlotInv, DrainInv, LiveInv, Engines, Executing, Releasing, Written
<1> QED BY <1>1, <1>2, <1>3, <1>4, <1>5

\* A refused request never gets a task.
LEMMA RefuseStep ==
  ASSUME TInv, NEW t \in Turns, Refuse(t)
  PROVE  TInv'
<1> USE TurnsAreTurns DEF TInv, Refuse, closeVars
<1>1. TurnTypeOK'
  BY DEF TurnTypeOK
<1>2. StageInv'
  BY DEF TurnTypeOK, StageInv, SlotInv, DrainInv, Engines, Executing
<1>3. SlotInv'
  BY DEF TurnTypeOK, StageInv, SlotInv, DrainInv, Engines, Releasing
<1>4. DrainInv'
  BY DEF TurnTypeOK, StageInv, SlotInv, DrainInv, Engines
<1>5. LiveInv'
  BY DEF TurnTypeOK, StageInv, SlotInv, DrainInv, LiveInv, Engines, Executing, Releasing, Written
<1> QED BY <1>1, <1>2, <1>3, <1>4, <1>5

\* The turn in the slot is a turn.
LEMMA InterruptStep ==
  ASSUME TInv, Interrupt
  PROVE  TInv'
<1> USE TurnsAreTurns DEF TInv, Interrupt, closeVars, turnVars, IsBusy
<1>1. TurnTypeOK'
  BY DEF TurnTypeOK, SlotInv
<1>2. StageInv'
  BY DEF TurnTypeOK, StageInv, SlotInv, DrainInv, Engines, Executing
<1>3. SlotInv'
  BY DEF TurnTypeOK, StageInv, SlotInv, DrainInv, Engines, Releasing
<1>4. DrainInv'
  BY DEF TurnTypeOK, StageInv, SlotInv, DrainInv, Engines
<1>5. LiveInv'
  BY DEF TurnTypeOK, StageInv, SlotInv, DrainInv, LiveInv, Engines, Executing, Releasing, Written
<1> QED BY <1>1, <1>2, <1>3, <1>4, <1>5

\* An engine reads all that is written; before a close it is the only one.
LEMMA ReadHistoryStep ==
  ASSUME TInv, NEW t \in Turns, ReadHistory(t)
  PROVE  TInv'
<1> USE TurnsAreTurns DEF TInv, ReadHistory, closeVars, Written, Entries
<1>1. TurnTypeOK'
  BY DEF TurnTypeOK
<1>2. StageInv'
  BY DEF TurnTypeOK, StageInv, SlotInv, DrainInv, Engines, Executing
<1>3. SlotInv'
  BY DEF TurnTypeOK, StageInv, SlotInv, DrainInv, Engines, Releasing
<1>4. DrainInv'
  BY DEF TurnTypeOK, StageInv, SlotInv, DrainInv, Engines
<1>5. LiveInv'
  BY DEF TurnTypeOK, StageInv, SlotInv, DrainInv, LiveInv, Engines, Executing, Releasing
<1> QED BY <1>1, <1>2, <1>3, <1>4, <1>5

\* Before a close no other engine runs when one commits.
LEMMA CommitHistoryStep ==
  ASSUME TInv, NEW t \in Turns, CommitHistory(t)
  PROVE  TInv'
<1> USE TurnsAreTurns DEF TInv, CommitHistory, closeVars, Written, Entries, NextEngine
<1>1. TurnTypeOK'
  BY DEF TurnTypeOK
<1>2. StageInv'
  BY DEF TurnTypeOK, StageInv, SlotInv, DrainInv, Engines, Executing
<1>3. SlotInv'
  BY DEF TurnTypeOK, StageInv, SlotInv, DrainInv, Engines, Releasing
<1>4. DrainInv'
  BY DEF TurnTypeOK, StageInv, SlotInv, DrainInv, Engines
<1>5. LiveInv'
  BY DEF TurnTypeOK, StageInv, SlotInv, DrainInv, LiveInv, Engines, Executing, Releasing
<1> QED BY <1>1, <1>2, <1>3, <1>4, <1>5

\* A dead goal turn writes nothing.
LEMMA GoalTurnDiesStep ==
  ASSUME TInv, NEW t \in Turns, GoalTurnDies(t)
  PROVE  TInv'
<1> USE TurnsAreTurns DEF TInv, GoalTurnDies, closeVars, NextEngine
<1>1. TurnTypeOK'
  BY DEF TurnTypeOK
<1>2. StageInv'
  BY DEF TurnTypeOK, StageInv, SlotInv, DrainInv, Engines, Executing
<1>3. SlotInv'
  BY DEF TurnTypeOK, StageInv, SlotInv, DrainInv, Engines, Releasing
<1>4. DrainInv'
  BY DEF TurnTypeOK, StageInv, SlotInv, DrainInv, Engines
<1>5. LiveInv'
  BY DEF TurnTypeOK, StageInv, SlotInv, DrainInv, LiveInv, Engines, Executing, Releasing, Written
<1> QED BY <1>1, <1>2, <1>3, <1>4, <1>5

\* The end of a task leaves the release ahead.
LEMMA TaskEndsStep ==
  ASSUME TInv, NEW t \in Turns, TaskEnds(t)
  PROVE  TInv'
<1> USE TurnsAreTurns DEF TInv, TaskEnds, closeVars
<1>1. TurnTypeOK'
  BY DEF TurnTypeOK
<1>2. StageInv'
  BY DEF TurnTypeOK, StageInv, SlotInv, DrainInv, Engines, Executing
<1>3. SlotInv'
  BY DEF TurnTypeOK, StageInv, SlotInv, DrainInv, Engines, Releasing
<1>4. DrainInv'
  BY DEF TurnTypeOK, StageInv, SlotInv, DrainInv, Engines
<1>5. LiveInv'
  BY DEF TurnTypeOK, StageInv, SlotInv, DrainInv, LiveInv, Engines, Executing, Releasing, Written
<1> QED BY <1>1, <1>2, <1>3, <1>4, <1>5

\* So does its panic.
LEMMA TaskPanicsStep ==
  ASSUME TInv, NEW t \in Turns, TaskPanics(t)
  PROVE  TInv'
<1> USE TurnsAreTurns DEF TInv, TaskPanics, closeVars
<1>1. TurnTypeOK'
  BY DEF TurnTypeOK
<1>2. StageInv'
  BY DEF TurnTypeOK, StageInv, SlotInv, DrainInv, Engines, Executing
<1>3. SlotInv'
  BY DEF TurnTypeOK, StageInv, SlotInv, DrainInv, Engines, Releasing
<1>4. DrainInv'
  BY DEF TurnTypeOK, StageInv, SlotInv, DrainInv, Engines
<1>5. LiveInv'
  BY DEF TurnTypeOK, StageInv, SlotInv, DrainInv, LiveInv, Engines, Executing, Releasing, Written
<1> QED BY <1>1, <1>2, <1>3, <1>4, <1>5

\* Before a close no engine runs beside a shortcut.
LEMMA ShortcutEndsStep ==
  ASSUME TInv, NEW t \in Turns, ShortcutEnds(t)
  PROVE  TInv'
<1> USE TurnsAreTurns DEF TInv, ShortcutEnds, closeVars, Written, Entries
<1>1. TurnTypeOK'
  BY DEF TurnTypeOK
<1>2. StageInv'
  BY DEF TurnTypeOK, StageInv, SlotInv, DrainInv, Engines, Executing
<1>3. SlotInv'
  BY DEF TurnTypeOK, StageInv, SlotInv, DrainInv, Engines, Releasing
<1>4. DrainInv'
  BY DEF TurnTypeOK, StageInv, SlotInv, DrainInv, Engines
<1>5. LiveInv'
  BY DEF TurnTypeOK, StageInv, SlotInv, DrainInv, LiveInv, Engines, Executing, Releasing
<1> QED BY <1>1, <1>2, <1>3, <1>4, <1>5

\* A late mark of a drained turn may hit another turn, which stays to be released.
LEMMA MarkStep ==
  ASSUME TInv, NEW t \in Turns, Mark(t)
  PROVE  TInv'
<1> USE TurnsAreTurns DEF TInv, Mark, closeVars, MarkFinishing, Slot
<1>1. TurnTypeOK'
  BY DEF TurnTypeOK
<1>2. StageInv'
  BY DEF TurnTypeOK, StageInv, SlotInv, DrainInv, Engines, Executing
<1>3. SlotInv'
  BY DEF TurnTypeOK, StageInv, SlotInv, DrainInv, Engines, Releasing
<1>4. DrainInv'
  BY DEF TurnTypeOK, StageInv, SlotInv, DrainInv, Engines
<1>5. LiveInv'
  BY DEF TurnTypeOK, StageInv, SlotInv, DrainInv, LiveInv, Engines, Executing, Releasing, Written
<1> QED BY <1>1, <1>2, <1>3, <1>4, <1>5

\* A turn that completes is no longer in the slot.
LEMMA CompleteStep ==
  ASSUME TInv, NEW t \in Turns, Complete(t)
  PROVE  TInv'
<1> USE TurnsAreTurns DEF TInv, Complete, closeVars, CompleteFinishing, Idle
<1>1. TurnTypeOK'
  BY DEF TurnTypeOK
<1>2. StageInv'
  BY DEF TurnTypeOK, StageInv, SlotInv, DrainInv, Engines, Executing
<1>3. SlotInv'
  BY DEF TurnTypeOK, StageInv, SlotInv, DrainInv, Engines, Releasing
<1>4. DrainInv'
  BY DEF TurnTypeOK, StageInv, SlotInv, DrainInv, Engines
<1>5. LiveInv'
  BY DEF TurnTypeOK, StageInv, SlotInv, DrainInv, LiveInv, Engines, Executing, Releasing, Written
<1> QED BY <1>1, <1>2, <1>3, <1>4, <1>5

\* Nor is a shortcut whose guard is dropped.
LEMMA ReleaseShortcutStep ==
  ASSUME TInv, NEW t \in Turns, ReleaseShortcut(t)
  PROVE  TInv'
<1> USE TurnsAreTurns DEF TInv, ReleaseShortcut, closeVars, ReleaseReservation, Idle
<1>1. TurnTypeOK'
  BY DEF TurnTypeOK
<1>2. StageInv'
  BY DEF TurnTypeOK, StageInv, SlotInv, DrainInv, Engines, Executing
<1>3. SlotInv'
  BY DEF TurnTypeOK, StageInv, SlotInv, DrainInv, Engines, Releasing
<1>4. DrainInv'
  BY DEF TurnTypeOK, StageInv, SlotInv, DrainInv, Engines
<1>5. LiveInv'
  BY DEF TurnTypeOK, StageInv, SlotInv, DrainInv, LiveInv, Engines, Executing, Releasing, Written
<1> QED BY <1>1, <1>2, <1>3, <1>4, <1>5

\* The drained turn is taken out of the slot.
LEMMA TakeForDrainStep ==
  ASSUME TInv, TakeForDrain
  PROVE  TInv'
<1> USE TurnsAreTurns DEF TInv, TakeForDrain, turnVars, Idle, ToCancel
<1>1. TurnTypeOK'
  BY DEF TurnTypeOK, SlotInv
<1>2. StageInv'
  BY DEF TurnTypeOK, StageInv, SlotInv, DrainInv, Engines, Executing
<1>3. SlotInv'
  BY DEF TurnTypeOK, StageInv, SlotInv, DrainInv, Engines, Releasing
<1>4. DrainInv'
  BY DEF TurnTypeOK, StageInv, SlotInv, DrainInv, Engines
<1>5. LiveInv'
  BY DEF TurnTypeOK, StageInv, SlotInv, DrainInv, LiveInv, Engines, Executing, Releasing, Written
<1> QED BY <1>1, <1>2, <1>3, <1>4, <1>5

\* The drain waits for the task, then for the forwarder.
LEMMA DrainTaskStep ==
  ASSUME TInv, DrainTask
  PROVE  TInv'
<1> USE TurnsAreTurns DEF TInv, DrainTask, turnVars
<1>1. TurnTypeOK'
  BY DEF TurnTypeOK
<1>2. StageInv'
  BY DEF TurnTypeOK, StageInv, SlotInv, DrainInv, Engines, Executing
<1>3. SlotInv'
  BY DEF TurnTypeOK, StageInv, SlotInv, DrainInv, Engines, Releasing
<1>4. DrainInv'
  BY DEF TurnTypeOK, StageInv, SlotInv, DrainInv, Engines
<1>5. LiveInv'
  BY DEF TurnTypeOK, StageInv, SlotInv, DrainInv, LiveInv, Engines, Executing, Releasing, Written
<1> QED BY <1>1, <1>2, <1>3, <1>4, <1>5

\* An abort ends the task.
LEMMA AbortTaskStep ==
  ASSUME TInv, AbortTask
  PROVE  TInv'
<1> USE TurnsAreTurns DEF TInv, AbortTask
<1>1. TurnTypeOK'
  BY DEF TurnTypeOK
<1>2. StageInv'
  BY DEF TurnTypeOK, StageInv, SlotInv, DrainInv, Engines, Executing
<1>3. SlotInv'
  BY DEF TurnTypeOK, StageInv, SlotInv, DrainInv, Engines, Releasing
<1>4. DrainInv'
  BY DEF TurnTypeOK, StageInv, SlotInv, DrainInv, Engines
<1>5. LiveInv'
  BY DEF TurnTypeOK, StageInv, SlotInv, DrainInv, LiveInv, Engines, Executing, Releasing, Written
<1> QED BY <1>1, <1>2, <1>3, <1>4, <1>5

\* The drained turn has released.
LEMMA DrainForwarderStep ==
  ASSUME TInv, DrainForwarder
  PROVE  TInv'
<1> USE TurnsAreTurns DEF TInv, DrainForwarder, turnVars
<1>1. TurnTypeOK'
  BY DEF TurnTypeOK
<1>2. StageInv'
  BY DEF TurnTypeOK, StageInv, SlotInv, DrainInv, Engines, Executing
<1>3. SlotInv'
  BY DEF TurnTypeOK, StageInv, SlotInv, DrainInv, Engines, Releasing
<1>4. DrainInv'
  BY DEF TurnTypeOK, StageInv, SlotInv, DrainInv, Engines
<1>5. LiveInv'
  BY DEF TurnTypeOK, StageInv, SlotInv, DrainInv, LiveInv, Engines, Executing, Releasing, Written
<1> QED BY <1>1, <1>2, <1>3, <1>4, <1>5

\* The aborted forwarder belongs to a turn that is not in the slot.
LEMMA AbortForwarderStep ==
  ASSUME TInv, AbortForwarder
  PROVE  TInv'
<1> USE TurnsAreTurns DEF TInv, AbortForwarder
<1>1. TurnTypeOK'
  BY DEF TurnTypeOK
<1>2. StageInv'
  BY DEF TurnTypeOK, StageInv, SlotInv, DrainInv, Engines, Executing
<1>3. SlotInv'
  BY DEF TurnTypeOK, StageInv, SlotInv, DrainInv, Engines, Releasing
<1>4. DrainInv'
  BY DEF TurnTypeOK, StageInv, SlotInv, DrainInv, Engines
<1>5. LiveInv'
  BY DEF TurnTypeOK, StageInv, SlotInv, DrainInv, LiveInv, Engines, Executing, Releasing, Written
<1> QED BY <1>1, <1>2, <1>3, <1>4, <1>5

\* The tombstone leaves the slot as it is.
LEMMA CloseCoordinatorStep ==
  ASSUME TInv, CloseCoordinator
  PROVE  TInv'
<1> USE TurnsAreTurns DEF TInv, CloseCoordinator, turnVars
<1>1. TurnTypeOK'
  BY DEF TurnTypeOK, SlotInv
<1>2. StageInv'
  BY DEF TurnTypeOK, StageInv, SlotInv, DrainInv, Engines, Executing
<1>3. SlotInv'
  BY DEF TurnTypeOK, StageInv, SlotInv, DrainInv, Engines, Releasing
<1>4. DrainInv'
  BY DEF TurnTypeOK, StageInv, SlotInv, DrainInv, Engines
<1>5. LiveInv'
  BY DEF TurnTypeOK, StageInv, SlotInv, DrainInv, LiveInv, Engines, Executing, Releasing, Written
<1> QED BY <1>1, <1>2, <1>3, <1>4, <1>5

\* TInv is an invariant.
THEOREM TurnInvariant == Spec => []TInv
<1>1. TInv /\ [Next]_vars => TInv'
  <2> SUFFICES ASSUME TInv, [Next]_vars PROVE TInv'
    OBVIOUS
  <2>1. ASSUME NEW t \in Turns, TurnStep(t) PROVE TInv'
    BY <2>1, ResolveStep, ProbeSlotStep, AppendGoalStep, StartTurnStep, StartBurstStep, ReserveStep, RefuseStep, ReadHistoryStep, CommitHistoryStep, GoalTurnDiesStep, TaskEndsStep, TaskPanicsStep, ShortcutEndsStep, MarkStep, CompleteStep, ReleaseShortcutStep DEF TurnStep
  <2>2. CASE Interrupt BY <2>2, InterruptStep
  <2>3. CASE TakeForDrain BY <2>3, TakeForDrainStep
  <2>4. CASE CloseStep
    BY <2>4, DrainTaskStep, AbortTaskStep, DrainForwarderStep, AbortForwarderStep,
       CloseCoordinatorStep DEF CloseStep
  <2>5. CASE UNCHANGED vars
    BY <2>5 DEF vars, TInv, TurnTypeOK, StageInv, SlotInv, DrainInv, LiveInv, Engines,
       Executing, Releasing, Written
  <2> QED BY <2>1, <2>2, <2>3, <2>4, <2>5 DEF Next
<1> QED BY <1>1, InitTInv, PTL DEF Spec

\* The types are kept (TurnTypeOK).
THEOREM TurnTypeCorrect == Spec => []TurnTypeOK
<1>1. TInv => TurnTypeOK BY DEF TInv
<1> QED BY <1>1, TurnInvariant, PTL

\* For any number of requests and bursts, only the turn in the slot runs an
\* engine until the session is closed, and no slot is wedged: whatever is in it
\* has its release ahead, also when a drained turn's late release hits it
\* (mark_finishing and complete_finishing of turn.rs).
THEOREM SlotOwned == Spec => []SlotOwnership
<1>1. TInv => SlotOwnership
  BY TurnsAreTurns DEF TInv, TurnTypeOK, StageInv, SlotInv, LiveInv, SlotOwnership, IsBusy,
     Executing, Releasing
<1> QED BY <1>1, TurnInvariant, PTL

\* For any number of requests and bursts, no commit drops what an earlier turn
\* wrote, until the session is closed (commit_engine_turn_history replaces the
\* whole history, the executor sends the terminal after it).
THEOREM HistoryNotLost == Spec => HistoryKept
<1>1. TInv /\ [Next]_vars => [closer = "none" => Written(history) \subseteq Written(history')]_vars
  <2> SUFFICES ASSUME TInv, Next, closer = "none"
               PROVE  Written(history) \subseteq Written(history')
    BY DEF Written
  <2>1. ASSUME NEW t \in Turns, CommitHistory(t)
        PROVE  Written(history) \subseteq Written(history')
    BY <2>1 DEF CommitHistory, TInv, LiveInv, Written
  <2>2. ASSUME history \subseteq history'
        PROVE  Written(history) \subseteq Written(history')
    BY <2>2 DEF Written
  <2>3. ASSUME NEW t \in Turns, TurnStep(t), ~CommitHistory(t)
        PROVE  history \subseteq history'
    BY <2>3 DEF TurnStep, Resolve, ProbeSlot, AppendGoal, StartTurn, StartBurst, Install, Reserve,
       Refuse, ReadHistory, GoalTurnDies, TaskEnds, TaskPanics, ShortcutEnds, Mark, Complete,
       ReleaseShortcut
  <2>4. ASSUME Interrupt \/ TakeForDrain \/ CloseStep
        PROVE  history \subseteq history'
    BY <2>4 DEF Interrupt, TakeForDrain, CloseStep, DrainTask, AbortTask, DrainForwarder,
       AbortForwarder, CloseCoordinator, turnVars
  <2> QED BY <2>1, <2>2, <2>3, <2>4 DEF Next
<1> QED BY <1>1, TurnInvariant, PTL DEF Spec, HistoryKept

=============================================================================
