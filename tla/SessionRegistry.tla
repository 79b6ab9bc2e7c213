-------------------------- MODULE SessionRegistry --------------------------
(***************************************************************************)
(* The live-session registry of the app server and the lifecycle owner     *)
(* tasks that move its slots.                                              *)
(*                                                                         *)
(* Source: app/server/src/registry.rs (LiveSessionRegistry) and            *)
(* app/server/src/app_server.rs (spawn_load, spawn_child_load,             *)
(* spawn_close, spawn_replace, spawn_replace_to_live, spawn_shutdown,      *)
(* abort_and_join_owner_tasks and OwnerGuard).                             *)
(*                                                                         *)
(* One action is one critical section of the registry lock, or one poll of *)
(* an owner task between two awaits.  Three abstractions:                  *)
(*  - a session handle is the fact that the session's runtime is up;       *)
(*  - a completion (a tokio watch channel) is the set of tasks that still  *)
(*    wait for it.  The sender lives in the slot and fires exactly when    *)
(*    the slot is forgotten, so a waiter is released by that step;         *)
(*  - whether the calling connection may commit a replacement is decided   *)
(*    by the routing table, which is not part of this module: the commit   *)
(*    may be refused at any time.                                          *)
(***************************************************************************)
EXTENDS Naturals, FiniteSets

CONSTANTS
  Roots,            \* ids of durable top-level conversations
  Children,         \* ids generated for side-chat children
  NoSession,        \* the absent id
  MaxSessions,      \* max_sessions of the registry
  Deletable,        \* roots a session/delete is tried on (bound of the instance)
  ShutdownAllowed   \* may the process shut down in this instance?

ASSUME ConstantsAssumption ==
  /\ IsFiniteSet(Roots) /\ IsFiniteSet(Children)
  /\ Roots \cap Children = {}
  /\ NoSession \notin Roots \cup Children
  /\ MaxSessions \in Nat \ {0}
  /\ Deletable \subseteq Roots
  /\ ShutdownAllowed \in BOOLEAN

Sessions == Roots \cup Children
MaybeSession == Sessions \cup {NoSession}
MaybeRoot == Roots \cup {NoSession}

VARIABLES
  slots,             \* lifecycle slot of each id ("Absent": no slot)
  close_after_load,  \* Loading slots on which a close has been recorded
  parentOf,          \* registration policy: the parent of a Child slot
  children,          \* parent -> child index
  blocked_parents,   \* parents whose close/replace transaction has begun
  deleting,          \* ids whose durable state is being deleted
  loader,            \* owner task of a Loading slot
  closer,            \* owner task of a closing slot
  repoint,           \* spawn_replace_to_live calls between their two critical sections
  runtimes,          \* sessions whose runtime is constructed and not torn down
  leaked,            \* of those, the ones whose owner task died holding the handle
  phase,             \* process shutdown progress
  toClose,           \* shutdown snapshot still to be closed
  toAwait            \* close completions the shutdown still waits for

regVars   == <<slots, close_after_load, parentOf, children, blocked_parents>>
taskVars  == <<loader, closer, repoint>>
runVars   == <<runtimes, leaked>>
stopVars  == <<phase, toClose, toAwait>>
vars == <<regVars, deleting, taskVars, runVars, stopVars>>

(***************************************************************************)
(* Owner tasks.  "unarmed": spawned, but its OwnerGuard does not exist yet *)
(* (it is built by the first poll, and for a close recorded on a Loading   *)
(* slot only after the load completed).                                    *)
(***************************************************************************)
LoadStage  == {"none", "unarmed", "factory", "built", "teardown"}
CloseStage == {"none", "unarmed", "await_child", "closing"}

LoaderRec == [stage : LoadStage, old : MaybeRoot, wait : MaybeSession, doomed : BOOLEAN]
CloserRec == [stage : CloseStage, cause : {"close", "replace"}, wait : MaybeSession,
              doomed : BOOLEAN]
RepointRec == [new : MaybeRoot, wait : MaybeSession]

Loader(stage, old, wait, doomed) ==
  [stage |-> stage, old |-> old, wait |-> wait, doomed |-> doomed]
Closer(stage, cause, wait, doomed) ==
  [stage |-> stage, cause |-> cause, wait |-> wait, doomed |-> doomed]
Repoint(new, wait) == [new |-> new, wait |-> wait]

NoLoader == Loader("none", NoSession, NoSession, FALSE)
NoCloser == Closer("none", "close", NoSession, FALSE)
NoRepoint == Repoint(NoSession, NoSession)

\* Owner tasks of s moved to another stage.
LoaderAt(s, stage) ==
  [loader EXCEPT ![s] = Loader(stage, loader[s].old, loader[s].wait, loader[s].doomed)]
CloserAt(s, stage) ==
  [closer EXCEPT ![s] = Closer(stage, closer[s].cause, closer[s].wait, closer[s].doomed)]

Occupied == {s \in Sessions : slots[s] # "Absent"}
ChildOf(s) == IF s \in Roots THEN children[s] ELSE NoSession

Init ==
  /\ slots = [s \in Sessions |-> "Absent"]
  /\ close_after_load = {}
  /\ parentOf = [s \in Sessions |-> NoSession]
  /\ children = [p \in Roots |-> NoSession]
  /\ blocked_parents = {}
  /\ deleting = {}
  /\ loader = [s \in Sessions |-> NoLoader]
  /\ closer = [s \in Sessions |-> NoCloser]
  /\ repoint = [p \in Roots |-> NoRepoint]
  /\ runtimes = {}
  /\ leaked = {}
  /\ phase = "serving"
  /\ toClose = {}
  /\ toAwait = {}

-----------------------------------------------------------------------------
(* Retiring a slot: `forget`, and the completions that fire with it. *)

\* Every owner task and repoint call that waits for the close of s is released.
WakeLoaders(L, s) ==
  [x \in Sessions |->
     IF L[x].wait = s THEN Loader(L[x].stage, L[x].old, NoSession, L[x].doomed) ELSE L[x]]

WakeClosers(C, s) ==
  [x \in Sessions |->
     IF C[x].wait = s THEN Closer(C[x].stage, C[x].cause, NoSession, C[x].doomed) ELSE C[x]]

WakeRepoints(s) ==
  [p \in Roots |->
     IF repoint[p].wait = s THEN Repoint(repoint[p].new, NoSession) ELSE repoint[p]]

\* Fault: the index keeps naming a retired child.
ChildrenWithout_Stale(s) == children

\* children without the entry of s, if the index still names s.
ChildrenWithout(s) ==
  [p \in Roots |-> IF p = parentOf[s] /\ children[p] = s THEN NoSession ELSE children[p]]

\* L and C are the owner tables once this step's own task has ended, and
\* unblock the parents whose child admission this step reopens.
Forget(s, L, C, unblock) ==
  /\ slots' = [slots EXCEPT ![s] = "Absent"]
  /\ close_after_load' = close_after_load \ {s}
  /\ parentOf' = [parentOf EXCEPT ![s] = NoSession]
  /\ children' = ChildrenWithout(s)
  /\ blocked_parents' = blocked_parents \ ({s} \cup unblock)
  /\ loader' = WakeLoaders(L, s)
  /\ closer' = WakeClosers(C, s)
  /\ repoint' = WakeRepoints(s)
  /\ toAwait' = toAwait \ {s}

\* Fault: the close owner that waits for a failed load is left behind.
FailLoad_KeepsCloser(s, unblock) ==
  /\ slots[s] = "Loading"
  /\ Forget(s, [loader EXCEPT ![s] = NoLoader], closer, unblock)

\* complete_load_failure: the close owner that waits for this load ends with it.
FailLoad(s, unblock) ==
  /\ slots[s] = "Loading"
  /\ Forget(s, [loader EXCEPT ![s] = NoLoader], [closer EXCEPT ![s] = NoCloser], unblock)

\* complete_session_close
FinishClose(s) ==
  /\ slots[s] = "Closing"
  /\ Forget(s, loader, [closer EXCEPT ![s] = NoCloser], {})

\* Fault: the recorded close is dropped by a blind Live insert.
Promote_Blind(s) == "Live"

\* LoadState::promote: a close recorded while loading is honoured here.
Promote(s) == IF s \in close_after_load THEN "Closing" ELSE "Live"

-----------------------------------------------------------------------------
(* begin_close_locked over a set T of sessions, in one critical section. *)

\* Fault: a close recorded on a Loading slot gets no owner task.
NeedsCloser_LiveOnly(x) == slots[x] = "Live"

NeedsCloser(x) ==
  \/ slots[x] = "Live"
  \/ slots[x] = "Loading" /\ x \notin close_after_load

ClosedSlots(T) ==
  [x \in Sessions |-> IF x \in T /\ slots[x] = "Live" THEN "Closing" ELSE slots[x]]

ClosesRecorded(T) == close_after_load \cup {x \in T : slots[x] = "Loading"}

\* Fault: the parent's close does not wait for the child's.
CloseOwners_NoWait(T, s, w) ==
  [x \in Sessions |->
     IF x \in T /\ NeedsCloser(x) THEN Closer("unarmed", "close", NoSession, FALSE)
     ELSE closer[x]]

\* spawn_close_from_start: a new owner task for each transition that needs one;
\* the task of s first waits for the close of the session w.
CloseOwners(T, s, w) ==
  [x \in Sessions |->
     IF x \in T /\ NeedsCloser(x)
     THEN Closer("unarmed", "close", IF x = s THEN w ELSE NoSession, FALSE)
     ELSE closer[x]]

-----------------------------------------------------------------------------
(* Reservation. *)

\* Fault: the capacity test admits one session too many.
HasCapacity_OffByOne == Cardinality(Occupied) <= MaxSessions

HasCapacity == Cardinality(Occupied) < MaxSessions

SpawnLoad(s) ==
  /\ slots[s] = "Absent"
  /\ s \notin deleting
  /\ HasCapacity
  /\ slots' = [slots EXCEPT ![s] = "Loading"]
  /\ parentOf' = [parentOf EXCEPT ![s] = NoSession]
  /\ loader' = [loader EXCEPT ![s] = Loader("unarmed", NoSession, NoSession, FALSE)]
  /\ UNCHANGED <<close_after_load, children, blocked_parents, deleting, closer, repoint,
                 runVars, stopVars>>

SpawnChildLoad(p, c) ==
  /\ slots[p] = "Live"
  /\ p \notin blocked_parents
  /\ children[p] = NoSession
  /\ slots[c] = "Absent"
  /\ c \notin deleting
  /\ HasCapacity
  /\ slots' = [slots EXCEPT ![c] = "Loading"]
  /\ parentOf' = [parentOf EXCEPT ![c] = p]
  /\ children' = [children EXCEPT ![p] = c]
  /\ loader' = [loader EXCEPT ![c] = Loader("unarmed", NoSession, NoSession, FALSE)]
  /\ UNCHANGED <<close_after_load, blocked_parents, deleting, closer, repoint,
                 runVars, stopVars>>

\* Fault: a replacement may reserve an id that is being deleted.
ReservableForReplace_Any(n) == slots[n] = "Absent"

ReservableForReplace(n) == slots[n] = "Absent" /\ n \notin deleting

\* begin_replace: no max_sessions check, the destination inherits the policy.
SpawnReplace(o, n) ==
  LET T == {ChildOf(o)} \ {NoSession} IN
  /\ slots[o] = "Live"
  /\ ReservableForReplace(n)
  /\ slots' = [ClosedSlots(T) EXCEPT ![n] = "Loading"]
  /\ close_after_load' = ClosesRecorded(T)
  /\ closer' = CloseOwners(T, NoSession, NoSession)
  /\ blocked_parents' = blocked_parents \cup {o}
  /\ parentOf' = [parentOf EXCEPT ![n] = parentOf[o]]
  /\ loader' = [loader EXCEPT ![n] = Loader("unarmed", o, ChildOf(o), FALSE)]
  /\ UNCHANGED <<children, deleting, repoint, runVars, stopVars>>

-----------------------------------------------------------------------------
(* The load owner task. *)

\* First poll: the guard exists from here on.
ArmLoader(s) ==
  /\ loader[s].stage = "unarmed"
  /\ loader' = LoaderAt(s, "factory")
  /\ UNCHANGED <<regVars, deleting, closer, repoint, runVars, stopVars>>

ParentAccepts(s) ==
  parentOf[s] # NoSession =>
    \/ slots[parentOf[s]] = "Live" /\ parentOf[s] \notin blocked_parents
    \/ s \in close_after_load

\* Fault: a second runtime is built for an id whose runtime is still up.
Constructed_NoLease(s) ==
  /\ loader[s].stage = "factory"
  /\ runtimes' = runtimes \cup {s}
  /\ UNCHANGED leaked

\* The factory succeeded.  The session write lease admits one runtime per id.
Constructed(s) ==
  /\ loader[s].stage = "factory"
  /\ s \notin runtimes
  /\ runtimes' = runtimes \cup {s}
  /\ UNCHANGED leaked

\* complete_load_success accepted the handle.
CommitLoad(s) ==
  /\ Constructed(s)
  /\ loader[s].old = NoSession
  /\ slots[s] = "Loading"
  /\ ParentAccepts(s)
  /\ slots' = [slots EXCEPT ![s] = Promote(s)]
  /\ close_after_load' = close_after_load \ {s}
  /\ loader' = [loader EXCEPT ![s] = NoLoader]
  /\ UNCHANGED <<parentOf, children, blocked_parents, deleting, closer, repoint, stopVars>>

\* complete_load_success handed the handle back: the owner tears it down.
RefuseLoad(s) ==
  /\ Constructed(s)
  /\ loader[s].old = NoSession
  /\ ~ParentAccepts(s)
  /\ loader' = LoaderAt(s, "teardown")
  /\ UNCHANGED <<regVars, deleting, closer, repoint, stopVars>>

\* The replacement's factory succeeded; the owner now waits for the source's child.
BuildReplacement(n) ==
  /\ Constructed(n)
  /\ loader[n].old # NoSession
  /\ loader' = LoaderAt(n, "built")
  /\ UNCHANGED <<regVars, deleting, closer, repoint, stopVars>>

\* commit_replace_for_connection: the owner task goes on as the source's close owner.
CommitReplace(n) ==
  LET o == loader[n].old IN
  /\ loader[n].stage = "built"
  /\ loader[n].wait = NoSession
  /\ slots[o] = "Live"
  /\ slots[n] = "Loading"
  /\ slots' = [slots EXCEPT ![n] = Promote(n), ![o] = "Closing"]
  /\ close_after_load' = close_after_load \ {n}
  /\ closer' = [closer EXCEPT ![o] =
                  Closer("closing", "replace", NoSession, loader[n].doomed)]
  /\ loader' = [loader EXCEPT ![n] = NoLoader]
  /\ UNCHANGED <<parentOf, children, blocked_parents, deleting, repoint, runVars, stopVars>>

\* Fault: the refused runtime is dropped instead of torn down.
RefuseReplace_Drops(n) ==
  /\ loader[n].stage = "built"
  /\ loader[n].wait = NoSession
  /\ FailLoad(n, {loader[n].old})
  /\ UNCHANGED <<deleting, runVars, phase, toClose>>

\* The source is not Live any more, or the connection lost its right to commit.
RefuseReplace(n) ==
  /\ loader[n].stage = "built"
  /\ loader[n].wait = NoSession
  /\ loader' = LoaderAt(n, "teardown")
  /\ UNCHANGED <<regVars, deleting, closer, repoint, runVars, stopVars>>

\* The parents whose admission the failure of s's load reopens
\* (complete_replace_failure unblocks the source, complete_load_failure does not).
Unblocked(s) == {loader[s].old} \ {NoSession}

FactoryFails(s) ==
  /\ loader[s].stage = "factory"
  /\ FailLoad(s, Unblocked(s))
  /\ UNCHANGED <<deleting, runVars, phase, toClose>>

TearDown(s) ==
  /\ loader[s].stage = "teardown"
  /\ FailLoad(s, Unblocked(s))
  /\ runtimes' = runtimes \ {s}
  /\ UNCHANGED <<deleting, leaked, phase, toClose>>

\* Drop of an armed OwnerGuard::FailLoad: complete_load_failure only.
DropLoadGuard(s) ==
  /\ loader[s].stage \in {"factory", "built", "teardown"}
  /\ FailLoad(s, {})
  /\ leaked' = IF loader[s].stage = "factory" THEN leaked ELSE leaked \cup {s}
  /\ UNCHANGED <<deleting, runtimes, phase, toClose>>

\* Fault: no guard, the unwinding owner leaves its slot Loading.
PanicLoader_Unguarded(s) ==
  /\ loader[s].stage \in {"factory", "teardown"}
  /\ loader' = [loader EXCEPT ![s] = NoLoader]
  /\ UNCHANGED <<regVars, deleting, closer, repoint, runVars, stopVars>>

\* Product code (a factory, a teardown) unwinds.
PanicLoader(s) ==
  /\ loader[s].stage \in {"factory", "teardown"}
  /\ DropLoadGuard(s)

-----------------------------------------------------------------------------
(* Closing. *)

\* begin_close_cascade: the owned child transitions first.
Cascade(s) ==
  LET T == {s, ChildOf(s)} \ {NoSession} IN
  /\ slots[s] # "Absent"
  /\ slots' = ClosedSlots(T)
  /\ close_after_load' = ClosesRecorded(T)
  /\ closer' = CloseOwners(T, s, ChildOf(s))
  /\ blocked_parents' = blocked_parents \cup {s}
  /\ UNCHANGED <<parentOf, children, deleting, loader, repoint, runVars>>

\* spawn_close and spawn_close_when_unattached (whose extra condition is routing state)
SpawnClose(s) ==
  /\ Cascade(s)
  /\ UNCHANGED stopVars

\* The first poll of a close owner; on a slot that was Loading it is the load's success.
ArmCloser(s) ==
  /\ closer[s].stage = "unarmed"
  /\ slots[s] = "Closing"
  /\ closer' = CloserAt(s, "await_child")
  /\ UNCHANGED <<regVars, deleting, loader, repoint, runVars, stopVars>>

\* The child's close completed (or there was no child): the runtime starts to close.
BeginRuntimeClose(s) ==
  /\ closer[s].stage = "await_child"
  /\ closer[s].wait = NoSession
  /\ closer' = CloserAt(s, "closing")
  /\ UNCHANGED <<regVars, deleting, loader, repoint, runVars, stopVars>>

\* The close callback returned (with success or an error, which only waiters see).
CompleteClose(s) ==
  /\ closer[s].stage = "closing"
  /\ FinishClose(s)
  /\ runtimes' = runtimes \ {s}
  /\ UNCHANGED <<deleting, leaked, phase, toClose>>

\* Drop of an armed OwnerGuard::Close.
DropCloseGuard(s) ==
  /\ closer[s].stage \in {"await_child", "closing"}
  /\ FinishClose(s)
  /\ leaked' = leaked \cup {s}
  /\ UNCHANGED <<deleting, runtimes, phase, toClose>>

\* Fault: no guard, the unwinding owner leaves its slot Closing.
PanicCloser_Unguarded(s) ==
  /\ closer[s].stage = "closing"
  /\ closer' = [closer EXCEPT ![s] = NoCloser]
  /\ UNCHANGED <<regVars, deleting, loader, repoint, runVars, stopVars>>

\* Product code (a close cascade) unwinds.
PanicCloser(s) ==
  /\ closer[s].stage = "closing"
  /\ DropCloseGuard(s)

\* The last reference to the runtime of a dead owner task is dropped, and with it
\* the session write lease.
DropLeaked(s) ==
  /\ s \in leaked
  /\ runtimes' = runtimes \ {s}
  /\ leaked' = leaked \ {s}
  /\ UNCHANGED <<regVars, deleting, taskVars, stopVars>>

-----------------------------------------------------------------------------
(* spawn_replace_to_live: two critical sections of one synchronous call.   *)
(* Bound: one call in flight per source.                                   *)

BeginRepoint(o, n) ==
  LET T == {ChildOf(o)} \ {NoSession} IN
  /\ o # n
  /\ repoint[o] = NoRepoint
  /\ slots[o] = "Live"
  /\ slots' = ClosedSlots(T)
  /\ close_after_load' = ClosesRecorded(T)
  /\ closer' = CloseOwners(T, NoSession, NoSession)
  /\ blocked_parents' = blocked_parents \cup {o}
  /\ repoint' = [repoint EXCEPT ![o] = Repoint(n, ChildOf(o))]
  /\ UNCHANGED <<parentOf, children, deleting, loader, runVars, stopVars>>

CommitRepoint(o) ==
  /\ repoint[o] # NoRepoint
  /\ slots[o] = "Live"
  /\ slots[repoint[o].new] = "Live"
  /\ slots' = [slots EXCEPT ![o] = "Closing"]
  /\ closer' = [closer EXCEPT ![o] = Closer("unarmed", "replace", repoint[o].wait, FALSE)]
  /\ repoint' = [repoint EXCEPT ![o] = NoRepoint]
  /\ UNCHANGED <<close_after_load, parentOf, children, blocked_parents, deleting, loader,
                 runVars, stopVars>>

RefuseRepoint(o) ==
  /\ repoint[o] # NoRepoint
  /\ blocked_parents' = blocked_parents \ {o}
  /\ repoint' = [repoint EXCEPT ![o] = NoRepoint]
  /\ UNCHANGED <<slots, close_after_load, parentOf, children, deleting, loader, closer,
                 runVars, stopVars>>

-----------------------------------------------------------------------------
(* session/delete holds the id out of the registry while rows are removed. *)

BeginDelete(s) ==
  /\ slots[s] = "Absent"
  /\ s \notin deleting
  /\ deleting' = deleting \cup {s}
  /\ UNCHANGED <<regVars, taskVars, runVars, stopVars>>

FinishDelete(s) ==
  /\ s \in deleting
  /\ deleting' = deleting \ {s}
  /\ UNCHANGED <<regVars, taskVars, runVars, stopVars>>

-----------------------------------------------------------------------------
(* Process shutdown: close a snapshot, await it, abort the other owner tasks. *)

ListClosable ==
  {s \in Occupied : parentOf[s] = NoSession \/ slots[parentOf[s]] = "Absent"}

BeginShutdown ==
  /\ ShutdownAllowed
  /\ phase = "serving"
  /\ phase' = "draining"
  /\ toClose' = ListClosable
  /\ UNCHANGED <<regVars, deleting, taskVars, runVars, toAwait>>

ShutdownClose(s) ==
  /\ s \in toClose
  /\ toClose' = toClose \ {s}
  /\ \/ /\ Cascade(s)
        /\ toAwait' = toAwait \cup {s}
     \/ /\ slots[s] = "Absent"
        /\ UNCHANGED <<regVars, deleting, taskVars, runVars, toAwait>>
  /\ UNCHANGED phase

\* abort_and_join_owner_tasks takes the tasks that exist now; later ones are not aborted.
TakeOwnerTasks ==
  /\ phase = "draining"
  /\ toClose = {} /\ toAwait = {}
  /\ phase' = "aborting"
  /\ loader' = [s \in Sessions |->
                  IF loader[s].stage = "none" THEN loader[s]
                  ELSE Loader(loader[s].stage, loader[s].old, loader[s].wait, TRUE)]
  /\ closer' = [s \in Sessions |->
                  IF closer[s].stage = "none" THEN closer[s]
                  ELSE Closer(closer[s].stage, closer[s].cause, closer[s].wait, TRUE)]
  /\ UNCHANGED <<regVars, deleting, repoint, runVars, toClose, toAwait>>

\* An aborted task that was not armed disappears without completing its slot.
AbortLoader(s) ==
  /\ loader[s].doomed
  /\ \/ DropLoadGuard(s)
     \/ /\ loader[s].stage = "unarmed"
        /\ loader' = [loader EXCEPT ![s] = NoLoader]
        /\ UNCHANGED <<regVars, deleting, closer, repoint, runVars, stopVars>>

AbortCloser(s) ==
  /\ closer[s].doomed
  /\ \/ DropCloseGuard(s)
     \/ /\ closer[s].stage = "unarmed"
        /\ closer' = [closer EXCEPT ![s] = NoCloser]
        /\ UNCHANGED <<regVars, deleting, loader, repoint, runVars, stopVars>>

-----------------------------------------------------------------------------
LoadTask(s) ==
  \/ ArmLoader(s) \/ CommitLoad(s) \/ RefuseLoad(s) \/ BuildReplacement(s)
  \/ CommitReplace(s) \/ RefuseReplace(s) \/ FactoryFails(s) \/ TearDown(s)
  \/ PanicLoader(s)

CloseTask(s) ==
  ArmCloser(s) \/ BeginRuntimeClose(s) \/ CompleteClose(s) \/ PanicCloser(s)

\* Bound: an instance takes no new request once the process aborts its owner
\* tasks (a task spawned later is not aborted and lives as before).
Requests ==
  /\ phase # "aborting"
  /\ \/ \E s \in Roots : SpawnLoad(s)
     \/ \E s \in Deletable : BeginDelete(s)
     \/ \E p \in Roots, c \in Children : SpawnChildLoad(p, c)
     \/ \E s \in Sessions : SpawnClose(s)
     \/ \E o, n \in Roots : SpawnReplace(o, n) \/ BeginRepoint(o, n)

RepointCall(o) == CommitRepoint(o) \/ RefuseRepoint(o)

Shutdown ==
  \/ BeginShutdown
  \/ \E s \in Sessions : ShutdownClose(s)
  \/ TakeOwnerTasks
  \/ \E s \in Sessions : AbortLoader(s) \/ AbortCloser(s)

Next ==
  \/ Requests
  \/ \E s \in Sessions : LoadTask(s) \/ CloseTask(s) \/ DropLeaked(s)
  \/ \E o \in Roots : RepointCall(o)
  \/ \E s \in Deletable : FinishDelete(s)
  \/ Shutdown

Spec == Init /\ [][Next]_vars

(***************************************************************************)
(* The runtime polls a ready owner task again; factories, close cascades   *)
(* (bounded by turn_drain_timeout) and the shutdown loop terminate.        *)
(***************************************************************************)
Fairness ==
  /\ \A s \in Sessions : WF_vars(LoadTask(s)) /\ WF_vars(CloseTask(s))
  /\ \A s \in Sessions : WF_vars(ShutdownClose(s))
  /\ \A o \in Roots : WF_vars(RepointCall(o))
  /\ WF_vars(TakeOwnerTasks)

FairSpec == Spec /\ Fairness

-----------------------------------------------------------------------------
(* Properties. *)

\* The state components have their types.
TypeOK ==
  /\ slots \in [Sessions -> {"Absent", "Loading", "Live", "Closing"}]
  /\ close_after_load \subseteq Sessions
  /\ parentOf \in [Sessions -> MaybeRoot]
  /\ children \in [Roots -> Children \cup {NoSession}]
  /\ blocked_parents \subseteq Sessions
  /\ deleting \subseteq Roots
  /\ loader \in [Sessions -> LoaderRec]
  /\ closer \in [Sessions -> CloserRec]
  /\ repoint \in [Roots -> RepointRec]
  /\ runtimes \subseteq Sessions
  /\ leaked \subseteq runtimes
  /\ phase \in {"serving", "draining", "aborting"}
  /\ toClose \subseteq Sessions
  /\ toAwait \subseteq Sessions

\* An owner task always finds its slot in the state it was spawned for: a load
\* owner finds Loading, an armed close owner finds Closing, and a close owner
\* that is not armed yet finds Closing or a Loading slot that carries its
\* request.  So no completion call of registry.rs ends in SlotConflict, whose
\* branch in complete_load_success would also remove a foreign slot.
OwnerFindsItsSlot ==
  \A s \in Sessions :
    /\ loader[s].stage # "none" => slots[s] = "Loading"
    /\ closer[s].stage \in {"await_child", "closing"} => slots[s] = "Closing"
    /\ closer[s].stage = "unarmed" =>
         slots[s] = "Closing" \/ (slots[s] = "Loading" /\ s \in close_after_load)

TransientHasOwner(s) ==
  /\ slots[s] = "Loading" => loader[s].stage # "none"
  /\ slots[s] = "Closing" => closer[s].stage # "none"
  /\ s \in close_after_load => slots[s] = "Loading" /\ closer[s].stage = "unarmed"

\* Until shutdown aborts owner tasks, every Loading or Closing slot has a task
\* that will complete it, whatever panics, replacements and closes overlap:
\* the slot is never wedged (the purpose of OwnerGuard, app_server.rs).
SlotHasOwner == phase # "aborting" => \A s \in Sessions : TransientHasOwner(s)

\* The parent->child index and the registration policies name the same pairs
\* through every load, close, replacement and failure, so a parent has at most
\* one loading, live or closing child (registry.rs, begin_child_load and forget).
ChildIndexExact ==
  /\ \A p \in Roots, c \in Children :
       children[p] = c <=> (slots[c] # "Absent" /\ parentOf[c] = p)
  /\ \A r \in Roots : parentOf[r] = NoSession

\* A parent's runtime starts to close, after a close request or at shutdown,
\* only when its side-chat child is completely gone (begin_close_cascade and the
\* prerequisite of spawn_close_from_start).
CloseWaitsForChild ==
  \A p \in Roots :
    closer[p].stage = "closing" /\ closer[p].cause = "close" => children[p] = NoSession

\* A constructed runtime is held by a slot or by the owner task that will tear it
\* down, unless that task died: commit failures never drop a runtime
\* (CompleteLoadFailure and ReplaceCommitFailure hand the handle back).  And a
\* Live slot's runtime is up: no late close of an earlier incarnation of the id,
\* panic or abort takes the runtime from under a session that is published.
RuntimeOwned ==
  /\ \A s \in runtimes \ leaked :
       slots[s] \in {"Live", "Closing"} \/ loader[s].stage \in {"built", "teardown"}
  /\ \A s \in Sessions : slots[s] = "Live" => s \in runtimes \ leaked

\* No slot exists while the id's durable rows are being deleted (begin_delete and
\* the DeleteInProgress test of every reservation path).
NoSlotWhileDeleting == \A s \in deleting : slots[s] = "Absent"

\* max_sessions is exceeded only by replacements in flight and by replaced
\* sources that still close: one extra slot each, given back when they end.
SlotBudget ==
  phase # "aborting" =>
    Cardinality(Occupied) <=
      MaxSessions
        + Cardinality({n \in Sessions : loader[n].old # NoSession})
        + Cardinality({o \in Sessions : closer[o].stage # "none" /\ closer[o].cause = "replace"})

\* A close that was recorded while a session loads is never lost: the slot does
\* not become Live (LoadState::promote).
CloseNotLost ==
  [][\A s \in Sessions : s \in close_after_load => slots'[s] # "Live"]_vars

\* Every load is eventually decided and every close, also one recorded while the
\* session was loading, eventually completes, for all who wait for them.
TransitionsResolve ==
  \A s \in Sessions :
    slots[s] \in {"Loading", "Closing"} ~> (slots[s] \in {"Live", "Absent"} \/ phase = "aborting")

\* Shutdown reaches the end of its drain: no cycle of owner tasks that wait for
\* each other's completions (child before parent, child before replacement).
ShutdownDrains == (phase = "draining") ~> (phase = "aborting")

-----------------------------------------------------------------------------
(* The registry implements the abstract session lifecycle. *)

Lifecycle == INSTANCE SessionLifecycle WITH
  Ids <- Sessions, NoId <- NoSession,
  slot <- slots, asked <- close_after_load, parent <- parentOf

\* Seen from outside, the registry is the lifecycle of SessionLifecycle: whatever
\* the owner tasks, panics, refusals and the shutdown do, each critical section is
\* one lifecycle step, closing a parent closes the child that the index names, a
\* child loads only under a live parent without one, and a slot is given up only
\* from Loading or Closing.
ImplementsLifecycle == Lifecycle!LifecycleSpec

-----------------------------------------------------------------------------
(* A statement of the documentation that the code does not keep. *)

\* sidechat-architecture.md, I-5: "Parent clear, replace, close, and process
\* shutdown transition and close the child first."
ChildTransitionsFirst ==
  \A p \in Roots :
    slots[p] = "Closing" /\ children[p] # NoSession =>
      \/ slots[children[p]] = "Closing"
      \/ children[p] \in close_after_load
=============================================================================
