--------------------- MODULE SessionRegistry_refinement ---------------------
(***************************************************************************)
(* The registry implements SessionLifecycle, for every set of sessions and *)
(* every capacity.  A step of the registry that moves a slot is the        *)
(* lifecycle step of the same name; every other step is a stutter.  The    *)
(* index of children is gone from the abstract state: the invariant that   *)
(* makes it exact (ChildIndexExact) is what the mapping rests on.          *)
(***************************************************************************)
EXTENDS SessionRegistry_proofs

\* The child the index names is the child the policies name.
LEMMA IndexedChild ==
  ASSUME IInv, NEW s \in Sessions
  PROVE  {ChildOf(s)} \ {NoSession} = Lifecycle!ChildrenOf(s)
<1> USE ConstantsAssumption DEF IInv, Sessions, Lifecycle!ChildrenOf
<1>1. CASE s \in Roots
  <2>1. ChildOf(s) = children[s] /\ children[s] \in Children \cup {NoSession}
    BY <1>1 DEF ChildOf, TypeOK
  <2>2. \A c \in Sessions : parentOf[c] = s /\ slots[c] # "Absent" => c \in Children
    BY <1>1 DEF ChildIndexExact
  <2>3. \A c \in Children : children[s] = c <=> (slots[c] # "Absent" /\ parentOf[c] = s)
    BY <1>1 DEF ChildIndexExact
  <2> QED
    BY <2>1, <2>2, <2>3
<1>2. CASE s \in Children
  <2>1. ChildOf(s) = NoSession
    BY <1>2 DEF ChildOf
  <2>2. \A c \in Sessions : parentOf[c] # s
    BY <1>2 DEF TypeOK, MaybeRoot
  <2> QED
    BY <2>1, <2>2
<1> QED
  BY <1>1, <1>2

\* The registry's helpers are the lifecycle's, under the mapping.
LEMMA SameHelpers ==
  /\ \A T : ClosedSlots(T) = Lifecycle!ClosingSlots(T)
  /\ \A T : ClosesRecorded(T) = Lifecycle!AskedWith(T)
  /\ \A s : Promote(s) = Lifecycle!Published(s)
BY DEF ClosedSlots, ClosesRecorded, Promote, Lifecycle!ClosingSlots, Lifecycle!AskedWith,
       Lifecycle!Published

\* A repoint call in flight names another conversation to move to.
RepointTargets == \A o \in Roots : repoint[o] # NoRepoint => repoint[o].new \in Roots \ {o}

LEMMA InitMaps == Init => Lifecycle!LifecycleInit
BY DEF Init, Lifecycle!LifecycleInit

-----------------------------------------------------------------------------
(* Reservations. *)

LEMMA SpawnLoadMaps ==
  ASSUME IInv, NEW s \in Roots, SpawnLoad(s)
  PROVE  Lifecycle!Reserve(s, NoSession)
BY DEF SpawnLoad, Lifecycle!Reserve

LEMMA SpawnChildLoadMaps ==
  ASSUME IInv, NEW p \in Roots, NEW c \in Children, SpawnChildLoad(p, c)
  PROVE  Lifecycle!Reserve(c, p)
<1>1. Lifecycle!ChildrenOf(p) = {}
  BY IndexedChild DEF SpawnChildLoad, ChildOf, Sessions
<1> QED
  BY <1>1 DEF SpawnChildLoad, Lifecycle!Reserve

LEMMA SpawnReplaceMaps ==
  ASSUME IInv, NEW o \in Roots, NEW n \in Roots, SpawnReplace(o, n)
  PROVE  Lifecycle!ReserveSuccessor(o, n)
<1>1. {ChildOf(o)} \ {NoSession} = Lifecycle!ChildrenOf(o)
  BY IndexedChild DEF Sessions
<1> QED
  BY <1>1, SameHelpers DEF SpawnReplace, ReservableForReplace, Lifecycle!ReserveSuccessor

-----------------------------------------------------------------------------
(* Closes and commits. *)

LEMMA CascadeMaps ==
  ASSUME IInv, NEW s \in Sessions, Cascade(s)
  PROVE  Lifecycle!Close(s)
<1>1. {s, ChildOf(s)} \ {NoSession} = {s} \cup Lifecycle!ChildrenOf(s)
  BY IndexedChild, ConstantsAssumption DEF Sessions
<1> QED
  BY <1>1, SameHelpers DEF Cascade, Lifecycle!Close

LEMMA BeginRepointMaps ==
  ASSUME IInv, NEW o \in Roots, NEW n \in Roots, BeginRepoint(o, n)
  PROVE  Lifecycle!Vacate(o)
<1>1. {ChildOf(o)} \ {NoSession} = Lifecycle!ChildrenOf(o)
  BY IndexedChild DEF Sessions
<1> QED
  BY <1>1, SameHelpers DEF BeginRepoint, Lifecycle!Vacate

LEMMA CommitLoadMaps ==
  ASSUME IInv, NEW s \in Sessions, CommitLoad(s)
  PROVE  Lifecycle!Publish(s)
BY SameHelpers DEF CommitLoad, Lifecycle!Publish

LEMMA CommitReplaceMaps ==
  ASSUME IInv, NEW n \in Sessions, CommitReplace(n)
  PROVE  loader[n].old \in Sessions /\ Lifecycle!Succeed(loader[n].old, n)
<1>1. loader[n].old \in Roots
  BY DEF IInv, BuiltReplaces, CommitReplace
<1> QED
  BY <1>1, SameHelpers DEF CommitReplace, Sessions, Lifecycle!Succeed

LEMMA CommitRepointMaps ==
  ASSUME IInv, RepointTargets, NEW o \in Roots, CommitRepoint(o)
  PROVE  repoint[o].new \in Sessions /\ Lifecycle!Leave(o, repoint[o].new)
BY DEF RepointTargets, CommitRepoint, Sessions, Lifecycle!Leave

LEMMA ForgetMaps ==
  ASSUME IInv, NEW s \in Sessions, NEW L, NEW C, NEW U, Forget(s, L, C, U),
         slots[s] \in {"Loading", "Closing"}
  PROVE  Lifecycle!Retire(s)
BY DEF Forget, Lifecycle!Retire

-----------------------------------------------------------------------------
LEMMA InitRepointTargets == Init => RepointTargets
BY DEF Init, RepointTargets

LEMMA WakeKeepsTargets ==
  ASSUME IInv, RepointTargets, NEW s \in Sessions, repoint' = WakeRepoints(s)
  PROVE  RepointTargets'
<1> SUFFICES ASSUME NEW o \in Roots, repoint'[o] # NoRepoint
             PROVE  repoint'[o].new \in Roots \ {o}
  BY DEF RepointTargets
<1>1. repoint[o] # NoRepoint
  BY ConstantsAssumption DEF WakeRepoints, NoRepoint, Repoint, Sessions
<1>2. repoint'[o].new = repoint[o].new
  BY DEF WakeRepoints, Repoint
<1> QED
  BY <1>1, <1>2 DEF RepointTargets

LEMMA NextKeepsTargets == IInv /\ RepointTargets /\ [Next]_vars => RepointTargets'
<1> SUFFICES ASSUME IInv, RepointTargets, [Next]_vars PROVE RepointTargets'
  OBVIOUS
<1>1. CASE UNCHANGED repoint
  BY <1>1 DEF RepointTargets
<1>2. CASE \E s \in Sessions : repoint' = WakeRepoints(s)
  BY <1>2, WakeKeepsTargets
<1>3. CASE \E o, n \in Roots : BeginRepoint(o, n)
  BY <1>3 DEF BeginRepoint, Repoint, RepointTargets, IInv, TypeOK
<1>4. CASE \E o \in Roots : RepointCall(o)
  BY <1>4 DEF RepointCall, CommitRepoint, RefuseRepoint, RepointTargets, IInv, TypeOK
<1>5. CASE Requests
  BY <1>5, <1>1, <1>3
  DEF Requests, SpawnLoad, BeginDelete, SpawnChildLoad, SpawnClose, Cascade, SpawnReplace, taskVars
<1>6. CASE \E s \in Sessions : LoadTask(s)
  BY <1>6, <1>1, <1>2
  DEF LoadTask, ArmLoader, CommitLoad, RefuseLoad, BuildReplacement, CommitReplace, RefuseReplace,
      FactoryFails, TearDown, PanicLoader, DropLoadGuard, FailLoad, Forget
<1>7. CASE \E s \in Sessions : CloseTask(s)
  BY <1>7, <1>1, <1>2
  DEF CloseTask, ArmCloser, BeginRuntimeClose, CompleteClose, PanicCloser, DropCloseGuard,
      FinishClose, Forget
<1>8. CASE Shutdown
  BY <1>8, <1>1, <1>2
  DEF Shutdown, BeginShutdown, ShutdownClose, Cascade, TakeOwnerTasks, AbortLoader, AbortCloser,
      DropLoadGuard, FailLoad, DropCloseGuard, FinishClose, Forget, taskVars
<1>9. CASE UNCHANGED vars
  BY <1>9, <1>1 DEF vars, taskVars
<1>10. CASE \/ \E s \in Deletable : FinishDelete(s)
            \/ \E s \in Sessions : DropLeaked(s)
  BY <1>10, <1>1 DEF FinishDelete, DropLeaked, taskVars
<1> QED
  BY <1>4, <1>5, <1>6, <1>7, <1>8, <1>9, <1>10 DEF Next

-----------------------------------------------------------------------------
(* Every step of the registry is a lifecycle step or leaves the lifecycle alone. *)

Maps == Lifecycle!LifecycleNext \/ UNCHANGED Lifecycle!lifecycleVars

LEMMA Stutters ==
  ASSUME UNCHANGED <<slots, close_after_load, parentOf>>
  PROVE  Maps
BY DEF Maps, Lifecycle!lifecycleVars

LEMMA RetireMaps ==
  ASSUME IInv, NEW s \in Sessions, NEW U, FailLoad(s, U) \/ FinishClose(s)
  PROVE  Maps
BY ForgetMaps DEF FailLoad, FinishClose, Maps, Lifecycle!LifecycleNext

LEMMA RequestsMap ==
  ASSUME IInv, Requests
  PROVE  Maps
<1> USE DEF Maps, Lifecycle!LifecycleNext, Sessions
<1>1. CASE \E s \in Roots : SpawnLoad(s)
  BY <1>1, SpawnLoadMaps
<1>2. CASE \E s \in Deletable : BeginDelete(s)
  BY <1>2, Stutters DEF BeginDelete, regVars
<1>3. CASE \E p \in Roots, c \in Children : SpawnChildLoad(p, c)
  BY <1>3, SpawnChildLoadMaps
<1>4. CASE \E s \in Sessions : SpawnClose(s)
  BY <1>4, CascadeMaps DEF SpawnClose
<1>5. CASE \E o, n \in Roots : SpawnReplace(o, n)
  BY <1>5, SpawnReplaceMaps
<1>6. CASE \E o, n \in Roots : BeginRepoint(o, n)
  BY <1>6, BeginRepointMaps
<1> QED
  BY <1>1, <1>2, <1>3, <1>4, <1>5, <1>6 DEF Requests

LEMMA LoadTaskMaps ==
  ASSUME IInv, NEW s \in Sessions, LoadTask(s)
  PROVE  Maps
<1>1. CASE CommitLoad(s)
  BY <1>1, CommitLoadMaps DEF Maps, Lifecycle!LifecycleNext
<1>2. CASE CommitReplace(s)
  BY <1>2, CommitReplaceMaps DEF Maps, Lifecycle!LifecycleNext
<1>3. CASE ArmLoader(s) \/ RefuseLoad(s) \/ BuildReplacement(s) \/ RefuseReplace(s)
  BY <1>3, Stutters DEF ArmLoader, RefuseLoad, BuildReplacement, RefuseReplace, regVars
<1>4. CASE FactoryFails(s) \/ TearDown(s) \/ PanicLoader(s)
  BY <1>4, RetireMaps DEF FactoryFails, TearDown, PanicLoader, DropLoadGuard
<1> QED
  BY <1>1, <1>2, <1>3, <1>4 DEF LoadTask

LEMMA CloseTaskMaps ==
  ASSUME IInv, NEW s \in Sessions, CloseTask(s)
  PROVE  Maps
<1>1. CASE ArmCloser(s) \/ BeginRuntimeClose(s)
  BY <1>1, Stutters DEF ArmCloser, BeginRuntimeClose, regVars
<1>2. CASE CompleteClose(s) \/ PanicCloser(s)
  BY <1>2, RetireMaps DEF CompleteClose, PanicCloser, DropCloseGuard
<1> QED
  BY <1>1, <1>2 DEF CloseTask

LEMMA ShutdownMaps ==
  ASSUME IInv, Shutdown
  PROVE  Maps
<1>1. CASE BeginShutdown \/ TakeOwnerTasks
  BY <1>1, Stutters DEF BeginShutdown, TakeOwnerTasks, regVars
<1>2. CASE \E s \in Sessions : ShutdownClose(s)
  BY <1>2, Stutters, CascadeMaps DEF ShutdownClose, regVars, Maps, Lifecycle!LifecycleNext
<1>3. CASE \E s \in Sessions : AbortLoader(s)
  BY <1>3, Stutters, RetireMaps DEF AbortLoader, DropLoadGuard, regVars
<1>4. CASE \E s \in Sessions : AbortCloser(s)
  BY <1>4, Stutters, RetireMaps DEF AbortCloser, DropCloseGuard, regVars
<1> QED
  BY <1>1, <1>2, <1>3, <1>4 DEF Shutdown

LEMMA NextMaps == IInv /\ RepointTargets /\ [Next]_vars => Maps
<1> SUFFICES ASSUME IInv, RepointTargets, [Next]_vars PROVE Maps
  OBVIOUS
<1>1. CASE \E o \in Roots : CommitRepoint(o)
  BY <1>1, CommitRepointMaps DEF Maps, Lifecycle!LifecycleNext, Sessions
<1>2. CASE \E o \in Roots : RefuseRepoint(o)
  BY <1>2, Stutters DEF RefuseRepoint
<1>3. CASE \/ \E s \in Deletable : FinishDelete(s)
           \/ \E s \in Sessions : DropLeaked(s)
  BY <1>3, Stutters DEF FinishDelete, DropLeaked, regVars
<1>4. CASE UNCHANGED vars
  BY <1>4, Stutters DEF vars, regVars
<1> QED
  BY <1>1, <1>2, <1>3, <1>4, RequestsMap, LoadTaskMaps, CloseTaskMaps, ShutdownMaps
  DEF Next, RepointCall

\* Whatever the owner tasks, panics, refusals, repoints, deletes and the shutdown do,
\* the registry moves its slots only as SessionLifecycle says (registry.rs).
THEOREM RegistryImplementsLifecycle == Spec => ImplementsLifecycle
<1>1. Spec => []RepointTargets
  BY InitRepointTargets, NextKeepsTargets, RegistryInvariant, PTL DEF Spec
<1>2. IInv /\ RepointTargets /\ [Next]_vars => [Lifecycle!LifecycleNext]_(Lifecycle!lifecycleVars)
  BY NextMaps DEF Maps
<1> QED
  BY <1>1, <1>2, InitMaps, RegistryInvariant, PTL
  DEF Spec, ImplementsLifecycle, Lifecycle!LifecycleSpec
=============================================================================
