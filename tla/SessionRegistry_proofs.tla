----------------------- MODULE SessionRegistry_proofs -----------------------
(***************************************************************************)
(* Safety of the session registry for every set of sessions and every      *)
(* capacity.                                                               *)
(***************************************************************************)
EXTENDS SessionRegistry, TLAPS, FiniteSetTheorems

\* A close is only ever recorded on a Loading slot.
RecordedOnLoading == \A s \in close_after_load : slots[s] = "Loading"

\* Only the abort phase of a shutdown dooms owner tasks.
DoomedOnlyByAbort ==
  phase # "aborting" =>
    \A s \in Sessions : loader[s].doomed = FALSE /\ closer[s].doomed = FALSE

\* A built replacement knows its source.
BuiltReplaces == \A n \in Sessions : loader[n].stage = "built" => loader[n].old \in Roots

\* The runtimes that are up and not leaked are exactly those of published slots
\* and of owner tasks that hold a handle they have not published.
RuntimeExact ==
  \A s \in Sessions :
    s \in runtimes \ leaked <=>
      slots[s] \in {"Live", "Closing"} \/ loader[s].stage \in {"built", "teardown"}

\* The close owner of a parent waits for the child the index names.
CloserTracksChild ==
  \A p \in Roots :
    closer[p].stage # "none" /\ closer[p].cause = "close" =>
      /\ children[p] = NoSession \/ closer[p].wait = children[p]
      /\ closer[p].stage = "closing" => closer[p].wait = NoSession

IInv ==
  /\ TypeOK
  /\ OwnerFindsItsSlot
  /\ RecordedOnLoading
  /\ DoomedOnlyByAbort
  /\ BuiltReplaces
  /\ SlotHasOwner
  /\ NoSlotWhileDeleting
  /\ ChildIndexExact
  /\ RuntimeExact
  /\ CloserTracksChild

LEMMA WakeLoader ==
  ASSUME NEW L \in [Sessions -> LoaderRec], NEW s \in Sessions
  PROVE  /\ WakeLoaders(L, s) \in [Sessions -> LoaderRec]
         /\ \A x \in Sessions :
              /\ WakeLoaders(L, s)[x].stage = L[x].stage
              /\ WakeLoaders(L, s)[x].old = L[x].old
              /\ WakeLoaders(L, s)[x].doomed = L[x].doomed
BY DEF WakeLoaders, Loader, LoaderRec, MaybeSession

LEMMA WakeCloser ==
  ASSUME NEW C \in [Sessions -> CloserRec], NEW s \in Sessions
  PROVE  /\ WakeClosers(C, s) \in [Sessions -> CloserRec]
         /\ \A x \in Sessions :
              /\ WakeClosers(C, s)[x].stage = C[x].stage
              /\ WakeClosers(C, s)[x].cause = C[x].cause
              /\ WakeClosers(C, s)[x].doomed = C[x].doomed
              /\ WakeClosers(C, s)[x].wait = IF C[x].wait = s THEN NoSession ELSE C[x].wait
BY DEF WakeClosers, Closer, CloserRec, MaybeSession

LEMMA WakeRepoint ==
  ASSUME NEW s \in Sessions, repoint \in [Roots -> RepointRec]
  PROVE  WakeRepoints(s) \in [Roots -> RepointRec]
BY DEF WakeRepoints, Repoint, RepointRec, MaybeSession

LEMMA NoTasks ==
  /\ NoLoader \in LoaderRec /\ NoLoader.stage = "none" /\ NoLoader.doomed = FALSE
  /\ NoCloser \in CloserRec /\ NoCloser.stage = "none" /\ NoCloser.doomed = FALSE
  /\ NoRepoint \in RepointRec
BY DEF NoLoader, NoCloser, NoRepoint, Loader, Closer, Repoint, LoaderRec, CloserRec, RepointRec,
       LoadStage, CloseStage, MaybeRoot, MaybeSession

LEMMA InitIInv == Init => IInv
<1>1. Init => TypeOK
  BY NoTasks, ConstantsAssumption DEF Init, TypeOK, MaybeRoot
<1> QED
  BY <1>1, NoTasks, ConstantsAssumption
  DEF Init, IInv, OwnerFindsItsSlot, RecordedOnLoading, DoomedOnlyByAbort, BuiltReplaces,
      SlotHasOwner, TransientHasOwner, NoSlotWhileDeleting, ChildIndexExact, RuntimeExact,
      CloserTracksChild, Sessions

-----------------------------------------------------------------------------
(* Requests and owner-task steps that change few parts of the state. *)

LEMMA StepSpawnLoad ==
  ASSUME IInv, NEW s \in Roots, SpawnLoad(s)
  PROVE  IInv'
BY ConstantsAssumption
  DEF SpawnLoad, Loader, runVars, stopVars,
      IInv, TypeOK, OwnerFindsItsSlot, RecordedOnLoading, DoomedOnlyByAbort, BuiltReplaces,
      SlotHasOwner, TransientHasOwner, NoSlotWhileDeleting, ChildIndexExact, RuntimeExact,
      CloserTracksChild, Sessions, LoaderRec, LoadStage, MaybeRoot, MaybeSession

LEMMA StepSpawnReplace ==
  ASSUME IInv, NEW o \in Roots, NEW n \in Roots, SpawnReplace(o, n)
  PROVE  IInv'
BY ConstantsAssumption
  DEF SpawnReplace, ReservableForReplace, ClosedSlots, ClosesRecorded, CloseOwners, NeedsCloser, ChildOf, Closer,
      Loader, runVars, stopVars,
      IInv, TypeOK, OwnerFindsItsSlot, RecordedOnLoading, DoomedOnlyByAbort, BuiltReplaces,
      SlotHasOwner, TransientHasOwner, NoSlotWhileDeleting, ChildIndexExact, RuntimeExact,
      CloserTracksChild, Sessions, LoaderRec, LoadStage,
      CloserRec, CloseStage, MaybeRoot, MaybeSession

LEMMA StepArmLoader ==
  ASSUME IInv, NEW s \in Sessions, ArmLoader(s)
  PROVE  IInv'
BY ConstantsAssumption
  DEF ArmLoader, LoaderAt, Loader, regVars, runVars, stopVars,
      IInv, TypeOK, OwnerFindsItsSlot, RecordedOnLoading, DoomedOnlyByAbort, BuiltReplaces,
      SlotHasOwner, TransientHasOwner, NoSlotWhileDeleting, ChildIndexExact, RuntimeExact,
      CloserTracksChild, Sessions, LoaderRec, LoadStage

LEMMA StepCommitLoad ==
  ASSUME IInv, NEW s \in Sessions, CommitLoad(s)
  PROVE  IInv'
BY ConstantsAssumption, NoTasks
  DEF CommitLoad, Constructed, Promote, stopVars,
      IInv, TypeOK, OwnerFindsItsSlot, RecordedOnLoading, DoomedOnlyByAbort, BuiltReplaces,
      SlotHasOwner, TransientHasOwner, NoSlotWhileDeleting, ChildIndexExact, RuntimeExact,
      CloserTracksChild, Sessions

LEMMA StepRefuseLoad ==
  ASSUME IInv, NEW s \in Sessions, RefuseLoad(s)
  PROVE  IInv'
BY ConstantsAssumption
  DEF RefuseLoad, Constructed, LoaderAt, Loader, regVars, stopVars,
      IInv, TypeOK, OwnerFindsItsSlot, RecordedOnLoading, DoomedOnlyByAbort, BuiltReplaces,
      SlotHasOwner, TransientHasOwner, NoSlotWhileDeleting, ChildIndexExact, RuntimeExact,
      CloserTracksChild, Sessions, LoaderRec, LoadStage

LEMMA StepBuildReplacement ==
  ASSUME IInv, NEW s \in Sessions, BuildReplacement(s)
  PROVE  IInv'
BY ConstantsAssumption
  DEF BuildReplacement, Constructed, LoaderAt, Loader, regVars, stopVars,
      IInv, TypeOK, OwnerFindsItsSlot, RecordedOnLoading, DoomedOnlyByAbort, BuiltReplaces,
      SlotHasOwner, TransientHasOwner, NoSlotWhileDeleting, ChildIndexExact, RuntimeExact,
      CloserTracksChild, Sessions, LoaderRec, LoadStage, MaybeRoot

LEMMA StepRefuseReplace ==
  ASSUME IInv, NEW s \in Sessions, RefuseReplace(s)
  PROVE  IInv'
BY ConstantsAssumption
  DEF RefuseReplace, LoaderAt, Loader, regVars, runVars, stopVars,
      IInv, TypeOK, OwnerFindsItsSlot, RecordedOnLoading, DoomedOnlyByAbort, BuiltReplaces,
      SlotHasOwner, TransientHasOwner, NoSlotWhileDeleting, ChildIndexExact, RuntimeExact,
      CloserTracksChild, Sessions, LoaderRec, LoadStage

LEMMA StepArmCloser ==
  ASSUME IInv, NEW s \in Sessions, ArmCloser(s)
  PROVE  IInv'
BY ConstantsAssumption
  DEF ArmCloser, CloserAt, Closer, regVars, runVars, stopVars,
      IInv, TypeOK, OwnerFindsItsSlot, RecordedOnLoading, DoomedOnlyByAbort, BuiltReplaces,
      SlotHasOwner, TransientHasOwner, NoSlotWhileDeleting, ChildIndexExact, RuntimeExact,
      CloserTracksChild, Sessions, CloserRec, CloseStage

LEMMA StepBeginRuntimeClose ==
  ASSUME IInv, NEW s \in Sessions, BeginRuntimeClose(s)
  PROVE  IInv'
BY ConstantsAssumption
  DEF BeginRuntimeClose, CloserAt, Closer, regVars, runVars, stopVars,
      IInv, TypeOK, OwnerFindsItsSlot, RecordedOnLoading, DoomedOnlyByAbort, BuiltReplaces,
      SlotHasOwner, TransientHasOwner, NoSlotWhileDeleting, ChildIndexExact, RuntimeExact,
      CloserTracksChild, Sessions, CloserRec, CloseStage

LEMMA StepBeginRepoint ==
  ASSUME IInv, NEW o \in Roots, NEW n \in Roots, BeginRepoint(o, n)
  PROVE  IInv'
BY ConstantsAssumption
  DEF BeginRepoint, ClosedSlots, ClosesRecorded, CloseOwners, NeedsCloser, ChildOf, Closer,
      Repoint, runVars, stopVars,
      IInv, TypeOK, OwnerFindsItsSlot, RecordedOnLoading, DoomedOnlyByAbort, BuiltReplaces,
      SlotHasOwner, TransientHasOwner, NoSlotWhileDeleting, ChildIndexExact, RuntimeExact,
      CloserTracksChild, Sessions, RepointRec,
      CloserRec, CloseStage, MaybeRoot, MaybeSession

LEMMA StepCommitRepoint ==
  ASSUME IInv, NEW o \in Roots, CommitRepoint(o)
  PROVE  IInv'
BY ConstantsAssumption, NoTasks
  DEF CommitRepoint, Closer, runVars, stopVars,
      IInv, TypeOK, OwnerFindsItsSlot, RecordedOnLoading, DoomedOnlyByAbort, BuiltReplaces,
      SlotHasOwner, TransientHasOwner, NoSlotWhileDeleting, ChildIndexExact, RuntimeExact,
      CloserTracksChild, Sessions, CloserRec, CloseStage, RepointRec

LEMMA StepRefuseRepoint ==
  ASSUME IInv, NEW o \in Roots, RefuseRepoint(o)
  PROVE  IInv'
BY ConstantsAssumption, NoTasks
  DEF RefuseRepoint, runVars, stopVars,
      IInv, TypeOK, OwnerFindsItsSlot, RecordedOnLoading, DoomedOnlyByAbort, BuiltReplaces,
      SlotHasOwner, TransientHasOwner, NoSlotWhileDeleting, ChildIndexExact, RuntimeExact,
      CloserTracksChild, Sessions

LEMMA StepBeginDelete ==
  ASSUME IInv, NEW s \in Deletable, BeginDelete(s)
  PROVE  IInv'
BY ConstantsAssumption
  DEF BeginDelete, regVars, taskVars, runVars, stopVars,
      IInv, TypeOK, OwnerFindsItsSlot, RecordedOnLoading, DoomedOnlyByAbort, BuiltReplaces,
      SlotHasOwner, TransientHasOwner, NoSlotWhileDeleting, ChildIndexExact, RuntimeExact,
      CloserTracksChild, Sessions

LEMMA StepFinishDelete ==
  ASSUME IInv, NEW s \in Deletable, FinishDelete(s)
  PROVE  IInv'
BY ConstantsAssumption
  DEF FinishDelete, regVars, taskVars, runVars, stopVars,
      IInv, TypeOK, OwnerFindsItsSlot, RecordedOnLoading, DoomedOnlyByAbort, BuiltReplaces,
      SlotHasOwner, TransientHasOwner, NoSlotWhileDeleting, ChildIndexExact, RuntimeExact,
      CloserTracksChild, Sessions

LEMMA StepDropLeaked ==
  ASSUME IInv, NEW s \in Sessions, DropLeaked(s)
  PROVE  IInv'
BY DEF DropLeaked, regVars, taskVars, stopVars,
       IInv, TypeOK, OwnerFindsItsSlot, RecordedOnLoading, DoomedOnlyByAbort, BuiltReplaces,
       SlotHasOwner, TransientHasOwner, NoSlotWhileDeleting, ChildIndexExact, RuntimeExact,
       CloserTracksChild

LEMMA StepBeginShutdown ==
  ASSUME IInv, BeginShutdown
  PROVE  IInv'
BY ConstantsAssumption
  DEF BeginShutdown, ListClosable, Occupied, regVars, taskVars, runVars,
      IInv, TypeOK, OwnerFindsItsSlot, RecordedOnLoading, DoomedOnlyByAbort, BuiltReplaces,
      SlotHasOwner, TransientHasOwner, NoSlotWhileDeleting, ChildIndexExact, RuntimeExact,
      CloserTracksChild, Sessions

LEMMA StepTakeOwnerTasks ==
  ASSUME IInv, TakeOwnerTasks
  PROVE  IInv'
BY ConstantsAssumption
  DEF TakeOwnerTasks, Loader, Closer, regVars, runVars,
      IInv, TypeOK, OwnerFindsItsSlot, RecordedOnLoading, DoomedOnlyByAbort, BuiltReplaces,
      SlotHasOwner, TransientHasOwner, NoSlotWhileDeleting, ChildIndexExact, RuntimeExact,
      CloserTracksChild, Sessions, LoaderRec, CloserRec

-----------------------------------------------------------------------------
(* Steps that reserve a child, commit a replacement or retire a slot. *)

LEMMA StepSpawnChildLoad ==
  ASSUME IInv, NEW p \in Roots, NEW c \in Children, SpawnChildLoad(p, c)
  PROVE  IInv'
<1> USE ConstantsAssumption DEF IInv, Sessions
<1>1. TypeOK'
  BY DEF SpawnChildLoad, TypeOK, Loader, LoaderRec, LoadStage, MaybeRoot, MaybeSession, runVars,
         stopVars
<1>2. ChildIndexExact'
  BY DEF SpawnChildLoad, TypeOK, ChildIndexExact
<1>3. (OwnerFindsItsSlot /\ RecordedOnLoading /\ SlotHasOwner)'
  BY DEF SpawnChildLoad, TypeOK, Loader, OwnerFindsItsSlot, RecordedOnLoading, SlotHasOwner,
         TransientHasOwner, stopVars
<1>4. (DoomedOnlyByAbort /\ BuiltReplaces /\ NoSlotWhileDeleting /\ RuntimeExact)'
  BY DEF SpawnChildLoad, TypeOK, Loader, DoomedOnlyByAbort, BuiltReplaces,
         NoSlotWhileDeleting, OwnerFindsItsSlot, RuntimeExact, runVars, stopVars
<1>5. CloserTracksChild'
  BY DEF SpawnChildLoad, TypeOK, OwnerFindsItsSlot, CloserTracksChild, CloserRec, CloseStage
<1> QED
  BY <1>1, <1>2, <1>3, <1>4, <1>5

LEMMA StepCommitReplace ==
  ASSUME IInv, NEW n \in Sessions, CommitReplace(n)
  PROVE  IInv'
<1> USE ConstantsAssumption DEF IInv, Sessions
<1> DEFINE o == loader[n].old
<1>1. o \in Roots /\ o # n /\ closer[o].stage = "none"
  BY DEF CommitReplace, TypeOK, BuiltReplaces, OwnerFindsItsSlot, CloserRec, CloseStage
<1>2. TypeOK'
  BY <1>1, NoTasks
  DEF CommitReplace, Promote, TypeOK, Closer, CloserRec, LoaderRec, CloseStage, MaybeSession,
      runVars, stopVars
<1>3. (OwnerFindsItsSlot /\ RecordedOnLoading /\ SlotHasOwner)'
  BY <1>1, NoTasks
  DEF CommitReplace, Promote, TypeOK, Closer, OwnerFindsItsSlot, RecordedOnLoading,
      SlotHasOwner, TransientHasOwner, stopVars
<1>4. (DoomedOnlyByAbort /\ BuiltReplaces /\ NoSlotWhileDeleting)'
  BY <1>1, NoTasks
  DEF CommitReplace, Promote, TypeOK, Closer, DoomedOnlyByAbort, BuiltReplaces,
      NoSlotWhileDeleting, stopVars
<1>5. RuntimeExact'
  BY <1>1, NoTasks
  DEF CommitReplace, Promote, TypeOK, OwnerFindsItsSlot, RuntimeExact, runVars
<1>6. (ChildIndexExact /\ CloserTracksChild)'
  BY <1>1 DEF CommitReplace, Promote, TypeOK, Closer, ChildIndexExact, CloserTracksChild
<1> QED
  BY <1>2, <1>3, <1>4, <1>5, <1>6

\* Retiring a Loading slot whose runtime, if it was built, is gone or leaked.
LEMMA FailLoadKeepsIInv ==
  ASSUME IInv, NEW s \in Sessions, NEW U, FailLoad(s, U),
         UNCHANGED <<deleting, phase, toClose>>,
         runtimes' \subseteq Sessions, leaked' \subseteq runtimes',
         \A x \in Sessions : x \in runtimes' \ leaked' <=> x \in runtimes \ leaked /\ x # s
  PROVE  IInv'
<1> USE DEF IInv
<1> DEFINE L == [loader EXCEPT ![s] = NoLoader]
           C == [closer EXCEPT ![s] = NoCloser]
<1>1. L \in [Sessions -> LoaderRec] /\ C \in [Sessions -> CloserRec]
  BY NoTasks DEF TypeOK
<1>2. /\ slots[s] = "Loading"
      /\ slots' = [slots EXCEPT ![s] = "Absent"]
      /\ close_after_load' = close_after_load \ {s}
      /\ parentOf' = [parentOf EXCEPT ![s] = NoSession]
      /\ children' = ChildrenWithout(s)
      /\ blocked_parents' \subseteq blocked_parents
      /\ loader' = WakeLoaders(L, s)
      /\ closer' = WakeClosers(C, s)
      /\ repoint' = WakeRepoints(s)
      /\ toAwait' = toAwait \ {s}
  BY DEF FailLoad, Forget
<1> HIDE DEF L, C
<1>3. /\ loader' \in [Sessions -> LoaderRec]
      /\ \A x \in Sessions :
           /\ loader'[x].stage = L[x].stage
           /\ loader'[x].old = L[x].old
           /\ loader'[x].doomed = L[x].doomed
  BY <1>1, <1>2, WakeLoader
<1>4. /\ closer' \in [Sessions -> CloserRec]
      /\ \A x \in Sessions :
           /\ closer'[x].stage = C[x].stage
           /\ closer'[x].cause = C[x].cause
           /\ closer'[x].doomed = C[x].doomed
           /\ closer'[x].wait = IF C[x].wait = s THEN NoSession ELSE C[x].wait
  BY <1>1, <1>2, WakeCloser
<1>5. /\ \A x \in Sessions \ {s} : L[x] = loader[x] /\ C[x] = closer[x]
      /\ L[s] = NoLoader /\ C[s] = NoCloser
  BY DEF L, C, TypeOK
<1>6. TypeOK'
  BY <1>2, <1>3, <1>4, WakeRepoint DEF TypeOK, ChildrenWithout, MaybeRoot
<1>7. (OwnerFindsItsSlot /\ RecordedOnLoading /\ SlotHasOwner)'
  BY <1>2, <1>3, <1>4, <1>5, NoTasks
  DEF TypeOK, OwnerFindsItsSlot, RecordedOnLoading, SlotHasOwner, TransientHasOwner
<1>8. DoomedOnlyByAbort'
  BY <1>2, <1>3, <1>4, <1>5, NoTasks DEF TypeOK, DoomedOnlyByAbort
<1>9. BuiltReplaces'
  BY <1>2, <1>3, <1>5, NoTasks DEF TypeOK, BuiltReplaces
<1>10. (NoSlotWhileDeleting /\ RuntimeExact)'
  BY <1>2, <1>3, <1>4, <1>5, NoTasks
  DEF TypeOK, NoSlotWhileDeleting, RuntimeExact, Sessions
<1>11. ChildIndexExact'
  BY <1>2, ConstantsAssumption DEF TypeOK, ChildrenWithout, ChildIndexExact, Sessions, MaybeRoot
<1>12. CloserTracksChild'
  BY <1>2, <1>4, <1>5, NoTasks
  DEF TypeOK, ChildrenWithout, ChildIndexExact, CloserTracksChild, Sessions
<1> QED
  BY <1>6, <1>7, <1>8, <1>9, <1>10, <1>11, <1>12

\* Retiring a Closing slot whose runtime is gone or leaked.
LEMMA FinishCloseKeepsIInv ==
  ASSUME IInv, NEW s \in Sessions, FinishClose(s),
         UNCHANGED <<deleting, phase, toClose>>,
         runtimes' \subseteq Sessions, leaked' \subseteq runtimes',
         \A x \in Sessions : x \in runtimes' \ leaked' <=> x \in runtimes \ leaked /\ x # s
  PROVE  IInv'
<1> USE DEF IInv
<1> DEFINE C == [closer EXCEPT ![s] = NoCloser]
<1>1. C \in [Sessions -> CloserRec]
  BY NoTasks DEF TypeOK
<1>2. /\ slots[s] = "Closing"
      /\ slots' = [slots EXCEPT ![s] = "Absent"]
      /\ close_after_load' = close_after_load \ {s}
      /\ parentOf' = [parentOf EXCEPT ![s] = NoSession]
      /\ children' = ChildrenWithout(s)
      /\ blocked_parents' \subseteq blocked_parents
      /\ loader' = WakeLoaders(loader, s)
      /\ closer' = WakeClosers(C, s)
      /\ repoint' = WakeRepoints(s)
      /\ toAwait' = toAwait \ {s}
  BY DEF FinishClose, Forget
<1> HIDE DEF C
<1>3. /\ loader' \in [Sessions -> LoaderRec]
      /\ \A x \in Sessions :
           /\ loader'[x].stage = loader[x].stage
           /\ loader'[x].old = loader[x].old
           /\ loader'[x].doomed = loader[x].doomed
  BY <1>2, WakeLoader DEF TypeOK
<1>4. /\ closer' \in [Sessions -> CloserRec]
      /\ \A x \in Sessions :
           /\ closer'[x].stage = C[x].stage
           /\ closer'[x].cause = C[x].cause
           /\ closer'[x].doomed = C[x].doomed
           /\ closer'[x].wait = IF C[x].wait = s THEN NoSession ELSE C[x].wait
  BY <1>1, <1>2, WakeCloser
<1>5. /\ \A x \in Sessions \ {s} : C[x] = closer[x]
      /\ C[s] = NoCloser
  BY DEF C, TypeOK
<1>6. TypeOK'
  BY <1>2, <1>3, <1>4, WakeRepoint DEF TypeOK, ChildrenWithout, MaybeRoot
<1>7. (OwnerFindsItsSlot /\ RecordedOnLoading /\ SlotHasOwner)'
  BY <1>2, <1>3, <1>4, <1>5, NoTasks
  DEF TypeOK, OwnerFindsItsSlot, RecordedOnLoading, SlotHasOwner, TransientHasOwner
<1>8. DoomedOnlyByAbort'
  BY <1>2, <1>3, <1>4, <1>5, NoTasks DEF TypeOK, DoomedOnlyByAbort
<1>9. BuiltReplaces'
  BY <1>2, <1>3, <1>5, NoTasks DEF TypeOK, BuiltReplaces
<1>10. (NoSlotWhileDeleting /\ RuntimeExact)'
  BY <1>2, <1>3, <1>4, <1>5, NoTasks
  DEF TypeOK, OwnerFindsItsSlot, NoSlotWhileDeleting, RuntimeExact, Sessions
<1>11. ChildIndexExact'
  BY <1>2, ConstantsAssumption DEF TypeOK, ChildrenWithout, ChildIndexExact, Sessions, MaybeRoot
<1>12. CloserTracksChild'
  BY <1>2, <1>4, <1>5, NoTasks
  DEF TypeOK, ChildrenWithout, ChildIndexExact, CloserTracksChild, Sessions
<1> QED
  BY <1>6, <1>7, <1>8, <1>9, <1>10, <1>11, <1>12

LEMMA StepFactoryFails ==
  ASSUME IInv, NEW s \in Sessions, FactoryFails(s)
  PROVE  IInv'
<1>1. s \notin runtimes \ leaked
  BY DEF FactoryFails, IInv, TypeOK, OwnerFindsItsSlot, RuntimeExact
<1> QED
  BY <1>1, FailLoadKeepsIInv DEF FactoryFails, runVars, IInv, TypeOK

LEMMA StepTearDown ==
  ASSUME IInv, NEW s \in Sessions, TearDown(s)
  PROVE  IInv'
<1>1. s \in runtimes \ leaked
  BY DEF TearDown, IInv, TypeOK, RuntimeExact
<1> QED
  BY <1>1, FailLoadKeepsIInv DEF TearDown, IInv, TypeOK

LEMMA StepDropLoadGuard ==
  ASSUME IInv, NEW s \in Sessions, DropLoadGuard(s)
  PROVE  IInv'
<1>1. IF loader[s].stage = "factory" THEN s \notin runtimes \ leaked ELSE s \in runtimes
  BY DEF DropLoadGuard, FailLoad, IInv, TypeOK, RuntimeExact
<1>2. FailLoad(s, {}) /\ UNCHANGED <<deleting, runtimes, phase, toClose>>
  BY DEF DropLoadGuard
<1>3. leaked' \subseteq runtimes' /\ \A x \in Sessions : x \in runtimes' \ leaked' <=> x \in runtimes \ leaked /\ x # s
  BY <1>1 DEF DropLoadGuard, IInv, TypeOK
<1> QED
  BY <1>2, <1>3, FailLoadKeepsIInv DEF IInv, TypeOK

LEMMA StepCompleteClose ==
  ASSUME IInv, NEW s \in Sessions, CompleteClose(s)
  PROVE  IInv'
<1>1. s \in runtimes \ leaked
  BY DEF CompleteClose, FinishClose, IInv, TypeOK, RuntimeExact
<1> QED
  BY <1>1, FinishCloseKeepsIInv DEF CompleteClose, IInv, TypeOK

LEMMA StepDropCloseGuard ==
  ASSUME IInv, NEW s \in Sessions, DropCloseGuard(s)
  PROVE  IInv'
<1>1. s \in runtimes \ leaked
  BY DEF DropCloseGuard, FinishClose, IInv, TypeOK, RuntimeExact
<1> QED
  BY <1>1, FinishCloseKeepsIInv DEF DropCloseGuard, IInv, TypeOK

LEMMA StepAbortLoader ==
  ASSUME IInv, NEW s \in Sessions, AbortLoader(s)
  PROVE  IInv'
<1>1. CASE DropLoadGuard(s)
  BY <1>1, StepDropLoadGuard
<1>2. CASE ~DropLoadGuard(s)
  <2> USE ConstantsAssumption DEF IInv, Sessions
  <2>1. /\ loader[s].doomed
        /\ loader[s].stage = "unarmed"
        /\ loader' = [loader EXCEPT ![s] = NoLoader]
        /\ UNCHANGED <<regVars, deleting, closer, repoint, runVars, stopVars>>
    BY <1>2 DEF AbortLoader
  <2>2. phase = "aborting"
    BY <2>1 DEF DoomedOnlyByAbort
  <2>3. TypeOK' /\ (RecordedOnLoading /\ NoSlotWhileDeleting /\ ChildIndexExact)'
    BY <2>1, NoTasks
    DEF TypeOK, RecordedOnLoading, NoSlotWhileDeleting, ChildIndexExact, regVars, runVars,
        stopVars
  <2>4. (OwnerFindsItsSlot /\ DoomedOnlyByAbort /\ SlotHasOwner /\ BuiltReplaces)'
    BY <2>1, <2>2, NoTasks
    DEF TypeOK, OwnerFindsItsSlot, DoomedOnlyByAbort, SlotHasOwner, BuiltReplaces, regVars,
        stopVars
  <2>5. (RuntimeExact /\ CloserTracksChild)'
    BY <2>1, NoTasks
    DEF TypeOK, RuntimeExact, CloserTracksChild, regVars, runVars
  <2> QED
    BY <2>3, <2>4, <2>5
<1> QED
  BY <1>1, <1>2

LEMMA StepAbortCloser ==
  ASSUME IInv, NEW s \in Sessions, AbortCloser(s)
  PROVE  IInv'
<1>1. CASE DropCloseGuard(s)
  BY <1>1, StepDropCloseGuard
<1>2. CASE ~DropCloseGuard(s)
  <2> USE ConstantsAssumption DEF IInv, Sessions
  <2>1. /\ closer[s].doomed
        /\ closer' = [closer EXCEPT ![s] = NoCloser]
        /\ UNCHANGED <<regVars, deleting, loader, repoint, runVars, stopVars>>
    BY <1>2 DEF AbortCloser
  <2>2. phase = "aborting"
    BY <2>1 DEF DoomedOnlyByAbort
  <2>3. TypeOK' /\ (RecordedOnLoading /\ NoSlotWhileDeleting /\ ChildIndexExact)'
    BY <2>1, NoTasks
    DEF TypeOK, RecordedOnLoading, NoSlotWhileDeleting, ChildIndexExact, regVars, runVars,
        stopVars
  <2>4. (OwnerFindsItsSlot /\ DoomedOnlyByAbort /\ SlotHasOwner /\ BuiltReplaces)'
    BY <2>1, <2>2, NoTasks
    DEF TypeOK, OwnerFindsItsSlot, DoomedOnlyByAbort, SlotHasOwner, BuiltReplaces, regVars,
        stopVars
  <2>5. (RuntimeExact /\ CloserTracksChild)'
    BY <2>1, NoTasks
    DEF TypeOK, RuntimeExact, CloserTracksChild, regVars, runVars
  <2> QED
    BY <2>3, <2>4, <2>5
<1> QED
  BY <1>1, <1>2

\* begin_close_locked over a session and its child.
LEMMA CascadeKeepsIInv ==
  ASSUME IInv, NEW s \in Sessions, Cascade(s), UNCHANGED phase,
         toClose' \subseteq Sessions, toAwait' \subseteq Sessions
  PROVE  IInv'
<1> USE ConstantsAssumption DEF IInv, Sessions
<1> DEFINE T == {s, ChildOf(s)} \ {NoSession}
<1>1. /\ T \subseteq Sessions
      /\ ChildOf(s) \in MaybeSession
      /\ s \in Roots => ChildOf(s) = children[s]
  BY DEF ChildOf, TypeOK, MaybeSession
<1>2. /\ slots' = ClosedSlots(T)
      /\ close_after_load' = ClosesRecorded(T)
      /\ closer' = CloseOwners(T, s, ChildOf(s))
      /\ blocked_parents' = blocked_parents \cup {s}
      /\ UNCHANGED <<parentOf, children, deleting, loader, repoint, runtimes, leaked>>
  BY DEF Cascade, runVars
<1> HIDE DEF T
<1>3. TypeOK'
  BY <1>1, <1>2
  DEF ClosedSlots, ClosesRecorded, CloseOwners, Closer, TypeOK, CloserRec, CloseStage,
      MaybeSession
<1>4. (OwnerFindsItsSlot /\ RecordedOnLoading /\ SlotHasOwner)'
  BY <1>1, <1>2
  DEF ClosedSlots, ClosesRecorded, CloseOwners, NeedsCloser, Closer, TypeOK, OwnerFindsItsSlot,
      RecordedOnLoading, SlotHasOwner, TransientHasOwner
<1>5. (DoomedOnlyByAbort /\ BuiltReplaces /\ NoSlotWhileDeleting /\ RuntimeExact)'
  BY <1>1, <1>2
  DEF ClosedSlots, CloseOwners, Closer, TypeOK, DoomedOnlyByAbort, BuiltReplaces,
      NoSlotWhileDeleting, RuntimeExact
<1>6. ChildIndexExact'
  BY <1>2 DEF ClosedSlots, TypeOK, ChildIndexExact
<1>7. CloserTracksChild'
  <2>1. SUFFICES ASSUME NEW p \in Roots
                 PROVE  closer'[p].stage # "none" /\ closer'[p].cause = "close" =>
                          /\ children[p] = NoSession \/ closer'[p].wait = children[p]
                          /\ closer'[p].stage = "closing" => closer'[p].wait = NoSession
    BY <1>2 DEF CloserTracksChild
  <2>2. CASE closer'[p] = closer[p]
    BY <2>2 DEF CloserTracksChild
  <2>3. CASE closer'[p] # closer[p]
    <3>1. p \in T /\ NeedsCloser(p)
      BY <1>2, <2>3 DEF CloseOwners
    <3>2. p = s
      BY <3>1, <1>1 DEF T, ChildOf, TypeOK
    <3> QED
      BY <3>1, <3>2, <1>1, <1>2 DEF CloseOwners, Closer
  <2> QED
    BY <2>2, <2>3
<1> QED
  BY <1>3, <1>4, <1>5, <1>6, <1>7

LEMMA StepSpawnClose ==
  ASSUME IInv, NEW s \in Sessions, SpawnClose(s)
  PROVE  IInv'
BY CascadeKeepsIInv DEF SpawnClose, stopVars, IInv, TypeOK

LEMMA StepShutdownClose ==
  ASSUME IInv, NEW s \in Sessions, ShutdownClose(s)
  PROVE  IInv'
<1>1. CASE Cascade(s) /\ toAwait' = toAwait \cup {s}
  BY <1>1, CascadeKeepsIInv DEF ShutdownClose, IInv, TypeOK
<1>2. CASE UNCHANGED <<regVars, deleting, taskVars, runVars, toAwait>>
  BY <1>2
  DEF ShutdownClose, regVars, taskVars, runVars, IInv, TypeOK, OwnerFindsItsSlot,
      RecordedOnLoading, DoomedOnlyByAbort, BuiltReplaces, SlotHasOwner, TransientHasOwner,
      NoSlotWhileDeleting, ChildIndexExact, RuntimeExact, CloserTracksChild
<1> QED
  BY <1>1, <1>2 DEF ShutdownClose

-----------------------------------------------------------------------------
LEMMA NextKeepsIInv == IInv /\ [Next]_vars => IInv'
<1> SUFFICES ASSUME IInv, [Next]_vars PROVE IInv'
  OBVIOUS
<1>1. CASE Requests
  BY <1>1, StepSpawnLoad, StepBeginDelete, StepSpawnChildLoad, StepSpawnClose,
     StepSpawnReplace, StepBeginRepoint
  DEF Requests
<1>2. CASE \E s \in Sessions : LoadTask(s)
  BY <1>2, StepArmLoader, StepCommitLoad, StepRefuseLoad, StepBuildReplacement,
     StepCommitReplace, StepRefuseReplace, StepFactoryFails, StepTearDown, StepDropLoadGuard
  DEF LoadTask, PanicLoader
<1>3. CASE \E s \in Sessions : CloseTask(s)
  BY <1>3, StepArmCloser, StepBeginRuntimeClose, StepCompleteClose, StepDropCloseGuard
  DEF CloseTask, PanicCloser
<1>4. CASE \E o \in Roots : RepointCall(o)
  BY <1>4, StepCommitRepoint, StepRefuseRepoint DEF RepointCall
<1>5. CASE \E s \in Deletable : FinishDelete(s)
  BY <1>5, StepFinishDelete
<1>6. CASE Shutdown
  BY <1>6, StepBeginShutdown, StepShutdownClose, StepTakeOwnerTasks, StepAbortLoader,
     StepAbortCloser
  DEF Shutdown
<1>7. CASE \E s \in Sessions : DropLeaked(s)
  BY <1>7, StepDropLeaked
<1>8. CASE UNCHANGED vars
  BY <1>8
  DEF vars, regVars, taskVars, runVars, stopVars, IInv, TypeOK, OwnerFindsItsSlot,
      RecordedOnLoading, DoomedOnlyByAbort, BuiltReplaces, SlotHasOwner, TransientHasOwner,
      NoSlotWhileDeleting, ChildIndexExact, RuntimeExact, CloserTracksChild
<1> QED
  BY <1>1, <1>2, <1>3, <1>4, <1>5, <1>6, <1>7, <1>8 DEF Next

\* The strengthened invariant holds in every reachable state of the registry and
\* its owner tasks, for any sessions, children and capacity.
THEOREM RegistryInvariant == Spec => []IInv
BY InitIInv, NextKeepsIInv, PTL DEF Spec

\* Every component of the registry state keeps its type.
THEOREM TypeCorrect == Spec => []TypeOK
<1>1. IInv => TypeOK
  BY DEF IInv
<1> QED
  BY <1>1, RegistryInvariant, PTL

\* No completion call of an owner task meets a slot in a state it does not expect.
THEOREM OwnersMatchSlots == Spec => []OwnerFindsItsSlot
<1>1. IInv => OwnerFindsItsSlot
  BY DEF IInv
<1> QED
  BY <1>1, RegistryInvariant, PTL

\* Until shutdown aborts owner tasks, no Loading or Closing slot is wedged.
THEOREM NoWedgedSlot == Spec => []SlotHasOwner
<1>1. IInv => SlotHasOwner
  BY DEF IInv
<1> QED
  BY <1>1, RegistryInvariant, PTL

\* begin_child_load, forget and inherited policies keep the child index exact.
THEOREM ChildIndexCorrect == Spec => []ChildIndexExact
<1>1. IInv => ChildIndexExact
  BY DEF IInv
<1> QED
  BY <1>1, RegistryInvariant, PTL

\* An id under session/delete has no slot, so no owner task writes its rows.
THEOREM DeleteExcludesSlots == Spec => []NoSlotWhileDeleting
<1>1. IInv => NoSlotWhileDeleting
  BY DEF IInv
<1> QED
  BY <1>1, RegistryInvariant, PTL

\* A requested close of a parent reaches its runtime only after the child is gone.
THEOREM ChildClosesFirst == Spec => []CloseWaitsForChild
<1>1. IInv => CloseWaitsForChild
  BY DEF IInv, CloserTracksChild, CloseWaitsForChild
<1> QED
  BY <1>1, RegistryInvariant, PTL

\* Commit failures hand a built runtime back: none is dropped without teardown,
\* and a Live slot always has its runtime.
THEOREM RuntimesAccountedFor == Spec => []RuntimeOwned
<1>1. IInv => RuntimeOwned
  BY DEF IInv, TypeOK, RuntimeExact, RuntimeOwned
<1> QED
  BY <1>1, RegistryInvariant, PTL

\* A slot that becomes Live had no close recorded on it.
LEMMA OnlyPromotePublishes ==
  ASSUME IInv, [Next]_vars, NEW x \in close_after_load
  PROVE  slots'[x] # "Live"
<1>1. x \in Sessions /\ slots \in [Sessions -> {"Absent", "Loading", "Live", "Closing"}]
      /\ slots[x] = "Loading"
  BY DEF IInv, TypeOK, RecordedOnLoading
<1>2. ASSUME NEW T PROVE ClosedSlots(T)[x] = "Loading"
  BY <1>1 DEF ClosedSlots
<1>3. CASE Requests
  BY <1>1, <1>2, <1>3
  DEF Requests, SpawnLoad, BeginDelete, SpawnChildLoad, SpawnClose, Cascade, SpawnReplace,
      BeginRepoint, ReservableForReplace, ClosedSlots, regVars, Sessions
<1>4. CASE \E s \in Sessions : LoadTask(s)
  <2>1. PICK s \in Sessions : LoadTask(s)
    BY <1>4
  <2>2. CASE CommitLoad(s)
    BY <1>1, <2>2 DEF CommitLoad, Promote
  <2>3. CASE CommitReplace(s)
    BY <1>1, <2>3 DEF CommitReplace, Promote
  <2>4. CASE ArmLoader(s) \/ RefuseLoad(s) \/ BuildReplacement(s) \/ RefuseReplace(s)
    BY <1>1, <2>4 DEF ArmLoader, RefuseLoad, BuildReplacement, RefuseReplace, regVars
  <2>5. CASE FactoryFails(s) \/ TearDown(s) \/ PanicLoader(s)
    BY <1>1, <2>5
    DEF FactoryFails, TearDown, PanicLoader, DropLoadGuard, FailLoad, Forget
  <2> QED
    BY <2>1, <2>2, <2>3, <2>4, <2>5 DEF LoadTask
<1>5. CASE \E s \in Sessions : CloseTask(s)
  BY <1>1, <1>5
  DEF CloseTask, ArmCloser, BeginRuntimeClose, CompleteClose, PanicCloser, DropCloseGuard,
      FinishClose, Forget, regVars
<1>6. CASE \E o \in Roots : RepointCall(o)
  BY <1>1, <1>6 DEF RepointCall, CommitRepoint, RefuseRepoint
<1>7. CASE \E s \in Deletable : FinishDelete(s)
  BY <1>1, <1>7 DEF FinishDelete, regVars
<1>8. CASE Shutdown
  BY <1>1, <1>2, <1>8
  DEF Shutdown, BeginShutdown, ShutdownClose, Cascade, TakeOwnerTasks, AbortLoader, AbortCloser,
      DropLoadGuard, FailLoad, DropCloseGuard, FinishClose, Forget, regVars
<1>9. CASE \E s \in Sessions : DropLeaked(s)
  BY <1>1, <1>9 DEF DropLeaked, regVars
<1>10. CASE UNCHANGED vars
  BY <1>1, <1>10 DEF vars, regVars
<1> QED
  BY <1>3, <1>4, <1>5, <1>6, <1>7, <1>8, <1>9, <1>10 DEF Next

\* A close recorded while a session loads is honoured when the load ends.
THEOREM RecordedCloseKept == Spec => CloseNotLost
<1>1. IInv /\ [Next]_vars => [\A s \in Sessions : s \in close_after_load => slots'[s] # "Live"]_vars
  BY OnlyPromotePublishes
<1> QED
  BY <1>1, RegistryInvariant, PTL DEF Spec, CloseNotLost
-----------------------------------------------------------------------------
(* The capacity.  SlotBudget is not inductive: a commit of a replacement     *)
(* moves one slot from the second count to the third, which the sum does not *)
(* see.  The invariant is about the slots that are in neither.               *)

\* A task that is not there replaces nothing.
IdleReplacesNothing == \A s \in Sessions : loader[s].stage = "none" => loader[s].old = NoSession

\* No close owner of C that a replacement made.
NotReplaced(C, x) == C[x].stage = "none" \/ C[x].cause # "replace"

\* The slots that are neither a replacement in flight nor a replaced source.
Ordinary ==
  {s \in Occupied :
     loader[s].old = NoSession /\ NotReplaced(closer, s)}

BudgetInv ==
  /\ IdleReplacesNothing
  /\ phase # "aborting" => Cardinality(Ordinary) <= MaxSessions

LEMMA SessionsFinite ==
  /\ IsFiniteSet(Sessions)
  /\ \A S \in SUBSET Sessions : IsFiniteSet(S) /\ Cardinality(S) \in Nat
BY ConstantsAssumption, FS_Union, FS_Subset, FS_CardinalityType DEF Sessions

LEMMA OrdinaryOccupied == Ordinary \subseteq Occupied /\ Occupied \subseteq Sessions
BY DEF Ordinary, Occupied

\* A reservation that passed the capacity test.
LEMMA ReserveKeepsBudget ==
  ASSUME NEW s \in Sessions, HasCapacity, Ordinary' \subseteq Occupied \cup {s}
  PROVE  Cardinality(Ordinary') <= MaxSessions
<1>1. IsFiniteSet(Occupied) /\ Cardinality(Occupied) \in Nat
  BY OrdinaryOccupied, SessionsFinite
<1>2. /\ IsFiniteSet(Occupied \cup {s})
      /\ Cardinality(Occupied \cup {s}) <= Cardinality(Occupied) + 1
  <2>1. IsFiniteSet(Occupied \cup {s})
    BY <1>1, FS_AddElement
  <2>2. Cardinality(Occupied \cup {s}) =
          IF s \in Occupied THEN Cardinality(Occupied) ELSE Cardinality(Occupied) + 1
    BY <1>1, FS_AddElement
  <2> QED
    BY <1>1, <2>1, <2>2
<1>3. IsFiniteSet(Ordinary') /\ Cardinality(Ordinary') <= Cardinality(Occupied \cup {s})
  BY <1>2, FS_Subset
<1>4. Cardinality(Ordinary') \in Nat /\ Cardinality(Occupied \cup {s}) \in Nat
  BY <1>2, <1>3, FS_CardinalityType
<1> QED
  BY <1>1, <1>2, <1>3, <1>4, ConstantsAssumption DEF HasCapacity

\* A step after which no slot is newly ordinary.
LEMMA ShrinkKeepsBudget ==
  ASSUME Cardinality(Ordinary) <= MaxSessions, Ordinary' \subseteq Ordinary
  PROVE  Cardinality(Ordinary') <= MaxSessions
<1>1. IsFiniteSet(Ordinary) /\ Cardinality(Ordinary) \in Nat
  BY OrdinaryOccupied, SessionsFinite
<1>2. IsFiniteSet(Ordinary') /\ Cardinality(Ordinary') <= Cardinality(Ordinary)
  BY <1>1, FS_Subset
<1> QED
  BY <1>1, <1>2, FS_CardinalityType, ConstantsAssumption

\* The commit of a replacement: n becomes ordinary and o ceases to be.
LEMMA SwapKeepsBudget ==
  ASSUME Cardinality(Ordinary) <= MaxSessions, NEW o \in Ordinary, NEW n,
         Ordinary' \subseteq (Ordinary \ {o}) \cup {n}
  PROVE  Cardinality(Ordinary') <= MaxSessions
<1> DEFINE rest == Ordinary \ {o}
<1>1. IsFiniteSet(Ordinary) /\ Cardinality(Ordinary) \in Nat
  BY OrdinaryOccupied, SessionsFinite
<1>2. IsFiniteSet(rest) /\ Cardinality(rest) = Cardinality(Ordinary) - 1
  BY <1>1, FS_RemoveElement
<1>3. Cardinality(rest) \in Nat
  BY <1>2, FS_CardinalityType
<1>4. Ordinary' \subseteq rest \cup {n}
  OBVIOUS
<1> HIDE DEF rest
<1>5. /\ IsFiniteSet(rest \cup {n})
      /\ Cardinality(rest \cup {n}) <= Cardinality(rest) + 1
  BY <1>2, <1>3, FS_AddElement
<1>6. IsFiniteSet(Ordinary') /\ Cardinality(Ordinary') <= Cardinality(rest \cup {n})
  BY <1>4, <1>5, FS_Subset
<1>7. Cardinality(Ordinary') \in Nat /\ Cardinality(rest \cup {n}) \in Nat
  BY <1>5, <1>6, FS_CardinalityType
<1> QED
  BY <1>1, <1>2, <1>3, <1>5, <1>6, <1>7, ConstantsAssumption

\* `forget' of s, whose owner tasks ended, makes no other slot ordinary.
LEMMA ForgetKeepsOrdinary ==
  ASSUME TypeOK, IdleReplacesNothing, NEW s \in Sessions,
         NEW L \in {loader, [loader EXCEPT ![s] = NoLoader]}, NEW U,
         Forget(s, L, [closer EXCEPT ![s] = NoCloser], U)
  PROVE  Ordinary' \subseteq Ordinary /\ IdleReplacesNothing'
<1> DEFINE C == [closer EXCEPT ![s] = NoCloser]
<1>1. L \in [Sessions -> LoaderRec] /\ C \in [Sessions -> CloserRec]
  BY NoTasks DEF TypeOK
<1>2. /\ slots' = [slots EXCEPT ![s] = "Absent"]
      /\ loader' = WakeLoaders(L, s) /\ closer' = WakeClosers(C, s)
  BY DEF Forget
<1>3. \A x \in Sessions :
        /\ x # s => /\ loader'[x].stage = loader[x].stage /\ loader'[x].old = loader[x].old
                    /\ closer'[x].stage = closer[x].stage /\ closer'[x].cause = closer[x].cause
                    /\ slots'[x] = slots[x]
        /\ loader'[x].stage = L[x].stage /\ loader'[x].old = L[x].old
  <2>1. \A x \in Sessions : x # s => L[x] = loader[x] /\ C[x] = closer[x]
    BY DEF TypeOK
  <2> HIDE DEF C
  <2>2. \A x \in Sessions : loader'[x].stage = L[x].stage /\ loader'[x].old = L[x].old
    BY <1>1, <1>2, WakeLoader
  <2>3. \A x \in Sessions : closer'[x].stage = C[x].stage /\ closer'[x].cause = C[x].cause
    BY <1>1, <1>2, WakeCloser
  <2>4. \A x \in Sessions : x # s => slots'[x] = slots[x]
    BY <1>2 DEF TypeOK
  <2> QED
    BY <2>1, <2>2, <2>3, <2>4
<1>4. \A x \in Sessions : L[x].stage = "none" => L[x].old = NoSession
  BY DEF IdleReplacesNothing, TypeOK, NoLoader, Loader
<1>5. slots'[s] = "Absent"
  BY <1>2 DEF TypeOK
<1> QED
  BY <1>3, <1>4, <1>5 DEF Ordinary, NotReplaced, Occupied, IdleReplacesNothing

\* begin_close_locked writes owner tasks only where there was none.
LEMMA CloseKeepsOrdinary ==
  ASSUME IInv, phase # "aborting", NEW T, NEW s, NEW w, NEW x \in Sessions,
         NotReplaced(CloseOwners(T, s, w), x)
  PROVE  NotReplaced(closer, x)
<1>1. CASE x \in T /\ NeedsCloser(x)
  BY <1>1
  DEF NeedsCloser, NotReplaced, IInv, TypeOK, OwnerFindsItsSlot, CloserRec, CloseStage
<1>2. CASE ~(x \in T /\ NeedsCloser(x))
  BY <1>2 DEF CloseOwners, NotReplaced
<1> QED
  BY <1>1, <1>2

\* So a critical section of begin_close_locked makes no slot ordinary.
LEMMA CascadeKeepsOrdinary ==
  ASSUME IInv, phase # "aborting", NEW T, NEW s, NEW w,
         slots' = ClosedSlots(T), closer' = CloseOwners(T, s, w), loader' = loader
  PROVE  Ordinary' \subseteq Ordinary
<1> SUFFICES ASSUME NEW x \in Sessions, slots'[x] # "Absent", loader'[x].old = NoSession,
                    NotReplaced(closer', x)
             PROVE  slots[x] # "Absent" /\ loader[x].old = NoSession /\ NotReplaced(closer, x)
  BY DEF Ordinary, Occupied
<1>1. NotReplaced(closer, x)
  BY CloseKeepsOrdinary
<1>2. slots[x] # "Absent"
  BY DEF ClosedSlots
<1> QED
  BY <1>1, <1>2

-----------------------------------------------------------------------------
LEMMA RequestsKeepBudget ==
  ASSUME IInv, BudgetInv, Requests
  PROVE  BudgetInv'
<1> USE DEF Sessions
<1>1. phase # "aborting" /\ Cardinality(Ordinary) <= MaxSessions
  BY DEF Requests, BudgetInv
<1>2. ASSUME NEW s \in Roots, SpawnLoad(s) PROVE BudgetInv'
  <2>1. Ordinary' \subseteq Occupied \cup {s} /\ HasCapacity
    BY <1>2 DEF SpawnLoad, Ordinary, NotReplaced, Occupied, IInv, TypeOK
  <2>2. IdleReplacesNothing'
    BY <1>2 DEF SpawnLoad, Loader, IdleReplacesNothing, BudgetInv, IInv, TypeOK
  <2> QED
    BY <2>1, <2>2, ReserveKeepsBudget DEF BudgetInv
<1>3. ASSUME NEW p \in Roots, NEW c \in Children, SpawnChildLoad(p, c) PROVE BudgetInv'
  <2>1. Ordinary' \subseteq Occupied \cup {c} /\ HasCapacity
    BY <1>3 DEF SpawnChildLoad, Ordinary, NotReplaced, Occupied, IInv, TypeOK
  <2>2. IdleReplacesNothing'
    BY <1>3 DEF SpawnChildLoad, Loader, IdleReplacesNothing, BudgetInv, IInv, TypeOK
  <2> QED
    BY <2>1, <2>2, ReserveKeepsBudget DEF BudgetInv
<1>4. ASSUME NEW s \in Sessions, SpawnClose(s) PROVE BudgetInv'
  <2>1. Ordinary' \subseteq Ordinary
    BY <1>1, <1>4, CascadeKeepsOrdinary DEF SpawnClose, Cascade
  <2>2. IdleReplacesNothing'
    BY <1>4 DEF SpawnClose, Cascade, IdleReplacesNothing, BudgetInv
  <2> QED
    BY <1>1, <2>1, <2>2, ShrinkKeepsBudget DEF BudgetInv
<1>5. ASSUME NEW o \in Roots, NEW n \in Roots, SpawnReplace(o, n) PROVE BudgetInv'
  <2>1. o # NoSession /\ loader' = [loader EXCEPT ![n] = Loader("unarmed", o, ChildOf(o), FALSE)]
    BY <1>5, ConstantsAssumption DEF SpawnReplace
  <2>2. loader'[n].old = o /\ loader'[n].stage = "unarmed"
        /\ \A x \in Sessions : x # n => loader'[x] = loader[x]
    BY <2>1 DEF Loader, IInv, TypeOK
  <2>3. \A x \in Sessions : x # n /\ slots'[x] # "Absent" => slots[x] # "Absent"
    BY <1>5 DEF SpawnReplace, ClosedSlots, IInv, TypeOK
  <2>4. Ordinary' \subseteq Ordinary
    <3> SUFFICES ASSUME NEW x \in Sessions, slots'[x] # "Absent", loader'[x].old = NoSession,
                        NotReplaced(closer', x)
                 PROVE  slots[x] # "Absent" /\ loader[x].old = NoSession /\ NotReplaced(closer, x)
      BY DEF Ordinary, Occupied
    <3>1. NotReplaced(closer, x)
      BY <1>1, <1>5, CloseKeepsOrdinary DEF SpawnReplace
    <3> QED
      BY <2>1, <2>2, <2>3, <3>1
  <2>5. IdleReplacesNothing'
    BY <2>2 DEF IdleReplacesNothing, BudgetInv
  <2> QED
    BY <1>1, <2>4, <2>5, ShrinkKeepsBudget DEF BudgetInv
<1>6. ASSUME NEW o \in Roots, NEW n \in Roots, BeginRepoint(o, n) PROVE BudgetInv'
  <2>1. Ordinary' \subseteq Ordinary
    BY <1>1, <1>6, CascadeKeepsOrdinary DEF BeginRepoint
  <2>2. IdleReplacesNothing'
    BY <1>6 DEF BeginRepoint, IdleReplacesNothing, BudgetInv
  <2> QED
    BY <1>1, <2>1, <2>2, ShrinkKeepsBudget DEF BudgetInv
<1>7. ASSUME NEW s \in Deletable, BeginDelete(s) PROVE BudgetInv'
  BY <1>7 DEF BeginDelete, BudgetInv, IdleReplacesNothing, Ordinary, NotReplaced, Occupied, regVars, taskVars,
              stopVars
<1> QED
  BY <1>2, <1>3, <1>4, <1>5, <1>6, <1>7 DEF Requests

\* The steps of a load owner.
LEMMA LoadTaskKeepsBudget ==
  ASSUME IInv, BudgetInv, NEW s \in Sessions, LoadTask(s)
  PROVE  BudgetInv'
<1>1. phase' = phase
  BY DEF LoadTask, ArmLoader, CommitLoad, RefuseLoad, BuildReplacement, CommitReplace,
         RefuseReplace, FactoryFails, TearDown, PanicLoader, DropLoadGuard, stopVars
<1>2. CASE ArmLoader(s) \/ RefuseLoad(s) \/ BuildReplacement(s) \/ RefuseReplace(s)
  <2>1. PICK stage \in LoadStage \ {"none"} : loader' = LoaderAt(s, stage)
    BY <1>2 DEF ArmLoader, RefuseLoad, BuildReplacement, RefuseReplace, LoadStage
  <2>2. /\ loader'[s].old = loader[s].old /\ loader'[s].stage = stage
        /\ \A x \in Sessions : x # s => loader'[x] = loader[x]
    BY <2>1 DEF LoaderAt, Loader, IInv, TypeOK
  <2>3. Ordinary' = Ordinary
    BY <1>2, <2>2
    DEF ArmLoader, RefuseLoad, BuildReplacement, RefuseReplace, regVars, Ordinary, NotReplaced, Occupied
  <2>4. IdleReplacesNothing'
    BY <2>2 DEF IdleReplacesNothing, BudgetInv
  <2> QED
    BY <1>1, <2>3, <2>4 DEF BudgetInv
<1>3. CASE CommitLoad(s)
  <2>1. Ordinary' \subseteq Ordinary
    BY <1>3 DEF CommitLoad, Promote, NoLoader, Loader, Ordinary, NotReplaced, Occupied, IInv, TypeOK
  <2>2. IdleReplacesNothing'
    BY <1>3 DEF CommitLoad, NoLoader, Loader, IdleReplacesNothing, BudgetInv, IInv, TypeOK
  <2> QED
    BY <1>1, <2>1, <2>2, ShrinkKeepsBudget DEF BudgetInv
<1>4. CASE CommitReplace(s)
  <2> DEFINE o == loader[s].old
  <2>1. /\ o \in Sessions /\ o # s /\ slots[o] = "Live"
        /\ loader[o].stage = "none" /\ closer[o].stage = "none"
    BY <1>4
    DEF CommitReplace, IInv, TypeOK, BuiltReplaces, OwnerFindsItsSlot, CloserRec, CloseStage,
        LoaderRec, LoadStage, Sessions
  <2>2. o \in Ordinary
    BY <2>1 DEF Ordinary, NotReplaced, Occupied, BudgetInv, IdleReplacesNothing
  <2>3. /\ \A x \in Sessions : x # s => loader'[x] = loader[x]
        /\ \A x \in Sessions : x # o => closer'[x] = closer[x]
        /\ closer'[o].stage = "closing" /\ closer'[o].cause = "replace"
        /\ loader'[s] = NoLoader
        /\ \A x \in Sessions : x # s /\ x # o => slots'[x] = slots[x]
    BY <1>4, <2>1 DEF CommitReplace, Closer, IInv, TypeOK
  <2>4. Ordinary' \subseteq (Ordinary \ {o}) \cup {s}
    BY <2>3 DEF Ordinary, NotReplaced, Occupied
  <2>5. IdleReplacesNothing'
    BY <2>3 DEF IdleReplacesNothing, BudgetInv, NoLoader, Loader
  <2> HIDE DEF o
  <2> QED
    BY <1>1, <2>2, <2>4, <2>5, SwapKeepsBudget DEF BudgetInv
<1>5. CASE FactoryFails(s) \/ TearDown(s) \/ PanicLoader(s)
  <2>1. PICK U : FailLoad(s, U)
    BY <1>5 DEF FactoryFails, TearDown, PanicLoader, DropLoadGuard
  <2>2. Ordinary' \subseteq Ordinary /\ IdleReplacesNothing'
    BY <2>1, ForgetKeepsOrdinary DEF FailLoad, IInv, BudgetInv
  <2> QED
    BY <1>1, <2>2, ShrinkKeepsBudget DEF BudgetInv
<1> QED
  BY <1>2, <1>3, <1>4, <1>5 DEF LoadTask

\* The steps of a close owner and of a replacement by a live session.
LEMMA CloseTaskKeepsBudget ==
  ASSUME IInv, BudgetInv, NEW s \in Sessions, CloseTask(s)
  PROVE  BudgetInv'
<1>1. phase' = phase
  BY DEF CloseTask, ArmCloser, BeginRuntimeClose, CompleteClose, PanicCloser, DropCloseGuard,
         stopVars
<1>2. CASE ArmCloser(s) \/ BeginRuntimeClose(s)
  <2>1. PICK stage \in CloseStage \ {"none"} : closer' = CloserAt(s, stage)
    BY <1>2 DEF ArmCloser, BeginRuntimeClose, CloseStage
  <2>2. /\ closer'[s].cause = closer[s].cause /\ closer[s].stage # "none"
        /\ closer'[s].stage # "none"
        /\ \A x \in Sessions : x # s => closer'[x] = closer[x]
    BY <1>2, <2>1 DEF ArmCloser, BeginRuntimeClose, CloserAt, Closer, IInv, TypeOK
  <2>3. Ordinary' = Ordinary /\ IdleReplacesNothing'
    BY <1>2, <2>2
    DEF ArmCloser, BeginRuntimeClose, regVars, Ordinary, NotReplaced, Occupied, IdleReplacesNothing, BudgetInv
  <2> QED
    BY <1>1, <2>3 DEF BudgetInv
<1>3. CASE CompleteClose(s) \/ PanicCloser(s)
  <2>1. Ordinary' \subseteq Ordinary /\ IdleReplacesNothing'
    BY <1>3, ForgetKeepsOrdinary
    DEF CompleteClose, PanicCloser, DropCloseGuard, FinishClose, IInv, BudgetInv
  <2> QED
    BY <1>1, <2>1, ShrinkKeepsBudget DEF BudgetInv
<1> QED
  BY <1>2, <1>3 DEF CloseTask

LEMMA RepointKeepsBudget ==
  ASSUME IInv, BudgetInv, NEW o \in Roots, RepointCall(o)
  PROVE  BudgetInv'
<1>1. phase' = phase /\ loader' = loader
  BY DEF RepointCall, CommitRepoint, RefuseRepoint, stopVars
<1>2. Ordinary' \subseteq Ordinary
  <2>1. CASE CommitRepoint(o)
    BY <2>1
    DEF CommitRepoint, Closer, Ordinary, NotReplaced, Occupied, IInv, TypeOK, OwnerFindsItsSlot, CloserRec,
        CloseStage, Sessions
  <2>2. CASE RefuseRepoint(o)
    BY <2>2 DEF RefuseRepoint, Ordinary, NotReplaced, Occupied
  <2> QED
    BY <2>1, <2>2 DEF RepointCall
<1> QED
  BY <1>1, <1>2, ShrinkKeepsBudget DEF BudgetInv, IdleReplacesNothing

\* Up to the abort phase the shutdown only closes; from then on the budget is not claimed.
LEMMA ShutdownKeepsBudget ==
  ASSUME IInv, BudgetInv, Shutdown
  PROVE  BudgetInv'
<1>1. CASE BeginShutdown
  BY <1>1
  DEF BeginShutdown, BudgetInv, IdleReplacesNothing, Ordinary, NotReplaced, Occupied, regVars, taskVars
<1>2. ASSUME NEW s \in Sessions, ShutdownClose(s) PROVE BudgetInv'
  <2>1. phase' = phase /\ loader' = loader
    BY <1>2 DEF ShutdownClose, Cascade, taskVars
  <2>2. phase # "aborting" => Ordinary' \subseteq Ordinary
    <3>1. CASE Cascade(s)
      BY <3>1, CascadeKeepsOrdinary DEF Cascade
    <3>2. CASE UNCHANGED <<regVars, taskVars>>
      BY <3>2 DEF regVars, taskVars, Ordinary, NotReplaced, Occupied
    <3> QED
      BY <1>2, <3>1, <3>2 DEF ShutdownClose
  <2> QED
    BY <2>1, <2>2, ShrinkKeepsBudget DEF BudgetInv, IdleReplacesNothing
<1>3. CASE TakeOwnerTasks
  <2>1. phase' = "aborting"
    BY <1>3 DEF TakeOwnerTasks
  <2>2. IdleReplacesNothing'
    BY <1>3 DEF TakeOwnerTasks, Loader, IdleReplacesNothing, BudgetInv, IInv, TypeOK
  <2> QED
    BY <2>1, <2>2 DEF BudgetInv
<1>4. ASSUME NEW s \in Sessions, AbortLoader(s) \/ AbortCloser(s) PROVE BudgetInv'
  <2>1. phase = "aborting" /\ phase' = phase
    BY <1>4
    DEF AbortLoader, AbortCloser, DropLoadGuard, DropCloseGuard, stopVars, IInv, DoomedOnlyByAbort
  <2>2. IdleReplacesNothing'
    <3>1. CASE DropLoadGuard(s)
      BY <3>1, ForgetKeepsOrdinary DEF DropLoadGuard, FailLoad, IInv, BudgetInv
    <3>2. CASE DropCloseGuard(s)
      BY <3>2, ForgetKeepsOrdinary DEF DropCloseGuard, FinishClose, IInv, BudgetInv
    <3>3. CASE loader' = [loader EXCEPT ![s] = NoLoader] \/ loader' = loader
      BY <3>3 DEF NoLoader, Loader, IdleReplacesNothing, BudgetInv, IInv, TypeOK
    <3> QED
      BY <1>4, <3>1, <3>2, <3>3 DEF AbortLoader, AbortCloser
  <2> QED
    BY <2>1, <2>2 DEF BudgetInv
<1> QED
  BY <1>1, <1>2, <1>3, <1>4 DEF Shutdown

LEMMA NextKeepsBudget == IInv /\ BudgetInv /\ [Next]_vars => BudgetInv'
<1> SUFFICES ASSUME IInv, BudgetInv, [Next]_vars PROVE BudgetInv'
  OBVIOUS
<1>1. CASE \E s \in Sessions : DropLeaked(s)
  BY <1>1
  DEF DropLeaked, BudgetInv, IdleReplacesNothing, Ordinary, NotReplaced, Occupied, regVars, taskVars, stopVars
<1>2. CASE \E s \in Deletable : FinishDelete(s)
  BY <1>2
  DEF FinishDelete, BudgetInv, IdleReplacesNothing, Ordinary, NotReplaced, Occupied, regVars, taskVars, stopVars
<1>3. CASE UNCHANGED vars
  BY <1>3
  DEF vars, BudgetInv, IdleReplacesNothing, Ordinary, NotReplaced, Occupied, regVars, taskVars, stopVars
<1> QED
  BY <1>1, <1>2, <1>3, RequestsKeepBudget, LoadTaskKeepsBudget, CloseTaskKeepsBudget,
     RepointKeepsBudget, ShutdownKeepsBudget
  DEF Next

LEMMA InitBudget == Init => BudgetInv
<1> SUFFICES ASSUME Init PROVE BudgetInv
  OBVIOUS
<1>1. Ordinary = {}
  BY DEF Init, Ordinary, NotReplaced, Occupied
<1>2. Cardinality(Ordinary) <= MaxSessions
  BY <1>1, FS_EmptySet, ConstantsAssumption
<1>3. IdleReplacesNothing
  BY DEF Init, IdleReplacesNothing, NoLoader, Loader
<1> QED
  BY <1>2, <1>3 DEF BudgetInv

\* The occupied slots are the ordinary ones and the two kinds of extra slots.
LEMMA BudgetInvImpliesBudget == BudgetInv => SlotBudget
<1> DEFINE A == {n \in Sessions : loader[n].old # NoSession}
           B == {o \in Sessions : closer[o].stage # "none" /\ closer[o].cause = "replace"}
<1>1. Occupied \subseteq (Ordinary \cup A) \cup B
  BY DEF Ordinary, NotReplaced, Occupied
<1>2. A \subseteq Sessions /\ B \subseteq Sessions /\ Ordinary \subseteq Sessions
  BY OrdinaryOccupied
<1>3. SlotBudget <=> (phase # "aborting" =>
                        Cardinality(Occupied) <= MaxSessions + Cardinality(A) + Cardinality(B))
  BY DEF SlotBudget
<1> HIDE DEF A, B
<1>4. ASSUME NEW S \in SUBSET Sessions, NEW T \in SUBSET Sessions
      PROVE  Cardinality(S \cup T) <= Cardinality(S) + Cardinality(T)
  <2>1. /\ IsFiniteSet(S) /\ IsFiniteSet(T)
        /\ Cardinality(S) \in Nat /\ Cardinality(T) \in Nat /\ Cardinality(S \cap T) \in Nat
    BY SessionsFinite
  <2>2. Cardinality(S \cup T) = Cardinality(S) + Cardinality(T) - Cardinality(S \cap T)
    BY <2>1, FS_Union
  <2> QED
    BY <2>1, <2>2
<1>5. Cardinality(Occupied) <= Cardinality((Ordinary \cup A) \cup B)
  BY <1>1, <1>2, SessionsFinite, FS_Subset
<1>6. /\ Cardinality((Ordinary \cup A) \cup B) <= Cardinality(Ordinary \cup A) + Cardinality(B)
      /\ Cardinality(Ordinary \cup A) <= Cardinality(Ordinary) + Cardinality(A)
  BY <1>2, <1>4
<1>7. /\ Cardinality(Ordinary) \in Nat /\ Cardinality(A) \in Nat /\ Cardinality(B) \in Nat
      /\ Cardinality(Ordinary \cup A) \in Nat /\ Cardinality((Ordinary \cup A) \cup B) \in Nat
      /\ Cardinality(Occupied) \in Nat
  BY <1>2, OrdinaryOccupied, SessionsFinite
<1> QED
  BY <1>3, <1>5, <1>6, <1>7, ConstantsAssumption DEF BudgetInv

\* Loads and children never take more than max_sessions slots: whatever overlaps, only
\* replacements in flight and replaced sources that still close come on top.
THEOREM CapacityRespected == Spec => []SlotBudget
BY InitBudget, NextKeepsBudget, BudgetInvImpliesBudget, RegistryInvariant, PTL DEF Spec
=============================================================================
