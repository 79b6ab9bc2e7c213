\* Two roots that replace each other, two child ids, deletes of both roots.
CONSTANTS
  Roots = {r1, r2}
  Children = {c1, c2}
  NoSession = NoSession
  MaxSessions = 3
  Deletable = {r1, r2}
  ShutdownAllowed = FALSE
SPECIFICATION Spec
SYMMETRY RegistrySymmetry
INVARIANTS
  TypeOK
  OwnerFindsItsSlot
  SlotHasOwner
  ChildIndexExact
  CloseWaitsForChild
  RuntimeOwned
  NoSlotWhileDeleting
  SlotBudget
PROPERTIES
  CloseNotLost
  ImplementsLifecycle
