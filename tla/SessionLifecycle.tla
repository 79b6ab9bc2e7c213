------------------------- MODULE SessionLifecycle -------------------------
(***************************************************************************)
(* What the live-session registry promises to the rest of the app server:  *)
(* a session id is absent, loading, live or closing; a side-chat child     *)
(* belongs to one parent; a close asked for while a session loads is kept. *)
(*                                                                         *)
(* This is the abstract specification of registry.rs.  SessionRegistry,    *)
(* with its index, its owner tasks, its runtimes, its panics and its       *)
(* shutdown, implements it; ServerRequests is built on it.                 *)
(***************************************************************************)
EXTENDS FiniteSets

CONSTANTS Ids, NoId

VARIABLES
  slot,    \* lifecycle state of each id
  asked,   \* ids that load and have been asked to close
  parent   \* the parent of a child id, NoId otherwise

lifecycleVars == <<slot, asked, parent>>

SlotState == {"Absent", "Loading", "Live", "Closing"}

LifecycleInit ==
  /\ slot = [s \in Ids |-> "Absent"]
  /\ asked = {}
  /\ parent = [s \in Ids |-> NoId]

\* The children of s.  There is no index here: a child is found by its parent.
ChildrenOf(s) == {c \in Ids : parent[c] = s /\ slot[c] # "Absent"}

\* The slots and the recorded closes once every id of T has been asked to close.
ClosingSlots(T) ==
  [x \in Ids |-> IF x \in T /\ slot[x] = "Live" THEN "Closing" ELSE slot[x]]

AskedWith(T) == asked \cup {x \in T : slot[x] = "Loading"}

\* A session whose load succeeds is published, or closes at once if asked to.
Published(s) == IF s \in asked THEN "Closing" ELSE "Live"

\* A session starts to load; a child does so under a live parent that has none.
Reserve(s, p) ==
  /\ slot[s] = "Absent"
  /\ p # NoId => slot[p] = "Live" /\ ChildrenOf(p) = {}
  /\ slot' = [slot EXCEPT ![s] = "Loading"]
  /\ parent' = [parent EXCEPT ![s] = p]
  /\ UNCHANGED asked

\* A session starts to load as the successor of o, whose child is asked to close.
ReserveSuccessor(o, s) ==
  /\ slot[o] = "Live"
  /\ slot[s] = "Absent"
  /\ slot' = [ClosingSlots(ChildrenOf(o)) EXCEPT ![s] = "Loading"]
  /\ asked' = AskedWith(ChildrenOf(o))
  /\ parent' = [parent EXCEPT ![s] = parent[o]]

Publish(s) ==
  /\ slot[s] = "Loading"
  /\ slot' = [slot EXCEPT ![s] = Published(s)]
  /\ asked' = asked \ {s}
  /\ UNCHANGED parent

\* The successor s is published and o starts to close, in one step.
Succeed(o, s) ==
  /\ slot[o] = "Live"
  /\ slot[s] = "Loading"
  /\ slot' = [slot EXCEPT ![s] = Published(s), ![o] = "Closing"]
  /\ asked' = asked \ {s}
  /\ UNCHANGED parent

\* s and its child are asked to close, together.
Close(s) ==
  LET T == {s} \cup ChildrenOf(s) IN
  /\ slot[s] # "Absent"
  /\ slot' = ClosingSlots(T)
  /\ asked' = AskedWith(T)
  /\ UNCHANGED parent

\* o is about to be left for another live session: its child is asked to close.
Vacate(o) ==
  /\ slot[o] = "Live"
  /\ slot' = ClosingSlots(ChildrenOf(o))
  /\ asked' = AskedWith(ChildrenOf(o))
  /\ UNCHANGED parent

\* o is left for the live session s.
Leave(o, s) ==
  /\ slot[o] = "Live" /\ slot[s] = "Live"
  /\ o # s
  /\ slot' = [slot EXCEPT ![o] = "Closing"]
  /\ UNCHANGED <<asked, parent>>

\* A load failed, or a close completed: nothing of the id is left.
Retire(s) ==
  /\ slot[s] \in {"Loading", "Closing"}
  /\ slot' = [slot EXCEPT ![s] = "Absent"]
  /\ asked' = asked \ {s}
  /\ parent' = [parent EXCEPT ![s] = NoId]

LifecycleNext ==
  \/ \E s \in Ids, p \in Ids \cup {NoId} : Reserve(s, p)
  \/ \E o, s \in Ids : ReserveSuccessor(o, s) \/ Succeed(o, s) \/ Leave(o, s)
  \/ \E s \in Ids : Publish(s) \/ Close(s) \/ Vacate(s) \/ Retire(s)

LifecycleSpec == LifecycleInit /\ [][LifecycleNext]_lifecycleVars
=============================================================================
