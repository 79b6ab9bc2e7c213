# TLA+ verification of the cocode session server

cocode (`src/coco-rs`) is a terminal coding agent in Rust. A process hosts many
conversations ("sessions"); terminal, SDK and sidecar clients attach to them through an app
server. This directory holds TLA+ models of the session server's core, the TLC instances
that check them, and TLAPS proofs of their main properties.

Paths below are relative to `src/coco-rs`.

## Inventory

| Component | State | Operations | What is hard | What makes it correct |
|---|---|---|---|---|
| Live-session registry (`app/server/src/registry.rs`) | one slot per id (Loading, Live, Closing), registration policies, parent-child index, blocked parents, ids being deleted | begin/complete of load, child load, close, replace, delete | every caller interleaves; a close may meet a load; parent and child move together | no lost close, one child per parent, no slot over a delete |
| Owner tasks and shutdown (`app/server/src/app_server.rs`, `app/agent-host/.../session_close.rs`) | one tokio task per Loading or Closing slot, its `OwnerGuard`, completions | `spawn_load`, `spawn_child_load`, `spawn_close`, `spawn_replace`, `spawn_replace_to_live`, `spawn_shutdown`, abort | panics, aborts, refused commits, tasks waiting for tasks | no wedged slot, no dropped runtime, loads and closes end, shutdown drains |
| Sequence allocator and watermark (`app/server/src/session_seq.rs`, `outbound.rs`, resume and close paths of agent-host) | per-session counter, last number issued, persist gate, watermark in the transcript | `next`, persist hook, close-time anchor, restore on resume | hook outside the lock, asynchronous writes, crash, stale reads | numbers grow across restarts, the watermark is not inflated |
| Routing table, retention and replay (`app/server/src/lib.rs`) | attachments, queues, per-session ring | attach, detach, subscribe, route, disconnect | eviction boundary, dropped slow connections, ring of an ended incarnation | replay is gap-free |
| Server requests (`lib.rs`, `app_server.rs`, `json_rpc_adapter.rs`) | connections, attachments with access, grants, callback owners, pending approvals and questions, reply waiters | attach, detach, route, answer, withdraw, expire, cancel a turn, close, replace | answer against timeout, disconnect or close; a slow connection dropped inside another call | every waiter is resolved, accepted answers arrive, only entitled connections are asked |
| Idle supervisor (`idle_session_supervisor.rs`) | idle times | close unattached sessions | attach racing the close | never closes an attached session |
| Session write lease (`app/session/src/lease.rs`) | process-local set and OS lock | acquire, release | two layers, several processes | one writer per transcript |
| Turn coordinator (`session_runtime/turn.rs`, turn handlers and executor, `goal_driver.rs`) | turn slot, tombstone, shared history | turn start, goal burst, shortcut, interrupt, commit, release, drain and close | admission against close, panics, a release that names no turn | one engine per history, no commit lost, the slot is given back, the close ends |
| Query engine, tool executor | command queue, running tools | tool batches | cancellation, ordering of results | results in order |
| Background tasks (`tasks/`), goals (`core/goals`) | task and goal status | status reducers | kill against completion | terminal states are final |
| Provider authentication (`services/provider-auth`) | token cell, stored credential, permit, lock file | first touch, refresh, login, logout | rotating tokens, several processes, crash before persist, logout against refresh | a refresh token is spent once, a logout is final |
| Hub connector (`hub/connector`, ingest of `hub/server`) | channel, dropped ranges, pending queue, hub's events and cursors | enqueue, mark drops, ship, ack, resume, trim, flush | reconnects, overflow, late frames, rejected batches | every number is delivered or reported dropped, once |
| Maintenance lock (`maintenance/`) | lock file | acquire, reclaim, roll back | check-then-unlink | one holder |
| Mailbox (`coordinator/src/mailbox`) | inbox file and lock file | append, mark read | read-modify-write | no message is lost |
| TUI, provider SDKs, MCP/LSP clients, hooks, memory, retrieval, permissions, compaction, config reload | | | data, text and I/O | not planned, see below |

The parts meet as follows. A client request reaches an agent-host handler, which calls the
app server. The app server reserves a slot in the registry and spawns an owner task, which
builds or closes the runtime and completes the slot; waiters hold a completion that fires
with the slot. A runtime's events go to a forwarder task, which numbers them with the
allocator and hands them to the routing table (and to the hub connector); the routing table
retains them and delivers them to attached connections. Close writes the last number to the
transcript and resume reads it back.

PROJECT.json lists every component and every hazard at its source line.

## Modules

* `SessionLifecycle` - the abstract specification of the registry: absent, loading, live,
  closing per id, a parent per child, recorded closes.
* `SessionRegistry` - registry and owner tasks, with process shutdown; it refines
  `SessionLifecycle` (`ImplementsLifecycle`). `MCSessionRegistry` adds symmetry for TLC.
  `SessionRegistry_proofs` holds the theorems, `SessionRegistry_refinement` the proof of the
  refinement.
* `SeqWatermark` - allocator, watermark, close and resume, crash.
  `MCSeqWatermark` and `SeqWatermark_proofs` likewise.
* `EventReplay` - extends `SeqWatermark` by the retention ring and a client; its steps are
  steps of `SeqWatermark` conjoined with what they do to ring and client, so it composes the
  two components. `MCEventReplay`, `EventReplay_proofs`.
* `ServerRequests` - extends `SessionLifecycle` by the routing table, the pending server
  requests and their waiters: routing composed with what the registry promises rather than
  with its internals. `MCServerRequests`, `ServerRequests_proofs`.
* `HubConnector` - forwarders, connector worker and hub. `MCHubConnector`,
  `HubConnector_proofs`.
* `ProviderAuth` - a provider's credential shared by processes. `MCProviderAuth`,
  `ProviderAuth_proofs`.
* `TurnCoordinator` - the turn slot of a session, the turns that compete for it and the close
  that drains it. `MCTurnCoordinator`, `TurnCoordinator_proofs`.

### SessionRegistry

| Variable | Code |
|---|---|
| `slots`, `close_after_load` | `RegistryInner::slots`, `LoadState::close_after_load` |
| `parentOf`, `children` | `policies` (registration scope), `children` |
| `blocked_parents`, `deleting` | the fields of the same name |
| `loader[s]`, `closer[s]` | the owner task of a slot: its stage between two awaits, the close it waits for, whether shutdown has taken its handle (`doomed`), and for a replacement the source (`old`) |
| `repoint[o]` | a `spawn_replace_to_live` call between its two critical sections |
| `runtimes`, `leaked` | runtimes that hold the write lease; those whose owner died with the handle |
| `phase`, `toClose`, `toAwait` | progress of `shutdown_local_app_server_sessions` |

An action is one critical section of the registry lock or one poll of an owner task.
Requests are `SpawnLoad`, `SpawnChildLoad`, `SpawnReplace`, `BeginRepoint`, `SpawnClose`,
`BeginDelete`. A load owner arms its guard (`ArmLoader`), runs the factory, and commits
(`CommitLoad`, `CommitReplace`), is refused (`RefuseLoad`, `RefuseReplace`, then
`TearDown`), fails or panics. A close owner arms its guard (`ArmCloser`; for a close recorded
on a Loading slot, only once the load succeeded), waits for the child, closes the runtime
and completes, or panics.

Abstractions:

* a session handle is the fact that the runtime is up, so `replace_live_handle` stutters;
* a completion is the set of tasks that wait for it: the sender lives in the slot, so
  forgetting the slot releases the waiters in the same step;
* whether a connection may commit a replacement is routing state: here a commit may be
  refused at any time, `ServerRequests` has the conditions;
* `complete_replace_failure` is two critical sections in the code and one step here;
* the write lease admits one runtime per id, and the factory fails while another
  one holds it; a runtime whose owner died gives it back when its last reference is dropped
  (`DropLeaked`);
* the refinement mapping keeps `slots`, reads `asked` from `close_after_load` and `parent`
  from `parentOf`, and hides index, tasks, runtimes and shutdown;
* bounds: one repoint per source in flight, and no new request once the process aborts its
  owner tasks.

### SeqWatermark

One session, because all of the state is kept per id; 0 stands for an absent number.
`Draw` is the part of `next()` under the allocator lock, `CallHook` the part under the
persist gate, `Route` the hand-over to routing. A due watermark becomes a pending write
(`writes`) that may succeed, fail, or do nothing because the transcript does not exist yet.
`BeginClose` reads the high-water mark, `AnchorEnds` writes it, and events are still numbered
until `EndClose`. A resume reads the transcript early (`ReadTranscript`, `Restore`) whatever
the slot's state is, and again under the write lease in the load factory
(`ReadForAdmission`, `Admit`). `Crash` loses everything but the transcript.

`last` and `kept` are history: the number issued most recently, and whether every process so
far died with all due watermarks handed over and the transcript at most one interval behind.
`kept` is the precondition of the argument in the comment of `set_skip_ahead_window`.

Abstractions: the forwarder that ends a close has routed its events, others may be busy
(events that reach another forwarder after the close are not modelled); the i64 limit of the
counter is ignored.

### EventReplay

An event is its place in the routing order and its number. `RouteEvent` appends to the ring
and delivers, or drops the connection whose queue is full. `Subscribe` replays and attaches
in one step. `base` is the routing position at which the ring was last dropped: what a
subscriber must have is everything routed since. The client is external: it attaches with a
snapshot of the conversation, remembers the last number it received, and subscribes with it.
The restore's two locks (allocator, then ring) are one step.

### ServerRequests

| Variable | Code |
|---|---|
| `slot`, `asked`, `parent` | the registry as `SessionLifecycle` has it |
| `conn` | `connection_senders`: a key is new, up or gone |
| `attached`, `access` | session attachments of connections and their grants |
| `callbacks` | `callback_owners`, the stack of registrants per session |
| `pending` | `pending_server_requests` with session, audience, turn and recipients |
| `waiter`, `timers` | the reply sender of a routed request and its timeout task |
| `orphaned` | `orphaned_waiter_requests` |
| `toCancel`, `toReply` | what a call has still to do to waiters after it released the routing lock |
| `idle` | sessions that the idle supervisor closed (history) |

One action is one critical section of the routing lock (with the registry lock where the code
holds both). `slow` is the set of connections whose queue refuses a message in this step:
the code disconnects them in place (`Disconnected`), which removes the requests targeted at
them and leaves their waiters to whoever drains `orphaned` next; every call does, also one
that is refused (`RefusedCall`). `DropWaiter` and `SendReply` are the second halves of calls.
`CommitReplace`, `CommitReplaceToLive` and `ReplaceToLiveFails` move an attachment in the
step in which the lifecycle moves the slots.

### HubConnector

The producers are the forwarders, each of one session (`SessionOf`), and the senders of
everything else (`SendOther`). A forwarder draws the number and routes the event (`Stamp`),
offers it to the channel (`TryEnqueue`), and after a refusal by a full channel records the
number in `dropped` (`RecordDropped`); `hand` and `refused` are what it holds in between. No
lock spans these steps (`outbound.rs:198`, 202, 204, `worker.rs:94-107`), so the worker, the
hub and other forwarders act between them. The worker is `pc`: `LoopHead`, the drain of the channel, the test for an empty
queue (`CheckEmpty`) and the taking of the dropped ranges (`MarkDropped`) are separate steps,
because the producers share none of its locks; then a delivery: `Connect` (announce and trim),
`SendAcked`, `SendFails` (with or without the batch having reached the hub; or later, as
`late`), `DropFrontBatch` for a batch the hub rejects for good. The hub stores each number of
a session once and answers with its cursors. An item carries the set of numbers it stands
for, so that a marker's count and range can be compared with what was dropped. The filters
of the queue (`retain` of the trim, the markers kept of a rejected batch) are `Filtered`,
the one increasing enumeration of the kept positions, rather than `SelectSeq`: a recursive
definition, about which nothing can be proved for all queues.

Abstractions: at most one batch is late at a time; an envelope that cannot be converted, on
which `push_envelope` ends the worker (`worker.rs:340`), does not occur; an envelope of
another instance, which the hub skips and acknowledges (`sqlite_store.rs:461`), does not occur
either, because the worker stamps every envelope with the instance it announced.

### ProviderAuth

A credential is a generation number and the login it descends from. A task runs from await to
await: permit, lock file, answer of the endpoint. `RefreshLocked` re-reads the stored
credential and decides; `Exchange` is the endpoint's rotation; `SaveRefreshed` persists and
publishes. `Abandoned` covers every way in which a request loses its sender (crash, abort by
a logout, network failure): the request may still arrive (`StrayArrives`). `FirstTouch` and
`Insert` are the two halves of `cell_for`. The endpoint and crashes are external. The
instance has a refresher, a caller and a user in one process and a caller in the other.

### TurnCoordinator

| Variable | Code |
|---|---|
| `stage` | a request before admission (new, probed, resolved, refused), then what it became: a user turn, a burst or a shortcut |
| `slot` | `TurnLifecycleState` and the turn in it |
| `eng`, `base` | the engine of a turn and the snapshot of the history it runs on |
| `task` | `ActiveTurnHandles::turn_task`; for a shortcut its handler |
| `rel` | what releases the slot: the forwarder of a user turn, the drop guard of a burst or a shortcut |
| `cancelled` | turns whose token was cancelled |
| `history` | the shared history: which turn wrote which kind of entry |
| `closer`, `drained`, `closed` | progress of `close_runtime`, the turn it drains, the tombstone |

A handler resolves the session (`Resolve`, or `ProbeSlot` and `AppendGoal` for a goal command)
and calls the coordinator later (`StartTurn`, `Reserve`, `Refuse`); the goal driver calls it
with `StartBurst`. An engine reads the history (`ReadHistory`) and replaces it
(`CommitHistory`). `Mark` and `Complete` are the two critical sections of a release; they act
on whatever is in the slot, because the code's do. The close is `TakeForDrain`, then the task
and the forwarder with their common deadline, then `CloseCoordinator`.

Abstractions:

* requests and bursts are members of finite sets, each used once;
* the executor's terminal and the end of the turn task are one step; the order of commit and
  terminal is kept;
* a turn that compacts is a user turn: its summary stands for the entries it replaces;
* an interrupt is sent only while the session is Live; a later one would only cancel more;
* a burst's goal turns run in tasks of their own with a token of their own
  (`goal_driver.rs:179`, 263), so an aborted burst may leave one behind;
* a forwarder that loses its outbound channel at process exit, rewinds, and history writers
  local to the terminal client are left out.

## Runs

| Run | Instance | Checks |
|---|---|---|
| `registry_safety` | 2 roots, 2 child ids, 3 sessions, deletes | type, eight safety properties, the refinement `ImplementsLifecycle` |
| `registry_live` | 2 roots, 1 child, 2 sessions, shutdown | `TransitionsResolve`, `ShutdownDrains` |
| `registry_child_first` | 3 roots, 1 child | violated: `ChildTransitionsFirst` |
| `seq_safety` | 2 forwarders, interval 2, retention 1, 5 numbers, 2 crashes, 3 reads | `SeqTypeOK`, `WatermarkIssued`, `GrowsIfKept` |
| `replay_safety` | 1 forwarder, ring of 2, 5 numbers, 1 crash, 2 reads | `RingOK`, `ReplayGapFree`, `CursorGrows` |
| `replay_stale` | 1 forwarder, no crash | violated: `StaleCursorRejected` |
| `requests_safety` | 2 sessions, 2 connections, 2 requests, 1 turn, limits 1 and 2, two access levels, callbacks | type and six safety properties |
| `hub_delivery` | 2 sessions with a forwarder each, channel of 1, queue of 2, batches of 2, 3 events, 1 unparsable event | type, `CleanDelivered`, `CursorHonest`, `DropsCountedOnce`, `ShutdownFlushes`, `HubCatchesUp` |
| `hub_loss` | the same, every event parsable | violated: `TrimmedStored` |
| `turn_safety` | 2 requests, 1 burst | `SlotOwnership`, `HistoryKept`, `TurnsEnd` |
| `turn_window` | 2 requests, no burst | violated: `WindowTurnCancelled` |
| `auth_safety` | 2 processes, 4 tasks, 2 generations, 2 faults | type, `SpentOnce`, `StoredRedeemable`, `NoResurrection`, `LogoutFinal`, `CellForward` |

Why the bounds are enough to be interesting. Two roots can replace each other and be
repointed to each other at once; two child ids let a new child be admitted while the old one
closes; three sessions at capacity plus replacements exercise the capacity test and its
excess. With an interval of 2 and 5 numbers a process passes two watermarks, two crashes let
a second process start from the first one's watermark and die in turn, and a retention below
the interval is where the window's clamp matters. A ring of 2 with 5 numbers evicts. Two
connections and two requests let a broadcast have a loser, a slow recipient be dropped while
the other answers, and a replacement leave one connection behind. A channel of 1 and a queue
of 2 overflow with 3 events while two sessions interleave in one batch. Two generations and
two faults let a token be spent, its answer be lost, and a late request meet its successor;
a third generation is left to the proof, which has no bound. Two requests and a burst let a
turn end, be drained or panic while another is admitted and a third is refused or probes.

Deadlock is not checked where an instance runs out of its bounds or the process ends; it is
checked in `registry_safety`, where something can always happen.

### Fairness

* `registry_live`: weak fairness of each owner task, of the repoint call between its two
  critical sections, and of the shutdown loop. tokio polls a task that is ready, a close is
  bounded by `turn_drain_timeout`, factories return or fail, and the loop of `spawn_shutdown`
  is synchronous code. No fairness of requests, deletes or dropped references, nor of any
  single outcome of a task (success, failure and panic are one fair action).
* `turn_safety`: weak fairness of the close's steps once it has begun, which the drain's
  deadline justifies (`timeout_at`), and of the release of a turn whose task has ended, which
  is a ready task or a destructor. For a user turn it also assumes that the outbound channel
  drains: the forwarder awaits its send (`events.rs:118`). Engines and handlers need not end.
* `hub_delivery`: weak fairness of the worker's loop, and strong fairness of a connect and of
  an answered send: a worker that retries with back-off for ever is assumed to get through
  now and then. Without it nothing can be delivered. No fairness of the forwarders:
  `HubCatchesUp` excepts the numbers that are still in a forwarder's hands.

### What the violated statements show

Each is quoted in PROJECT.json with its line.

* `ChildTransitionsFirst`: of two overlapping replacements of one source, the failing one
  reopens child admission; the other then moves the parent to Closing over a Live child.
* `StaleCursorRejected`: the close-time anchor is read before the final event is numbered.
* `TrimmedStored`: the worker tests that channel and queue are empty before it takes the
  dropped ranges; an event sent in between is numbered below the marker and sent after it,
  and a reconnect trims it unsent.
* `WindowTurnCancelled`: the close empties the slot before it sets the tombstone. A turn
  admitted in between is demoted to Finishing, or its slot freed, by the release of the
  drained turn, and `close()` then has no token to cancel.

`GrowsIfKept`, `ReplayGapFree` and `CleanDelivered` show what does hold instead: every number
drawn is above all drawn before it while watermarks were persisted in time, replay is gap-free
within an incarnation and with one forwarder, and a session with one forwarder and without
drops is delivered complete.

### Other disagreements seen, without a run of their own

* While the transcript does not exist yet a watermark is dropped silently
  (`app/session/src/lib.rs:326`), and a crash may also come while one is in flight; numbers are
  then used again, against `session_seq.rs:11-13` ("strictly above anything the previous
  process epoch can have emitted"). `GrowsIfKept` has the condition under which they are not.
* While a close drains, a second engine may start over the shared history (the slot is empty),
  against `goal_driver.rs:98-100`; `SlotOwnership` and `HistoryKept` speak of the time before
  the close for this reason. An aborted burst leaves its goal turn running.
* `turn.rs:241-243` says a slot leaves Reserved only by `release_reservation`; `take_for_drain`
  takes it as well.
* `goal_driver.rs:318-321`: the burst reports back before its guard has released the slot, so
  the next burst may be refused and its edge be consumed.
* The status and text that a goal command appends before its turn starts are not protected by
  the slot (`turn_shortcuts.rs:227`, 275): the commit of a turn that started since the probe
  overwrites them. `HistoryKept` is about what turns and shortcuts write.
* A task aborted before its `OwnerGuard` is armed leaves its slot (`app_server.rs:980`, against
  the comment at 1427); at the end of process shutdown only. `SlotHasOwner` excludes it.
* A replacement whose factory panics completes the new id's slot and leaves the source in
  `blocked_parents` (`app_server.rs:1465`, against `registry.rs:25-26`).
* With two forwarders for one session (sidecar listeners) stamping and routing are two
  critical sections (`outbound.rs:198`); the ring loses its order and replay may miss an event
  (`protocol-scope.md:100`). `replay_safety` has one forwarder for this reason.
* The same forwarders share the hub egress (`remote_bridge.rs:172`, `dispatcher.rs:145`,
  `local_bridge.rs:158`) and offer to its channel in a third step (`outbound.rs:204`). So 2 may
  enter the channel before 1; once the hub has 2 its cursor is 2, and if the connection breaks
  before 1 is sent the reconnect trims 1 (`worker.rs:639-643`) with no drop counted: another
  way to what `TrimmedStored` finds. With both forwarders given to one session and the
  properties stated for every session, TLC finds the cursor wrong within ten states.
  `CleanDelivered`, `CursorHonest` and `HubCatchesUp` are therefore about the sessions in
  `OneForwarder`; `DropsCountedOnce` holds for any number of forwarders.
* A Full grant survives the close of its session, so a connection that attaches again in full
  is not offered the pending broadcasts (`current-architecture.md:81-83`).
* The attach-error path of replace-to-live does not drain the orphaned waiters
  (`current-architecture.md:84-85`); the next call or the timeout does, see `NoStrandedWaiter`.
* The hub worker does not poll its shutdown signal while it is offline; `ShutdownFlushes` rests
  on connects that succeed in the end. Markers of a rejected batch are queued again at the
  back and may be trimmed.
* A process whose token cell was emptied because another process logged out does not adopt a
  later login of another process until it restarts.

## Proofs

`SessionRegistry_proofs` proves, for any finite sets of roots and children and any
`MaxSessions > 0` (`ConstantsAssumption`), that `IInv` is an invariant and from it
`TypeCorrect`, `OwnersMatchSlots`, `NoWedgedSlot`, `ChildIndexCorrect`,
`DeleteExcludesSlots`, `ChildClosesFirst`, `RuntimesAccountedFor`, `RecordedCloseKept` and
`CapacityRespected`.
The properties alone are not inductive. `IInv` adds

* `RecordedOnLoading`: a close is only ever recorded on a Loading slot;
* `DoomedOnlyByAbort`: owner tasks are aborted only in the last phase of shutdown, so before
  that a task ends through its guard or its completion call, which is what `SlotHasOwner`
  rests on;
* `BuiltReplaces`: an owner that holds a built, unpublished runtime is a replacement's and
  knows its source;
* `RuntimeExact`: the runtimes that are up and not leaked are exactly those of Live and
  Closing slots and of owners between factory and commit or teardown;
* `CloserTracksChild`: the close owner of a parent waits for the child the index names, or
  there is none. No child is admitted meanwhile because the parent is not Live.

There is one lemma per action (or pair of actions), and lemmas for the shared parts
(`Forget`, the cascade).

`SlotBudget` needs an invariant of its own, `BudgetInv`. The commit of a replacement moves a
slot from one of its counts to the other, so the sum is the wrong thing to follow. `BudgetInv`
follows the *ordinary* slots, those that are neither a replacement in flight nor a replaced
source: there are at most `MaxSessions` of them. A reservation adds one after the capacity
test over all slots, a commit swaps one for another (its source is Live, hence ordinary,
because a Live slot has no owner task and a task that is not there replaces nothing), and
every other step only removes. The two kinds of extra slots come on top by cardinality.

`SeqWatermark_proofs` proves, for every interval, retention and set of forwarders
(`SeqAssumption`), that `SeqInv` is an invariant, and `WatermarkNotInflated` and
`NumbersGrow`, with the types (`SeqTypeCorrect`). `SeqInv` adds

* `WithinIssued`: whatever this process has drawn, gated, queued or anchored it has issued,
  and a watermark read by a resume is at most the one on disk;
* `FreshWatermark`: some due watermark, given to the hook or about to be, is less than one
  interval behind the last number issued;
* `StartsAbove`: while `kept`, a process that has issued nothing has read, or will read, a
  watermark within one window of the last number, and runs only with a counter above it.

`NumbersGrow` is about every draw (`draws' # draws`), so that two forwarders cannot be given
one number either. The step that matters is the crash: `kept` bounds the gap between gate and disk by one
interval, `FreshWatermark` the gap between the last number and the gate by another, and the
window is at least both together.

`SessionRegistry_refinement` proves `RegistryImplementsLifecycle`: the initial state maps to
an initial state and every step to a lifecycle step or a stutter, one lemma per action. The
mapping drops the child index, so the step lemmas rest on `ChildIndexExact`: the child the
index names is the one the lifecycle finds by its parent. Steps that the code guards by a
foreign-state check (`SlotConflict`) map because `OwnerFindsItsSlot` rules the conflict out.

`ServerRequests_proofs` proves, for any sessions, connections, requests, turns and limits,
that `RInv` is an invariant, and `RoutingTypeCorrect`, `WaitersAccountedFor`,
`AcceptedAnswerDelivered`, `RecipientsCorrect`, `NothingLeftBehind`, `IdleCloseSafe` and
`LimitsRespected`. `RInv` is two invariants:

* `TableInv`: slots, connections, grants, attachments and pending entries agree. Its body
  takes the tables as parameters and leaves aside a set of requests that the step is about to
  remove, because one call disconnects slow connections and removes entries in turn;
* `WaiterInv`: a pending request has a waiter and a timer and is in nobody's hands, an orphaned
  one still has its timer, an answered one is in no other hands. This is what makes an
  expiry that comes between acceptance and delivery of an answer harmless.

`AttachmentLimits` is inductive given the types: every step removes attachments, or adds one
for which `HasRoom` held. Where a replacement finds room only because its source counts as
given up, the attachment to the source goes in the same step, so the set swaps a member.

`ProviderAuth_proofs` proves, for any processes, tasks, generations and faults, that `AInv` is
an invariant, and `RefreshTokenSpentOnce`, `StoredTokenRedeemable`, `LogoutNotUndone`,
`LogoutIsFinal`, `CellMovesForward` with the types. `AInv` says who is in the critical section
and that what it carries stems from what is stored (`SectionInv`), that all numbers were minted
(`MintInv`), that an unsaved token is fresh and that a stray request carries a given-up token
(`TokenInv`), and how credentials of different logins stay apart (`LoginInv`).

`TurnCoordinator_proofs` proves, for any sets of requests and bursts, that `TInv` is an
invariant, and `TurnTypeCorrect`, `SlotOwned` and `HistoryNotLost`. `TInv` adds to the types
how a turn's kind, task, engine and release go together (`StageInv`), that the turn in the
slot is unfinished (`SlotInv`), that the close waits for a turn it has really taken
(`DrainInv`), and, while the session is open, that every turn with its release ahead is the
one in the slot and that an engine's snapshot still holds all that was written (`LiveInv`).
The last part is what makes an un-keyed release safe before a close, and is what the close
gives up.

`EventReplay_proofs` proves `RingCorrect` for any number of forwarders, and `ReplayIsGapFree`
and `ClientNumbersGrow` under `AtMostOneForwarder`, for every retention, interval and number
of crashes and reads. The hypothesis is about a constant and is the condition under which
the code keeps the property: with two forwarders stamping and routing are two critical
sections and the ring loses its order (see above; TLC finds the gap at once). The proof
extends `SeqWatermark_proofs` and reuses `SeqInv` for every allocator step. `RingInv` adds
`RingIsSuffix`: the ring is the last `Retention` events of the incarnation, without a hole.
`ReplayInv` adds

* `InOrder`: the ring is in the order of the numbers, and a number that is drawn and not yet
  routed is above the ring and above the client's cursor. This is where one forwarder and
  `kept` are needed;
* `KnowsPrefix`: the client knows the events of the incarnation up to some position, the last
  one while it is attached, and `Misses` of that position: what it lacks and the ring has is
  above its cursor, and if something it lacks was evicted, `replay_after` answers TooOld. The
  position is existential because a client that lost its connection stays behind while
  the ring moves on. The `- 1` in `TooOld` (the first retained number may be the next one) is
  exactly what `Misses` needs at the eviction boundary.

`HubConnector_proofs` proves, for any sessions, forwarders, announced sets, unparsable events, capacities
of channel and queue, batch sizes and numbers of events (`HubAssumption`), that `HubInv` is an
invariant, and `HubTypeCorrect`, `NoSilentLoss`, `CursorsHonest` and `DropsCounted`. None of
the three is inductive. `HubInv` adds

* `EventsInOrder` and `HeldBehind`: through the queue, then the channel, then the forwarders'
  hands, the numbers of a session are distinct, and in order if it has one forwarder
  (`Before`). Without the order an acknowledged prefix or a trim by cursor could take an event
  that was not stored; with two forwarders the code does not give it, and nothing is claimed;
* `GapFree(late)`: below an event of a batch on its way, the hub has, or gets with the batch,
  every number of a session without drops. A batch is a prefix of the queue, so it starts out
  gap-free, and the hub only gains events, so it stays so however late it arrives. This is what
  makes `CursorHonest` survive a late frame;
* `CountedApart`: no range and no marker counts an event that is still in the channel or the
  queue, and all are disjoint. The first part is what keeps a rejected batch, whose events
  become a new range, from counting a number again;
* `CleanUnmarked`: only sessions with drops have ranges or markers, so markers never move the
  cursor of a clean session;
* `Leaving` and `Stamped`: no two forwarders hold one number, what is in hand at the request to
  shut down is not due, and what may be left in the channel when the worker returns, or finds
  it closed, was offered after the request.

Only model-checked: the liveness properties `TransitionsResolve`, `ShutdownDrains`,
`TurnsEnd`, `ShutdownFlushes` and `HubCatchesUp` (fairness and ENABLED are out of the
prover's reach). Every invariant and action property of the passing runs, and the
refinement, has a theorem.

## Not modelled

* The TUI, provider SDKs, MCP and LSP clients, hooks, memory, retrieval: presentation, wire
  formats and external processes, with little state shared between concurrent actors. They are
  most of the repository's lines.
* Permissions, compaction, config reload: sequential functions over text; their decision
  order could be checked as pure operators.
* Transcript storage apart from the watermark entry.
* Of the routing table: lifecycle notifications, JSON-RPC parsing, replies of a wrong kind,
  the routing of child sessions. The stack of callback owners (`callbacks`) is kept as
  the code keeps it, but a request may be addressed to any connection, whoever owns the
  callback, and no property depends on the stack.
* Of the hub: back-off times, queries, a worker that ends on an envelope it cannot convert,
  and a restart of the process, which loses channel and queue.
* Of provider authentication: expiry times, login epochs, flows that do not rotate, the
  keyring and file backends behind the store (a stale copy in one can shadow the other,
  `store.rs:282-301`), a refresher that ended with an expired session. `StoredRedeemable` is
  about spent tokens: a token that a logout revoked and failed to delete is outside it.
* Of turns: accounting, the command queue, the contents of events, rewinds, writers local to
  the terminal client.
* The maintenance lock: its own module comment accepts the race between stat and unlink.

## Plan

1. `SessionLease` and `Mailbox`: small multi-process modules with crashes; the lease replaces
   the one-process abstraction in `SessionRegistry`. `MaintenanceLock` with its accepted race
   as an explicit step.
2. Tool executor batches, background task status, the command queue of the query engine.
3. Proofs: invariants of the modules of 1 and 2; conditions other than one forwarder under
   which replay stays gap-free.
