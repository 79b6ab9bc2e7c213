--------------------------- MODULE ServerRequests ---------------------------
(***************************************************************************)
(* Connections, session grants and attachments, and the requests a session *)
(* sends to its clients (approvals, user input, hook and MCP callbacks)    *)
(* with the waiters that hang on their answers.                            *)
(*                                                                         *)
(* Source: app/server/src/lib.rs (RoutingState) and the wrappers of        *)
(* app/server/src/app_server.rs, composed with the session lifecycle of    *)
(* SessionLifecycle.                                                       *)
(*                                                                         *)
(* One action is one critical section of the routing lock (with the        *)
(* registry lock where the wrapper holds both).  What a wrapper does with  *)
(* the waiter map after it released the lock is a step of its own:         *)
(* DropWaiter or SendReply.  Abstractions:                                 *)
(*  - a full or closed client queue is a member of `slow': the connections *)
(*    to which a send of this step fails, and which it disconnects;        *)
(*  - a connection key is generated once and never connects again;         *)
(*  - a request is its session, audience, turn and recipients; calls with  *)
(*    a wrong session or a reply of a wrong kind are refused like any      *)
(*    other call that finds nothing (RefusedCall);                         *)
(*  - side-chat children are routed like every other session: there is no  *)
(*    parent here.                                                         *)
(***************************************************************************)
EXTENDS SessionLifecycle, Naturals, Sequences

CONSTANTS
  Conns,              \* connection keys
  Requests,           \* request ids, each minted once
  Turns, NoTurn,      \* turn ids; NoTurn: the request belongs to no turn
  AllFull,            \* the audience AllFullConnections
  MaxSessionsPerConn, \* max_attached_sessions_per_connection
  MaxConnsPerSession, \* max_connections_per_session
  Levels,             \* access levels clients attach with (bound of the instance)
  CallbackIds         \* sessions on which a callback is registered (bound of the instance)

ASSUME RoutingAssumption ==
  /\ IsFiniteSet(Conns) /\ IsFiniteSet(Ids)
  /\ AllFull \notin Conns
  /\ NoTurn \notin Turns
  /\ NoId \notin Ids
  /\ MaxSessionsPerConn \in Nat \ {0} /\ MaxConnsPerSession \in Nat \ {0}
  /\ CallbackIds \subseteq Ids /\ Levels \subseteq {"read", "full"}

VARIABLES
  conn,      \* "new": not connected yet, "up": it has its senders, "gone"
  access,    \* session grant of each connection
  attached,  \* attachments: pairs of a connection and a session
  callbacks, \* registration stack of each session's callback, front first
  pending,   \* pending_server_requests
  orphaned,  \* orphaned_waiter_requests
  waiter,    \* server_request_waiters, and what became of the waiter
  timers,    \* requests whose timeout task has not run
  toCancel,  \* waiters that calls in flight are about to drop
  toReply,   \* waiters that calls in flight are about to answer
  idle       \* sessions the idle supervisor moved to Closing (history)

tableVars == <<conn, access, attached, callbacks, pending>>
waiterVars == <<orphaned, waiter, timers, toCancel, toReply>>
routingVars == <<tableVars, waiterVars, idle>>
allVars == <<lifecycleVars, routingVars>>

Access == {"none", "read", "full"}
Entry == [session : Ids \cup {NoId}, audience : Conns \cup {AllFull},
          turn : Turns \cup {NoTurn}, recipients : SUBSET Conns]
NoEntry == [session |-> NoId, audience |-> AllFull, turn |-> NoTurn, recipients |-> {}]

IsPending(r) == pending[r].session # NoId
RequestsOf(s) == {r \in Requests : pending[r].session = s}
AttachedTo(s) == {c \in Conns : <<c, s>> \in attached}
SessionsOf(c) == {s \in Ids : <<c, s>> \in attached}

RoutingInit ==
  /\ conn = [c \in Conns |-> "new"]
  /\ access = [k \in Conns \X Ids |-> "none"]
  /\ attached = {}
  /\ callbacks = [s \in CallbackIds |-> <<>>]
  /\ pending = [r \in Requests |-> NoEntry]
  /\ orphaned = {}
  /\ waiter = [r \in Requests |-> "none"]
  /\ timers = {}
  /\ toCancel = {}
  /\ toReply = {}
  /\ idle = {}

-----------------------------------------------------------------------------
(* Removing entries, recipients and connections. *)

\* The pending requests targeted at a connection of D.
TargetedAt(D) == {r \in Requests : pending[r].audience \in D}

\* The table P without the requests gone and without the connections of D.
Pruned(P, gone, D) ==
  [r \in Requests |->
     IF r \in gone THEN NoEntry
     ELSE [P[r] EXCEPT !.recipients = P[r].recipients \ D]]

\* The stacks without the owners named by the pairs of gone.
OwnersWithout(gone) ==
  [s \in CallbackIds |-> SelectSeq(callbacks[s], LAMBDA c : <<c, s>> \notin gone)]

\* `disconnect' of every connection of D, from the tables acc, att and P of this step,
\* which also removes the requests gone and the callbacks of the sessions ended.
Disconnected(D, acc, att, P, gone, ended) ==
  /\ conn' = [c \in Conns |-> IF c \in D THEN "gone" ELSE conn[c]]
  /\ access' = [k \in Conns \X Ids |-> IF k[1] \in D THEN "none" ELSE acc[k]]
  /\ attached' = {k \in att : k[1] \notin D}
  /\ callbacks' = OwnersWithout((D \X Ids) \cup (Conns \X ended))
  /\ pending' = Pruned(P, gone \cup TargetedAt(D), D)

\* The same when nothing but the requests gone changes with it.
Tables(D, gone) == Disconnected(D, access, attached, pending, gone, {})

\* Fault: the orphaned requests are taken and their waiters forgotten.
WillCancel_Forgets(R) ==
  /\ toCancel' = toCancel \cup R
  /\ orphaned' = {}

\* take_orphaned_waiter_cancellations: the wrapper will drop the waiters of R, of the
\* requests this step orphaned and of those an earlier call left behind.
WillCancel(R) ==
  /\ toCancel' = toCancel \cup R \cup orphaned
  /\ orphaned' = {}

-----------------------------------------------------------------------------
(* Connections and attachments. *)

Connect(c) ==
  /\ conn[c] = "new"
  /\ conn' = [conn EXCEPT ![c] = "up"]
  /\ UNCHANGED <<lifecycleVars, access, attached, callbacks, pending, waiterVars, idle>>

\* Fault: a connection at its limit attaches to one more session.
HasRoom_OffByOne(c, s, replacing) ==
  \/ <<c, s>> \in attached
  \/ /\ \/ Cardinality(SessionsOf(c)) <= MaxSessionsPerConn
        \/ <<c, replacing>> \in attached
     /\ Cardinality(AttachedTo(s)) < MaxConnsPerSession

\* ensure_attach_capacity
HasRoom(c, s, replacing) ==
  \/ <<c, s>> \in attached
  \/ /\ \/ Cardinality(SessionsOf(c)) < MaxSessionsPerConn
        \/ <<c, replacing>> \in attached
     /\ Cardinality(AttachedTo(s)) < MaxConnsPerSession

\* A grant is never lowered by a second attach.
Granted(c, s, level) ==
  IF access[<<c, s>>] = "full" THEN access ELSE [access EXCEPT ![<<c, s>>] = level]

\* The pending broadcasts of s, which a connection that becomes Full is given.
Replayed(c, s, level) ==
  IF level = "full" /\ access[<<c, s>>] # "full"
  THEN {r \in RequestsOf(s) : pending[r].audience = AllFull}
  ELSE {}

Offered(R, c) ==
  [r \in Requests |->
     IF r \in R THEN [pending[r] EXCEPT !.recipients = pending[r].recipients \cup {c}]
     ELSE pending[r]]

\* Fault: the attach does not look at the session's slot.
Attachable_AnySlot(s) == TRUE

\* ensure_live_slot, under the registry lock
Attachable(s) == slot[s] = "Live"

\* attach_live_session and subscribe_live_session
Attach(c, s, level) ==
  /\ conn[c] = "up"
  /\ Attachable(s)
  /\ HasRoom(c, s, NoId)
  /\ access' = Granted(c, s, level)
  /\ attached' = attached \cup {<<c, s>>}
  /\ pending' = Offered(Replayed(c, s, level), c)
  /\ WillCancel({})
  /\ UNCHANGED <<lifecycleVars, conn, callbacks, waiter, timers, toReply, idle>>

\* The replay of a pending broadcast does not fit the queue: disconnected.
AttachFails(c, s) ==
  /\ conn[c] = "up"
  /\ Attachable(s)
  /\ HasRoom(c, s, NoId)
  /\ Replayed(c, s, "full") # {}
  /\ Tables({c}, {})
  /\ WillCancel(TargetedAt({c}))
  /\ UNCHANGED <<lifecycleVars, waiter, timers, toReply, idle>>

\* `disconnect', and the slow consumers of route_envelope and route_lifecycle_effects
Disconnect(c) ==
  /\ conn[c] = "up"
  /\ Tables({c}, {})
  /\ WillCancel(TargetedAt({c}))
  /\ UNCHANGED <<lifecycleVars, waiter, timers, toReply, idle>>

\* Fault: the detached connection stays a recipient.
DetachedTable_KeepsRecipient(c, s, gone) == Pruned(pending, gone, {})

\* The connection leaves the recipients of the session's requests.
DetachedTable(c, s, gone) ==
  [r \in Requests |->
     IF pending[r].session = s THEN Pruned(pending, gone, {c})[r] ELSE pending[r]]

\* detach_session_for_connection: the grant goes with the attachment.
Detach(c, s) ==
  LET gone == RequestsOf(s) \cap TargetedAt({c}) IN
  /\ conn[c] = "up"
  /\ \/ <<c, s>> \in attached
     \/ access[<<c, s>>] # "none"
  /\ attached' = attached \ {<<c, s>>}
  /\ access' = [access EXCEPT ![<<c, s>>] = "none"]
  /\ callbacks' = OwnersWithout({<<c, s>>})
  /\ pending' = DetachedTable(c, s, gone)
  /\ WillCancel(gone)
  /\ UNCHANGED <<lifecycleVars, conn, waiter, timers, toReply, idle>>

\* register_connection_callback: the last registrant is asked first.
RegisterCallback(c, s) ==
  /\ access[<<c, s>>] = "full"
  /\ <<c, s>> \in attached
  /\ callbacks' = [callbacks EXCEPT ![s] = <<c>> \o SelectSeq(callbacks[s], LAMBDA o : o # c)]
  /\ UNCHANGED <<lifecycleVars, conn, access, attached, pending, waiterVars, idle>>

\* session/delete removed the rows of a session that has no slot.
RevokeGrants(s) ==
  /\ slot[s] = "Absent"
  /\ access' = [k \in Conns \X Ids |-> IF k[2] = s THEN "none" ELSE access[k]]
  /\ UNCHANGED <<lifecycleVars, conn, attached, callbacks, pending, waiterVars, idle>>

-----------------------------------------------------------------------------
(* Requests to the clients of a session. *)

\* The connections that may answer a request of s to the audience a.
Audience(s, a) ==
  {c \in Conns : conn[c] = "up" /\ <<c, s>> \in attached /\ access[<<c, s>>] = "full"
                 /\ a \in {AllFull, c}}

\* route_server_request_with_reply_to: the waiter exists before the request is sent.
\* When every send fails the entry is removed again and the waiter dropped.
RouteRequest(r, s, a, t, slow) ==
  LET targets == Audience(s, a)
      entry == [session |-> s, audience |-> a, turn |-> t, recipients |-> targets]
      gone == IF slow = targets THEN {r} ELSE {}
  IN
  /\ waiter[r] = "none"
  /\ targets # {} /\ slow \subseteq targets
  /\ waiter' = [waiter EXCEPT ![r] = "waiting"]
  /\ timers' = timers \cup ({r} \ gone)
  /\ Disconnected(slow, access, attached, [pending EXCEPT ![r] = entry], gone, {})
  /\ WillCancel(gone \cup TargetedAt(slow))
  /\ UNCHANGED <<lifecycleVars, toReply, idle>>

MayAnswer(c, r) ==
  /\ IsPending(r)
  /\ access[<<c, pending[r].session>>] = "full"
  /\ c \in pending[r].recipients

\* A valid reply (complete_server_request), or the error reply of the one connection
\* that was asked (CompletedTargeted): the losers are told.
Answer(c, r, slow) ==
  /\ MayAnswer(c, r)
  /\ slow \subseteq pending[r].recipients \ {c}
  /\ Tables(slow, {r})
  /\ WillCancel(TargetedAt(slow))
  /\ toReply' = toReply \cup {r}
  /\ UNCHANGED <<lifecycleVars, waiter, timers, idle>>

\* An error reply or a cancellation while others can still answer.
Withdraw(c, r) ==
  /\ MayAnswer(c, r)
  /\ pending[r].recipients # {c}
  /\ pending' = [pending EXCEPT ![r] =
                  [pending[r] EXCEPT !.recipients = pending[r].recipients \ {c}]]
  /\ WillCancel({})
  /\ UNCHANGED <<lifecycleVars, conn, access, attached, callbacks, waiter, timers, toReply, idle>>

RecipientsOf(R) == UNION {pending[r].recipients : r \in R}

\* cancel_pending_server_request for each request of R
CancelRequests(R, slow) ==
  /\ slow \subseteq RecipientsOf(R)
  /\ Tables(slow, R)
  /\ WillCancel(R \cup TargetedAt(slow))
  /\ UNCHANGED <<waiter, toReply>>

\* The last recipient cancels, or answers a broadcast with an error.
CancelLast(c, r, slow) ==
  /\ MayAnswer(c, r)
  /\ pending[r].recipients = {c}
  /\ CancelRequests({r}, slow)
  /\ UNCHANGED <<lifecycleVars, timers, idle>>

\* cancel_turn_server_requests
CancelTurn(t, slow) ==
  LET R == {r \in Requests : pending[r].turn = t} IN
  /\ R # {}
  /\ CancelRequests(R, slow)
  /\ UNCHANGED <<lifecycleVars, timers, idle>>

\* Fault: the timeout drops the waiter of a request that is no longer pending.
Expired_Always(r) == {r}

\* What the timeout of r cancels: nothing, if r was resolved before.
Expired(r) == {x \in {r} : IsPending(x)}

\* expire_server_request
Expire(r, slow) ==
  /\ r \in timers
  /\ timers' = timers \ {r}
  /\ CancelRequests(Expired(r), slow)
  /\ UNCHANGED <<lifecycleVars, idle>>

\* Any call that is refused: it drains the orphaned requests all the same.
RefusedCall ==
  /\ orphaned # {}
  /\ WillCancel({})
  /\ UNCHANGED <<lifecycleVars, tableVars, waiter, timers, toReply, idle>>

\* The rest of the calls that released the routing lock.
DropWaiter(r) ==
  /\ r \in toCancel
  /\ toCancel' = toCancel \ {r}
  /\ waiter' = [waiter EXCEPT ![r] = IF waiter[r] = "waiting" THEN "cancelled" ELSE waiter[r]]
  /\ UNCHANGED <<lifecycleVars, tableVars, orphaned, timers, toReply, idle>>

SendReply(r) ==
  /\ r \in toReply
  /\ toReply' = toReply \ {r}
  /\ waiter' = [waiter EXCEPT ![r] = IF waiter[r] = "waiting" THEN "replied" ELSE waiter[r]]
  /\ UNCHANGED <<lifecycleVars, tableVars, orphaned, timers, toCancel, idle>>

-----------------------------------------------------------------------------
(* The session lifecycle, with its effects on the routing tables. *)

StartLoad(s) == Reserve(s, NoId) /\ UNCHANGED routingVars
\* Fault: the recorded close is honoured but not consumed.
FinishLoad_KeepsAsked(s) ==
  /\ slot[s] = "Loading"
  /\ slot' = [slot EXCEPT ![s] = Published(s)]
  /\ UNCHANGED <<asked, parent, routingVars>>

FinishLoad(s) == Publish(s) /\ UNCHANGED routingVars
FailLoad(s) == slot[s] = "Loading" /\ Retire(s) /\ UNCHANGED routingVars
BeginClose(s) == Close(s) /\ UNCHANGED routingVars

\* spawn_close_when_unattached: counted under the registry lock, by the grants of the
\* attached connections.
IdleClose(s) ==
  /\ \A c \in AttachedTo(s) : access[<<c, s>>] = "none"
  /\ Close(s)
  /\ idle' = idle \cup {x \in {s} : slot[x] = "Live"}
  /\ UNCHANGED <<tableVars, waiterVars>>

\* The tables once o has ended (detach_all_for_session, cancel_session_server_requests):
\* grants stay.
Ended(o, acc, att, P, slow) ==
  /\ slow \subseteq RecipientsOf(RequestsOf(o))
  /\ Disconnected(slow, acc, {k \in att : k[2] # o}, P, RequestsOf(o), {o})
  /\ WillCancel(RequestsOf(o) \cup TargetedAt(slow))
  /\ UNCHANGED <<waiter, timers, toReply>>

\* Fault: the session's requests stay pending when it is closed.
CompleteClose_KeepsRequests(s, slow) ==
  /\ slow = {}
  /\ slot[s] = "Closing"
  /\ Retire(s)
  /\ attached' = {k \in attached : k[2] # s}
  /\ idle' = idle \ {s}
  /\ UNCHANGED <<conn, access, callbacks, pending, waiterVars>>

\* complete_session_close and close_session_attachments
CompleteClose(s, slow) ==
  /\ slot[s] = "Closing"
  /\ Retire(s)
  /\ Ended(s, access, attached, pending, slow)
  /\ idle' = idle \ {s}

MayReplace(c, o, n) ==
  access[<<c, o>>] = "full" /\ <<c, o>> \in attached /\ HasRoom(c, n, o)

\* replace_calling_attachment: the caller goes to n, everyone leaves o.
Repointed(c, o, n, slow) ==
  /\ MayReplace(c, o, n)
  /\ Ended(o, Granted(c, n, "full"), attached \cup {<<c, n>>},
           Offered(Replayed(c, n, "full"), c), slow)
  /\ UNCHANGED idle

\* commit_replace_for_connection
CommitReplace(c, o, n, slow) == Succeed(o, n) /\ Repointed(c, o, n, slow)

\* commit_replace_to_live_for_connection
CommitReplaceToLive(c, o, n, slow) == Leave(o, n) /\ Repointed(c, o, n, slow)

\* The destination's pending requests do not fit the caller's queue.  The call returns
\* before it drains what its disconnect orphaned.
ReplaceToLiveFails(c, o, n) ==
  /\ slot[o] = "Live" /\ slot[n] = "Live" /\ o # n
  /\ MayReplace(c, o, n)
  /\ Replayed(c, n, "full") # {}
  /\ Tables({c}, {})
  /\ orphaned' = orphaned \cup TargetedAt({c})
  /\ UNCHANGED <<lifecycleVars, waiter, timers, toCancel, toReply, idle>>

-----------------------------------------------------------------------------
ConnectionCalls ==
  \/ \E c \in Conns : Connect(c) \/ Disconnect(c)
  \/ \E c \in Conns, s \in Ids :
       AttachFails(c, s) \/ Detach(c, s) \/ \E level \in Levels : Attach(c, s, level)
  \/ \E c \in Conns, s \in CallbackIds : RegisterCallback(c, s)
  \/ \E s \in Ids : RevokeGrants(s)

RequestCalls ==
  \/ \E r \in Requests, s \in Ids, a \in Conns \cup {AllFull}, t \in Turns \cup {NoTurn},
       slow \in SUBSET Conns : RouteRequest(r, s, a, t, slow)
  \/ \E c \in Conns, r \in Requests, slow \in SUBSET Conns :
       Answer(c, r, slow) \/ CancelLast(c, r, slow)
  \/ \E c \in Conns, r \in Requests : Withdraw(c, r)
  \/ \E t \in Turns, slow \in SUBSET Conns : CancelTurn(t, slow)
  \/ RefusedCall

Timeout(r) == \E slow \in SUBSET Conns : Expire(r, slow)

LifecycleCalls ==
  \/ \E s \in Ids :
       StartLoad(s) \/ FinishLoad(s) \/ FailLoad(s) \/ BeginClose(s) \/ IdleClose(s)
  \/ \E s \in Ids, slow \in SUBSET Conns : CompleteClose(s, slow)
  \/ \E c \in Conns, o, n \in Ids, slow \in SUBSET Conns :
       CommitReplace(c, o, n, slow) \/ CommitReplaceToLive(c, o, n, slow)
  \/ \E c \in Conns, o, n \in Ids : ReplaceToLiveFails(c, o, n)

RequestsNext ==
  \/ ConnectionCalls
  \/ RequestCalls
  \/ \E r \in Requests : Timeout(r) \/ DropWaiter(r) \/ SendReply(r)
  \/ LifecycleCalls

RequestsInit == LifecycleInit /\ RoutingInit

RequestsSpec == RequestsInit /\ [][RequestsNext]_allVars

-----------------------------------------------------------------------------
(* Properties. *)

\* The state components have their types.
RoutingTypeOK ==
  /\ slot \in [Ids -> SlotState]
  /\ asked \subseteq {s \in Ids : slot[s] = "Loading"}
  /\ conn \in [Conns -> {"new", "up", "gone"}]
  /\ access \in [Conns \X Ids -> Access]
  /\ attached \subseteq Conns \X Ids
  /\ pending \in [Requests -> Entry]
  /\ waiter \in [Requests -> {"none", "waiting", "replied", "cancelled"}]
  /\ orphaned \subseteq Requests /\ timers \subseteq Requests
  /\ toCancel \subseteq Requests /\ toReply \subseteq Requests
  /\ idle \subseteq Ids

\* A waiter always has someone who will end it: a call in flight, or a timeout that is
\* still to come and will find the request pending or orphaned.  No disconnect inside
\* another call, no close, replacement or turn end strands it (the purpose of
\* orphaned_waiter_requests, lib.rs).
NoStrandedWaiter ==
  \A r \in Requests :
    waiter[r] = "waiting" =>
      \/ r \in toCancel \/ r \in toReply
      \/ r \in timers /\ (IsPending(r) \/ r \in orphaned)

\* Once routing has accepted an answer it reaches the waiter: no timeout, disconnect or
\* session end that comes between the two locks drops it
\* (resolve_server_request_for_connection, expire_server_request).
AnswerReachesWaiter ==
  \A r \in toReply : waiter[r] = "waiting" /\ r \notin toCancel \cup orphaned

\* Only a connected, attached, full-access connection is asked to answer a request,
\* whatever detaches, disconnects, replacements and closes happened since it was sent;
\* and a request to one connection is pending only while that connection can answer it.
RecipientsEntitled ==
  \A r \in Requests :
    /\ \A c \in pending[r].recipients :
         LET k == <<c, pending[r].session>> IN
         conn[c] = "up" /\ k \in attached /\ access[k] = "full"
    /\ IsPending(r) /\ pending[r].audience # AllFull =>
         pending[r].recipients = {pending[r].audience}

\* Attachments and pending requests exist only for sessions that are live or closing,
\* grants and attachments only for connections that are up: a session that ended, or a
\* connection that went, leaves nothing behind (close/attach races, lib.rs and
\* attach_live_session).
NothingOutlives ==
  /\ \A k \in attached :
       slot[k[2]] \in {"Live", "Closing"} /\ conn[k[1]] = "up" /\ access[k] # "none"
  /\ \A k \in Conns \X Ids : access[k] # "none" => conn[k[1]] = "up"
  /\ \A r \in Requests : IsPending(r) => slot[pending[r].session] \in {"Live", "Closing"}

\* A session that the idle supervisor closes has no attached connection, at the close
\* and until it is gone (spawn_close_when_unattached).
IdleCloseUnattached == \A s \in idle : slot[s] = "Closing" /\ AttachedTo(s) = {}

\* The attachment limits hold, also when a replacement attaches before it detaches.
AttachmentLimits ==
  /\ \A c \in Conns : Cardinality(SessionsOf(c)) <= MaxSessionsPerConn
  /\ \A s \in Ids : Cardinality(AttachedTo(s)) <= MaxConnsPerSession
=============================================================================
