------------------------ MODULE ServerRequests_proofs ------------------------
(***************************************************************************)
(* Safety of the routing tables and of the waiters for every set of        *)
(* connections, sessions and requests.  The invariant has two halves: the  *)
(* tables agree with each other and with the sessions' slots (TableInv),   *)
(* and every waiter is in exactly one stage of its life (WaiterInv).       *)
(***************************************************************************)
EXTENDS ServerRequests, TLAPS, FiniteSetTheorems

Pend == {r \in Requests : IsPending(r)}

\* The tables sl, cn, acc, att and P agree, leaving aside the requests gone, which the
\* step is about to remove.
TablesAgree(sl, cn, acc, att, P, gone) ==
  /\ cn \in [Conns -> {"new", "up", "gone"}]
  /\ acc \in [Conns \X Ids -> Access]
  /\ att \subseteq Conns \X Ids
  /\ P \in [Requests -> Entry]
  /\ \A c \in Conns, s \in Ids :
       <<c, s>> \in att => sl[s] \in {"Live", "Closing"} /\ acc[<<c, s>>] # "none"
  /\ \A c \in Conns, s \in Ids : acc[<<c, s>>] # "none" => cn[c] = "up"
  /\ \A r \in Requests \ gone :
       /\ P[r].session = NoId =>
            P[r].audience = AllFull /\ P[r].turn = NoTurn /\ P[r].recipients = {}
       /\ P[r].session # NoId => sl[P[r].session] \in {"Live", "Closing"}
       /\ P[r].audience # AllFull => P[r].recipients = {P[r].audience}
       /\ \A c \in P[r].recipients :
            <<c, P[r].session>> \in att /\ acc[<<c, P[r].session>>] = "full"

SlotsOK ==
  /\ slot \in [Ids -> SlotState]
  /\ asked \subseteq {s \in Ids : slot[s] = "Loading"}
  /\ idle \subseteq Ids
  /\ IdleCloseUnattached

TableInv == SlotsOK /\ TablesAgree(slot, conn, access, attached, pending, {})

\* A pending request has a waiter and a timer and is in nobody's hands; an orphaned one
\* still has its timer; an answered one is in no other hands.
WaiterInv ==
  /\ waiter \in [Requests -> {"none", "waiting", "replied", "cancelled"}]
  /\ orphaned \subseteq Requests /\ timers \subseteq Requests
  /\ toCancel \subseteq Requests /\ toReply \subseteq Requests
  /\ \A r \in Pend :
       /\ waiter[r] = "waiting" /\ r \in timers
       /\ r \notin toReply /\ r \notin toCancel /\ r \notin orphaned
  /\ \A r \in orphaned :
       waiter[r] = "waiting" /\ r \in timers /\ r \notin toReply /\ r \notin toCancel
  /\ \A r \in toReply : waiter[r] = "waiting" /\ r \notin toCancel
  /\ \A r \in Requests :
       waiter[r] = "waiting" => r \in Pend \cup orphaned \cup toCancel \cup toReply
  /\ \A r \in Requests : waiter[r] = "none" => r \notin timers \cup toCancel

RInv == TableInv /\ WaiterInv

-----------------------------------------------------------------------------
(* The helpers. *)

LEMMA NoEntryIs ==
  /\ NoEntry \in Entry
  /\ NoEntry.session = NoId /\ NoEntry.audience = AllFull
  /\ NoEntry.turn = NoTurn /\ NoEntry.recipients = {}
BY DEF NoEntry, Entry

LEMMA PrunedIs ==
  ASSUME NEW P \in [Requests -> Entry], NEW gone, NEW D
  PROVE  /\ Pruned(P, gone, D) \in [Requests -> Entry]
         /\ \A r \in Requests :
              /\ r \in gone => Pruned(P, gone, D)[r] = NoEntry
              /\ r \notin gone =>
                   /\ Pruned(P, gone, D)[r].session = P[r].session
                   /\ Pruned(P, gone, D)[r].audience = P[r].audience
                   /\ Pruned(P, gone, D)[r].turn = P[r].turn
                   /\ Pruned(P, gone, D)[r].recipients = P[r].recipients \ D
BY NoEntryIs DEF Pruned, Entry

\* Disconnecting D and removing the requests gone keeps the tables in agreement, if the
\* requests targeted at D in the table of this step are removed too.
LEMMA DisconnectedAgrees ==
  ASSUME NEW sl, NEW acc, NEW att, NEW P, NEW gone, NEW D, NEW ended,
         TablesAgree(sl, conn, acc, att, P, gone),
         Disconnected(D, acc, att, P, gone, ended),
         \A r \in Requests : P[r].audience \in D => r \in gone \cup TargetedAt(D)
  PROVE  TablesAgree(sl, conn', access', attached', pending', {})
<1> DEFINE G == gone \cup TargetedAt(D)
<1>1. /\ conn' = [c \in Conns |-> IF c \in D THEN "gone" ELSE conn[c]]
      /\ access' = [k \in Conns \X Ids |-> IF k[1] \in D THEN "none" ELSE acc[k]]
      /\ attached' = {k \in att : k[1] \notin D}
      /\ pending' = Pruned(P, G, D)
  BY DEF Disconnected
<1> HIDE DEF G
<1>2. /\ pending' \in [Requests -> Entry]
      /\ \A r \in Requests :
           /\ r \in G => pending'[r] = NoEntry
           /\ r \notin G =>
                /\ pending'[r].session = P[r].session
                /\ pending'[r].audience = P[r].audience
                /\ pending'[r].turn = P[r].turn
                /\ pending'[r].recipients = P[r].recipients \ D
  BY <1>1, PrunedIs DEF TablesAgree
<1>3. conn' \in [Conns -> {"new", "up", "gone"}] /\ access' \in [Conns \X Ids -> Access]
      /\ attached' \subseteq Conns \X Ids
  BY <1>1 DEF TablesAgree, Access
<1>4. \A c \in Conns, s \in Ids :
        /\ <<c, s>> \in attached' <=> <<c, s>> \in att /\ c \notin D
        /\ c \notin D => access'[<<c, s>>] = acc[<<c, s>>] /\ conn'[c] = conn[c]
        /\ c \in D => access'[<<c, s>>] = "none"
  BY <1>1 DEF TablesAgree
<1>5. ASSUME NEW c \in Conns, NEW s \in Ids
      PROVE  /\ <<c, s>> \in attached' =>
                  sl[s] \in {"Live", "Closing"} /\ access'[<<c, s>>] # "none"
             /\ access'[<<c, s>>] # "none" => conn'[c] = "up"
  <2>1. /\ <<c, s>> \in att => sl[s] \in {"Live", "Closing"} /\ acc[<<c, s>>] # "none"
        /\ acc[<<c, s>>] # "none" => conn[c] = "up"
    BY DEF TablesAgree
  <2> QED
    BY <2>1, <1>4
<1>6. ASSUME NEW r \in Requests
      PROVE  /\ pending'[r].session = NoId =>
                  /\ pending'[r].audience = AllFull /\ pending'[r].turn = NoTurn
                  /\ pending'[r].recipients = {}
             /\ pending'[r].session # NoId => sl[pending'[r].session] \in {"Live", "Closing"}
             /\ pending'[r].audience # AllFull => pending'[r].recipients = {pending'[r].audience}
             /\ \A c \in pending'[r].recipients :
                  <<c, pending'[r].session>> \in attached'
                  /\ access'[<<c, pending'[r].session>>] = "full"
  <2>1. CASE r \in G
    BY <2>1, <1>2, NoEntryIs
  <2>2. CASE r \notin G
    <3>1. r \notin gone /\ P[r].audience \notin D
      BY <2>2 DEF G
    <3>2. /\ P[r].session = NoId =>
               P[r].audience = AllFull /\ P[r].turn = NoTurn /\ P[r].recipients = {}
          /\ P[r].session # NoId => sl[P[r].session] \in {"Live", "Closing"}
          /\ P[r].audience # AllFull => P[r].recipients = {P[r].audience}
          /\ \A c \in P[r].recipients :
               <<c, P[r].session>> \in att /\ acc[<<c, P[r].session>>] = "full"
      BY <3>1 DEF TablesAgree
    <3>3. P[r].recipients \subseteq Conns /\ P[r].session \in Ids \cup {NoId}
      BY DEF TablesAgree, Entry
    <3>4. \A c \in P[r].recipients \ D :
            <<c, P[r].session>> \in attached' /\ access'[<<c, P[r].session>>] = "full"
      BY <3>2, <3>3, <1>4, RoutingAssumption
    <3> QED
      BY <2>2, <1>2, <3>1, <3>2, <3>4
  <2> QED
    BY <2>1, <2>2
<1> QED
  BY <1>2, <1>3, <1>5, <1>6 DEF TablesAgree

LEMMA PendAfter ==
  ASSUME NEW P \in [Requests -> Entry], NEW acc, NEW att, NEW gone, NEW D, NEW ended,
         Disconnected(D, acc, att, P, gone, ended)
  PROVE  Pend' = {r \in Requests : P[r].session # NoId} \ (gone \cup TargetedAt(D))
<1>1. pending' = Pruned(P, gone \cup TargetedAt(D), D)
  BY DEF Disconnected
<1>2. \A r \in Requests :
        pending'[r].session # NoId <=> P[r].session # NoId /\ r \notin gone \cup TargetedAt(D)
  BY <1>1, PrunedIs, NoEntryIs
<1> QED
  BY <1>2 DEF Pend, IsPending

LEMMA TargetedPending ==
  ASSUME TableInv, NEW D \in SUBSET Conns
  PROVE  TargetedAt(D) \subseteq Pend
<1> SUFFICES ASSUME NEW r \in Requests, pending[r].audience \in D PROVE IsPending(r)
  BY DEF TargetedAt, Pend
<1>1. pending[r].session = NoId => pending[r].audience = AllFull
  BY DEF TableInv, TablesAgree
<1> QED
  BY <1>1, RoutingAssumption DEF IsPending

\* A step that changes neither the slots nor the history, and attaches to live sessions.
LEMMA SlotsStay ==
  ASSUME SlotsOK, UNCHANGED <<slot, asked, idle>>,
         \A c \in Conns, s \in Ids : <<c, s>> \in attached' \ attached => slot[s] = "Live"
  PROVE  SlotsOK'
BY DEF SlotsOK, IdleCloseUnattached, AttachedTo

\* The requests of X lose their entries and are about to be cancelled, those of A are
\* about to be answered, timeouts of no pending request may have run.
LEMMA WaitersAfter ==
  ASSUME WaiterInv, NEW X, NEW A,
         X \subseteq Pend, A \subseteq Pend, X \cap A = {},
         Pend' = Pend \ (X \cup A),
         WillCancel(X),
         toReply' = toReply \cup A,
         waiter' = waiter,
         timers' \subseteq timers, Pend' \subseteq timers'
  PROVE  WaiterInv'
<1>1. Pend \subseteq Requests
  BY DEF Pend
<1>2. toCancel' = toCancel \cup X \cup orphaned /\ orphaned' = {}
  BY DEF WillCancel
<1>3. /\ waiter' \in [Requests -> {"none", "waiting", "replied", "cancelled"}]
      /\ orphaned' \subseteq Requests /\ timers' \subseteq Requests
      /\ toCancel' \subseteq Requests /\ toReply' \subseteq Requests
  BY <1>1, <1>2 DEF WaiterInv
<1>4. \A r \in Pend' :
       /\ waiter'[r] = "waiting" /\ r \in timers'
       /\ r \notin toReply' /\ r \notin toCancel' /\ r \notin orphaned'
  BY <1>1, <1>2 DEF WaiterInv
<1>5. \A r \in toReply' : waiter'[r] = "waiting" /\ r \notin toCancel'
  BY <1>1, <1>2 DEF WaiterInv
<1>6. \A r \in Requests :
       waiter'[r] = "waiting" => r \in Pend' \cup orphaned' \cup toCancel' \cup toReply'
  BY <1>1, <1>2 DEF WaiterInv
<1>7. \A r \in Requests : waiter'[r] = "none" => r \notin timers' \cup toCancel'
  BY <1>1, <1>2 DEF WaiterInv
<1> QED
  BY <1>2, <1>3, <1>4, <1>5, <1>6, <1>7 DEF WaiterInv

LEMMA WaitersCancelled ==
  ASSUME WaiterInv, NEW X, X \subseteq Pend, Pend' = Pend \ X, WillCancel(X),
         UNCHANGED <<waiter, toReply>>,
         timers' \subseteq timers, Pend' \subseteq timers'
  PROVE  WaiterInv'
<1> DEFINE A == {}
<1>1. /\ A \subseteq Pend /\ X \cap A = {}
      /\ Pend' = Pend \ (X \cup A)
      /\ toReply' = toReply \cup A
  OBVIOUS
<1> HIDE DEF A
<1> QED
  BY <1>1, WaitersAfter

\* Steps that leave the waiters and their bookkeeping alone.
LEMMA WaitersStay ==
  ASSUME WaiterInv, UNCHANGED waiterVars, Pend' = Pend
  PROVE  WaiterInv'
BY DEF WaiterInv, waiterVars

-----------------------------------------------------------------------------
(* Connections and attachments. *)

LEMMA StepConnect ==
  ASSUME RInv, NEW c \in Conns, Connect(c)
  PROVE  RInv'
<1>1. SlotsOK'
  BY SlotsStay DEF Connect, RInv, TableInv, lifecycleVars
<1>2. TablesAgree(slot', conn', access', attached', pending', {})
  BY DEF Connect, RInv, TableInv, TablesAgree, lifecycleVars
<1>3. WaiterInv'
  BY WaitersStay DEF Connect, RInv, Pend, IsPending
<1> QED
  BY <1>1, <1>2, <1>3 DEF RInv, TableInv

\* The tables after c attached to s, a session that is or becomes live.
LEMMA AttachAgrees ==
  ASSUME NEW sl, NEW c \in Conns, NEW s \in Ids, NEW level \in {"read", "full"},
         TablesAgree(slot, conn, access, attached, pending, {}),
         conn[c] = "up", sl[s] \in {"Live", "Closing"},
         \A x \in Ids : slot[x] \in {"Live", "Closing"} => sl[x] \in {"Live", "Closing"}
  PROVE  TablesAgree(sl, conn, Granted(c, s, level), attached \cup {<<c, s>>},
                     Offered(Replayed(c, s, level), c), {})
<1> DEFINE acc == Granted(c, s, level)
           att == attached \cup {<<c, s>>}
           R == Replayed(c, s, level)
           P == Offered(R, c)
<1>1. /\ acc \in [Conns \X Ids -> Access]
      /\ \A d \in Conns, x \in Ids : <<d, x>> # <<c, s>> => acc[<<d, x>>] = access[<<d, x>>]
      /\ acc[<<c, s>>] # "none"
      /\ \A k \in Conns \X Ids : access[k] = "full" => acc[k] = "full"
  BY DEF TablesAgree, Granted, Access
<1>2. R # {} => acc[<<c, s>>] = "full"
  BY DEF Replayed, Granted, TablesAgree
<1>3. R \subseteq {r \in Requests : pending[r].session = s /\ pending[r].audience = AllFull}
  BY DEF Replayed, RequestsOf
<1>4. pending \in [Requests -> Entry] /\ conn \in [Conns -> {"new", "up", "gone"}]
      /\ attached \subseteq Conns \X Ids
  BY DEF TablesAgree
<1> HIDE DEF acc, R
<1>5. /\ P \in [Requests -> Entry]
      /\ \A r \in Requests :
           /\ P[r].session = pending[r].session
           /\ P[r].audience = pending[r].audience
           /\ P[r].turn = pending[r].turn
           /\ P[r].recipients =
                IF r \in R THEN pending[r].recipients \cup {c} ELSE pending[r].recipients
  BY <1>4 DEF Offered, Entry
<1> HIDE DEF P
<1>6. ASSUME NEW d \in Conns, NEW x \in Ids
      PROVE  /\ <<d, x>> \in att => sl[x] \in {"Live", "Closing"} /\ acc[<<d, x>>] # "none"
             /\ acc[<<d, x>>] # "none" => conn[d] = "up"
  <2>1. /\ <<d, x>> \in attached => slot[x] \in {"Live", "Closing"} /\ access[<<d, x>>] # "none"
        /\ access[<<d, x>>] # "none" => conn[d] = "up"
    BY DEF TablesAgree
  <2> QED
    BY <2>1, <1>1
<1>7. ASSUME NEW r \in Requests
      PROVE  /\ P[r].session = NoId =>
                  P[r].audience = AllFull /\ P[r].turn = NoTurn /\ P[r].recipients = {}
             /\ P[r].session # NoId => sl[P[r].session] \in {"Live", "Closing"}
             /\ P[r].audience # AllFull => P[r].recipients = {P[r].audience}
             /\ \A d \in P[r].recipients :
                  <<d, P[r].session>> \in att /\ acc[<<d, P[r].session>>] = "full"
  <2>1. /\ pending[r].session = NoId =>
             /\ pending[r].audience = AllFull /\ pending[r].turn = NoTurn
             /\ pending[r].recipients = {}
        /\ pending[r].session # NoId => slot[pending[r].session] \in {"Live", "Closing"}
        /\ pending[r].audience # AllFull => pending[r].recipients = {pending[r].audience}
        /\ \A d \in pending[r].recipients :
             <<d, pending[r].session>> \in attached /\ access[<<d, pending[r].session>>] = "full"
    BY DEF TablesAgree
  <2>2. pending[r].session \in Ids \cup {NoId}
    BY <1>4 DEF Entry
  <2>3. r \in R => pending[r].session = s /\ pending[r].audience = AllFull /\ s # NoId
    BY <1>3, RoutingAssumption
  <2>4. ASSUME NEW d \in P[r].recipients
        PROVE  <<d, P[r].session>> \in att /\ acc[<<d, P[r].session>>] = "full"
    <3>1. CASE d \in pending[r].recipients
      <4>1. <<d, pending[r].session>> \in Conns \X Ids
        BY <3>1, <2>1, <1>4
      <4> QED
        BY <3>1, <4>1, <2>1, <1>1, <1>5
    <3>2. CASE r \in R /\ d = c
      BY <3>2, <2>3, <1>2, <1>5
    <3> QED
      BY <3>1, <3>2, <1>5
  <2> QED
    BY <2>1, <2>2, <2>3, <2>4, <1>5
<1> QED
  <2>1. TablesAgree(sl, conn, acc, att, P, {})
    BY <1>1, <1>4, <1>5, <1>6, <1>7 DEF TablesAgree
  <2> QED
    BY <2>1 DEF acc, P, R

LEMMA StepAttach ==
  ASSUME RInv, NEW c \in Conns, NEW s \in Ids, NEW level \in {"read", "full"},
         Attach(c, s, level)
  PROVE  RInv'
<1>1. SlotsOK'
  BY SlotsStay DEF Attach, Attachable, RInv, TableInv, lifecycleVars
<1>2. TablesAgree(slot, conn, Granted(c, s, level), attached \cup {<<c, s>>},
                  Offered(Replayed(c, s, level), c), {})
  BY AttachAgrees DEF Attach, Attachable, RInv, TableInv
<1>3. TablesAgree(slot', conn', access', attached', pending', {})
  BY <1>2 DEF Attach, lifecycleVars
<1>4. Pend' = Pend
  BY DEF Attach, Offered, Pend, IsPending, RInv, TableInv, TablesAgree, Entry
<1>5. WaiterInv'
  <2>1. WillCancel({}) /\ UNCHANGED <<waiter, timers, toReply>>
    BY DEF Attach
  <2> QED
    BY <2>1, <1>4, WaitersCancelled DEF RInv, WaiterInv
<1> QED
  BY <1>1, <1>3, <1>5 DEF RInv, TableInv

\* Every step that disconnects D and cancels the pending requests R.
LEMMA TablesKeep ==
  ASSUME RInv, NEW D \in SUBSET Conns, NEW R, R \subseteq Pend,
         Tables(D, R), UNCHANGED <<slot, asked, idle>>
  PROVE  /\ TableInv'
         /\ Pend' = Pend \ (R \cup TargetedAt(D))
         /\ TargetedAt(D) \subseteq Pend
<1>1. /\ TablesAgree(slot, conn, access, attached, pending, {})
      /\ pending \in [Requests -> Entry]
  BY DEF RInv, TableInv, TablesAgree
<1>2. TablesAgree(slot, conn, access, attached, pending, R)
  BY <1>1 DEF TablesAgree
<1>3. Disconnected(D, access, attached, pending, R, {})
  BY DEF Tables
<1>4. TablesAgree(slot, conn', access', attached', pending', {})
  BY <1>2, <1>3, DisconnectedAgrees DEF TargetedAt
<1>5. SlotsOK'
  BY <1>3, SlotsStay DEF Disconnected, RInv, TableInv
<1>6. Pend' = Pend \ (R \cup TargetedAt(D))
  BY <1>1, <1>3, PendAfter DEF Pend, IsPending
<1> QED
  BY <1>4, <1>5, <1>6, TargetedPending DEF RInv, TableInv

LEMMA CancelKeeps ==
  ASSUME RInv, NEW D \in SUBSET Conns, NEW R, R \subseteq Pend,
         Tables(D, R), WillCancel(R \cup TargetedAt(D)),
         UNCHANGED <<slot, asked, idle, waiter, toReply>>,
         timers' \subseteq timers, \A r \in Pend \ R : r \in timers => r \in timers'
  PROVE  RInv'
<1>1. /\ TableInv'
      /\ Pend' = Pend \ (R \cup TargetedAt(D))
      /\ TargetedAt(D) \subseteq Pend
  BY TablesKeep
<1>2. Pend' \subseteq timers'
  BY <1>1 DEF RInv, WaiterInv
<1>3. WaiterInv'
  <2> DEFINE X == R \cup TargetedAt(D)
  <2>1. X \subseteq Pend /\ Pend' = Pend \ X /\ WillCancel(X)
    BY <1>1
  <2> HIDE DEF X
  <2> QED
    BY <2>1, <1>2, WaitersCancelled DEF RInv
<1> QED
  BY <1>1, <1>3 DEF RInv

LEMMA StepDisconnect ==
  ASSUME RInv, NEW c \in Conns, Tables({c}, {}), WillCancel(TargetedAt({c})),
         UNCHANGED <<lifecycleVars, waiter, timers, toReply, idle>>
  PROVE  RInv'
<1>1. WillCancel({} \cup TargetedAt({c}))
  BY DEF WillCancel
<1> QED
  BY <1>1, CancelKeeps DEF lifecycleVars

LEMMA StepDetach ==
  ASSUME RInv, NEW c \in Conns, NEW s \in Ids, Detach(c, s)
  PROVE  RInv'
<1> DEFINE gone == RequestsOf(s) \cap TargetedAt({c})
<1>1. /\ attached' = attached \ {<<c, s>>}
      /\ access' = [access EXCEPT ![<<c, s>>] = "none"]
      /\ pending' = DetachedTable(c, s, gone)
      /\ WillCancel(gone)
      /\ UNCHANGED <<slot, asked, conn, waiter, timers, toReply, idle>>
  BY DEF Detach, lifecycleVars
<1>2. TablesAgree(slot, conn, access, attached, pending, {})
  BY DEF RInv, TableInv
<1>3. pending \in [Requests -> Entry]
  BY <1>2 DEF TablesAgree
<1>4. gone = {r \in Requests : pending[r].session = s /\ pending[r].audience = c}
  BY DEF RequestsOf, TargetedAt
<1> HIDE DEF gone
<1>5. /\ pending' \in [Requests -> Entry]
      /\ \A r \in Requests :
           /\ r \in gone => pending'[r] = NoEntry
           /\ r \notin gone =>
                /\ pending'[r].session = pending[r].session
                /\ pending'[r].audience = pending[r].audience
                /\ pending'[r].turn = pending[r].turn
                /\ pending'[r].recipients =
                     IF pending[r].session = s THEN pending[r].recipients \ {c}
                     ELSE pending[r].recipients
  BY <1>1, <1>3, <1>4, NoEntryIs DEF DetachedTable, Pruned, Entry
<1>6. ASSUME NEW d \in Conns, NEW x \in Ids
      PROVE  /\ <<d, x>> \in attached' =>
                  slot[x] \in {"Live", "Closing"} /\ access'[<<d, x>>] # "none"
             /\ access'[<<d, x>>] # "none" => conn[d] = "up"
  BY <1>1, <1>2 DEF TablesAgree
<1>7. ASSUME NEW r \in Requests
      PROVE  /\ pending'[r].session = NoId =>
                  /\ pending'[r].audience = AllFull /\ pending'[r].turn = NoTurn
                  /\ pending'[r].recipients = {}
             /\ pending'[r].session # NoId => slot[pending'[r].session] \in {"Live", "Closing"}
             /\ pending'[r].audience # AllFull => pending'[r].recipients = {pending'[r].audience}
             /\ \A d \in pending'[r].recipients :
                  <<d, pending'[r].session>> \in attached'
                  /\ access'[<<d, pending'[r].session>>] = "full"
  <2>1. CASE r \in gone
    BY <2>1, <1>5, NoEntryIs
  <2>2. CASE r \notin gone
    <3>1. /\ pending[r].session = NoId =>
               /\ pending[r].audience = AllFull /\ pending[r].turn = NoTurn
               /\ pending[r].recipients = {}
          /\ pending[r].session # NoId => slot[pending[r].session] \in {"Live", "Closing"}
          /\ pending[r].audience # AllFull => pending[r].recipients = {pending[r].audience}
          /\ \A d \in pending[r].recipients :
               <<d, pending[r].session>> \in attached /\ access[<<d, pending[r].session>>] = "full"
      BY <1>2 DEF TablesAgree
    <3>2. \A d \in pending'[r].recipients : <<d, pending[r].session>> # <<c, s>>
      BY <2>2, <1>5
    <3>3. attached \subseteq Conns \X Ids /\ access \in [Conns \X Ids -> Access]
      BY <1>2 DEF TablesAgree
    <3>4. \A d \in pending'[r].recipients :
                  <<d, pending'[r].session>> \in attached'
                  /\ access'[<<d, pending'[r].session>>] = "full"
      BY <2>2, <3>1, <3>2, <3>3, <1>1, <1>5
    <3>5. pending[r].audience # AllFull /\ pending[r].session = s => pending[r].audience # c
      BY <2>2, <1>4
    <3> QED
      BY <2>2, <3>1, <3>4, <3>5, <1>5
  <2> QED
    BY <2>1, <2>2
<1>8. TablesAgree(slot', conn', access', attached', pending', {})
  <2>1. access' \in [Conns \X Ids -> Access] /\ attached' \subseteq Conns \X Ids
    BY <1>1, <1>2 DEF TablesAgree, Access
  <2>2. TablesAgree(slot, conn, access', attached', pending', {})
    BY <2>1, <1>2, <1>5, <1>6, <1>7 DEF TablesAgree
  <2> QED
    BY <2>2, <1>1
<1>9. SlotsOK'
  BY <1>1, SlotsStay DEF RInv, TableInv
<1>10. gone \subseteq Pend /\ Pend' = Pend \ gone
  BY <1>4, <1>5, NoEntryIs, RoutingAssumption DEF Pend, IsPending
<1>11. WaiterInv'
  <2>1. Pend' \subseteq timers'
    BY <1>1, <1>10 DEF RInv, WaiterInv
  <2> QED
    BY <2>1, <1>1, <1>10, WaitersCancelled DEF RInv
<1> QED
  BY <1>8, <1>9, <1>11 DEF RInv, TableInv

LEMMA StepRegisterCallback ==
  ASSUME RInv, NEW c \in Conns, NEW s \in Ids, RegisterCallback(c, s)
  PROVE  RInv'
<1>1. UNCHANGED <<slot, asked, idle, conn, access, attached, pending, waiterVars>>
  BY DEF RegisterCallback, lifecycleVars
<1>2. SlotsOK' /\ WaiterInv'
  BY <1>1, SlotsStay, WaitersStay DEF RInv, TableInv, Pend, IsPending
<1> QED
  BY <1>1, <1>2 DEF RInv, TableInv

LEMMA StepRevokeGrants ==
  ASSUME RInv, NEW s \in Ids, RevokeGrants(s)
  PROVE  RInv'
<1>1. UNCHANGED <<slot, asked, idle, conn, attached, pending, waiterVars>> /\ slot[s] = "Absent"
      /\ access' = [k \in Conns \X Ids |-> IF k[2] = s THEN "none" ELSE access[k]]
  BY DEF RevokeGrants, lifecycleVars
<1>2. SlotsOK' /\ WaiterInv'
  BY <1>1, SlotsStay, WaitersStay DEF RInv, TableInv, Pend, IsPending
<1>3. TablesAgree(slot, conn, access', attached, pending, {})
  BY <1>1 DEF RInv, TableInv, TablesAgree, Access, Entry
<1> QED
  BY <1>1, <1>2, <1>3 DEF RInv, TableInv

-----------------------------------------------------------------------------
(* Requests. *)

LEMMA RecipientsAreConns ==
  ASSUME RInv, NEW r \in Requests
  PROVE  /\ pending[r].recipients \subseteq Conns
         /\ pending[r].audience \in Conns \cup {AllFull}
         /\ pending[r].session \in Ids \cup {NoId}
BY DEF RInv, TableInv, TablesAgree, Entry

LEMMA StepAnswer ==
  ASSUME RInv, NEW c \in Conns, NEW r \in Requests, NEW slow \in SUBSET Conns,
         Answer(c, r, slow)
  PROVE  RInv'
<1>1. /\ r \in Pend /\ c \in pending[r].recipients
      /\ slow \subseteq pending[r].recipients \ {c}
      /\ Tables(slow, {r}) /\ WillCancel(TargetedAt(slow))
      /\ toReply' = toReply \cup {r}
      /\ UNCHANGED <<slot, asked, idle, waiter, timers>>
  BY DEF Answer, MayAnswer, Pend, lifecycleVars
<1>2. r \notin TargetedAt(slow)
  <2>1. pending[r].audience # AllFull => pending[r].recipients = {pending[r].audience}
    BY DEF RInv, TableInv, TablesAgree
  <2> QED
    BY <2>1, <1>1, RoutingAssumption DEF TargetedAt
<1>3. /\ TableInv'
      /\ Pend' = Pend \ ({r} \cup TargetedAt(slow))
      /\ TargetedAt(slow) \subseteq Pend
  BY <1>1, TablesKeep
<1>4. WaiterInv'
  <2> DEFINE X == TargetedAt(slow)
             A == {r}
  <2>1. /\ X \subseteq Pend /\ A \subseteq Pend /\ X \cap A = {}
        /\ Pend' = Pend \ (X \cup A) /\ WillCancel(X) /\ toReply' = toReply \cup A
    BY <1>1, <1>2, <1>3
  <2>2. Pend' \subseteq timers'
    BY <1>1, <1>3 DEF RInv, WaiterInv
  <2> HIDE DEF X, A
  <2> QED
    BY <2>1, <2>2, <1>1, WaitersAfter DEF RInv
<1> QED
  BY <1>3, <1>4 DEF RInv

LEMMA StepWithdraw ==
  ASSUME RInv, NEW c \in Conns, NEW r \in Requests, Withdraw(c, r)
  PROVE  RInv'
<1>1. /\ r \in Pend /\ c \in pending[r].recipients /\ pending[r].recipients # {c}
      /\ pending' = [pending EXCEPT ![r] =
                      [pending[r] EXCEPT !.recipients = pending[r].recipients \ {c}]]
      /\ WillCancel({})
      /\ UNCHANGED <<slot, asked, idle, conn, access, attached, waiter, timers, toReply>>
  BY DEF Withdraw, MayAnswer, Pend, lifecycleVars
<1>2. TablesAgree(slot, conn, access, attached, pending, {})
  BY DEF RInv, TableInv
<1>3. pending[r].audience = AllFull
  BY <1>1, <1>2 DEF TablesAgree
<1>4. /\ pending' \in [Requests -> Entry]
      /\ \A x \in Requests :
           /\ pending'[x].session = pending[x].session
           /\ pending'[x].audience = pending[x].audience
           /\ pending'[x].turn = pending[x].turn
           /\ pending'[x].recipients =
                IF x = r THEN pending[x].recipients \ {c} ELSE pending[x].recipients
  <2>1. pending \in [Requests -> Entry]
    BY <1>2 DEF TablesAgree
  <2> QED
    BY <2>1, <1>1 DEF Entry
<1>5. TablesAgree(slot, conn, access, attached, pending', {})
  <2>1. ASSUME NEW x \in Requests
        PROVE  /\ pending'[x].session = NoId =>
                    /\ pending'[x].audience = AllFull /\ pending'[x].turn = NoTurn
                    /\ pending'[x].recipients = {}
               /\ pending'[x].session # NoId => slot[pending'[x].session] \in {"Live", "Closing"}
               /\ pending'[x].audience # AllFull => pending'[x].recipients = {pending'[x].audience}
               /\ \A d \in pending'[x].recipients :
                    <<d, pending'[x].session>> \in attached
                    /\ access[<<d, pending'[x].session>>] = "full"
    <3>1. /\ pending[x].session = NoId =>
               /\ pending[x].audience = AllFull /\ pending[x].turn = NoTurn
               /\ pending[x].recipients = {}
          /\ pending[x].session # NoId => slot[pending[x].session] \in {"Live", "Closing"}
          /\ pending[x].audience # AllFull => pending[x].recipients = {pending[x].audience}
          /\ \A d \in pending[x].recipients :
               <<d, pending[x].session>> \in attached /\ access[<<d, pending[x].session>>] = "full"
      BY <1>2 DEF TablesAgree
    <3>2. CASE x = r
      <4>1. /\ pending'[x].session = pending[x].session
            /\ pending'[x].turn = pending[x].turn
            /\ pending'[x].audience = AllFull
            /\ pending'[x].recipients = pending[x].recipients \ {c}
        BY <3>2, <1>3, <1>4
      <4> QED
        BY <3>1, <4>1
    <3>3. CASE x # r
      BY <3>1, <3>3, <1>4
    <3> QED
      BY <3>2, <3>3
  <2> QED
    BY <2>1, <1>2, <1>4 DEF TablesAgree
<1>6. SlotsOK'
  BY <1>1, SlotsStay DEF RInv, TableInv
<1>7. WaiterInv'
  <2>1. Pend' = Pend
    BY <1>4 DEF Pend, IsPending
  <2> QED
    BY <2>1, <1>1, WaitersCancelled DEF RInv, WaiterInv
<1> QED
  BY <1>1, <1>5, <1>6, <1>7 DEF RInv, TableInv

LEMMA StepCancel ==
  ASSUME RInv, NEW R, R \subseteq Pend, NEW slow \in SUBSET Conns, CancelRequests(R, slow),
         UNCHANGED <<lifecycleVars, idle>>,
         timers' \subseteq timers, \A r \in Pend \ R : r \in timers => r \in timers'
  PROVE  RInv'
BY CancelKeeps DEF CancelRequests, lifecycleVars

LEMMA StepCancelTurn ==
  ASSUME RInv, NEW t \in Turns, NEW slow \in SUBSET Conns, CancelTurn(t, slow)
  PROVE  RInv'
<1> DEFINE R == {r \in Requests : pending[r].turn = t}
<1>1. R \subseteq Pend
  BY RoutingAssumption DEF RInv, TableInv, TablesAgree, Pend, IsPending
<1>2. CancelRequests(R, slow) /\ UNCHANGED <<lifecycleVars, idle, timers>>
  BY DEF CancelTurn
<1> HIDE DEF R
<1> QED
  BY <1>1, <1>2, StepCancel

LEMMA StepExpire ==
  ASSUME RInv, NEW r \in Requests, NEW slow \in SUBSET Conns, Expire(r, slow)
  PROVE  RInv'
<1> DEFINE R == Expired(r)
<1>1. R \subseteq Pend /\ (r \in Pend => r \in R)
  BY DEF Expired, Pend
<1>2. CancelRequests(R, slow) /\ UNCHANGED <<lifecycleVars, idle>> /\ timers' = timers \ {r}
  BY DEF Expire
<1> HIDE DEF R
<1> QED
  BY <1>1, <1>2, StepCancel

LEMMA StepRefusedCall ==
  ASSUME RInv, RefusedCall
  PROVE  RInv'
<1>1. WillCancel({}) /\ UNCHANGED <<slot, asked, idle, conn, access, attached, pending, waiter,
                                   timers, toReply>>
  BY DEF RefusedCall, lifecycleVars, tableVars
<1>2. Pend' = Pend /\ SlotsOK'
  BY <1>1, SlotsStay DEF Pend, IsPending, RInv, TableInv
<1>3. WaiterInv'
  BY <1>1, <1>2, WaitersCancelled DEF RInv, WaiterInv
<1> QED
  BY <1>1, <1>2, <1>3 DEF RInv, TableInv

LEMMA StepDropWaiter ==
  ASSUME RInv, NEW r \in Requests, DropWaiter(r)
  PROVE  RInv'
<1>1. UNCHANGED <<slot, asked, idle, conn, access, attached, pending>>
  BY DEF DropWaiter, lifecycleVars, tableVars
<1>2. Pend' = Pend /\ SlotsOK'
  BY <1>1, SlotsStay DEF Pend, IsPending, RInv, TableInv
<1>3. WaiterInv'
  <2>1. r \in toCancel /\ toCancel' = toCancel \ {r}
        /\ waiter' = [waiter EXCEPT ![r] = IF waiter[r] = "waiting" THEN "cancelled" ELSE waiter[r]]
        /\ UNCHANGED <<orphaned, timers, toReply>>
    BY DEF DropWaiter
  <2>2. r \notin Pend /\ r \notin toReply
    BY <2>1 DEF RInv, WaiterInv
  <2>3. r \notin orphaned
    BY <2>1 DEF RInv, WaiterInv
  <2> QED
    BY <2>1, <2>2, <2>3, <1>2 DEF RInv, WaiterInv
<1> QED
  BY <1>1, <1>2, <1>3 DEF RInv, TableInv

LEMMA StepSendReply ==
  ASSUME RInv, NEW r \in Requests, SendReply(r)
  PROVE  RInv'
<1>1. UNCHANGED <<slot, asked, idle, conn, access, attached, pending>>
  BY DEF SendReply, lifecycleVars, tableVars
<1>2. Pend' = Pend /\ SlotsOK'
  BY <1>1, SlotsStay DEF Pend, IsPending, RInv, TableInv
<1>3. WaiterInv'
  <2>1. r \in toReply /\ toReply' = toReply \ {r}
        /\ waiter' = [waiter EXCEPT ![r] = IF waiter[r] = "waiting" THEN "replied" ELSE waiter[r]]
        /\ UNCHANGED <<orphaned, timers, toCancel>>
    BY DEF SendReply
  <2>2. r \notin Pend /\ r \notin toCancel /\ r \notin orphaned
    BY <2>1 DEF RInv, WaiterInv
  <2> QED
    BY <2>1, <2>2, <1>2 DEF RInv, WaiterInv
<1> QED
  BY <1>1, <1>2, <1>3 DEF RInv, TableInv

LEMMA StepRouteRequest ==
  ASSUME RInv, NEW r \in Requests, NEW s \in Ids, NEW a \in Conns \cup {AllFull},
         NEW t \in Turns \cup {NoTurn}, NEW slow \in SUBSET Conns,
         RouteRequest(r, s, a, t, slow)
  PROVE  RInv'
<1> DEFINE targets == Audience(s, a)
           entry == [session |-> s, audience |-> a, turn |-> t, recipients |-> targets]
           gone == IF slow = targets THEN {r} ELSE {}
           P == [pending EXCEPT ![r] = entry]
<1>1. /\ waiter[r] = "none" /\ targets # {} /\ slow \subseteq targets
      /\ waiter' = [waiter EXCEPT ![r] = "waiting"]
      /\ timers' = timers \cup ({r} \ gone)
      /\ Disconnected(slow, access, attached, P, gone, {})
      /\ WillCancel(gone \cup TargetedAt(slow))
      /\ UNCHANGED <<slot, asked, idle, toReply>>
  BY DEF RouteRequest, lifecycleVars
<1>2. /\ targets \subseteq Conns
      /\ \A c \in targets : <<c, s>> \in attached /\ access[<<c, s>>] = "full"
      /\ a # AllFull => targets = {a}
  BY <1>1 DEF Audience
<1>3. TablesAgree(slot, conn, access, attached, pending, {})
  BY DEF RInv, TableInv
<1>4. pending \in [Requests -> Entry] /\ ~IsPending(r) /\ s # NoId
  BY <1>1, <1>3, RoutingAssumption DEF TablesAgree, RInv, WaiterInv, Pend
<1>5. slot[s] \in {"Live", "Closing"}
  BY <1>1, <1>2, <1>3 DEF TablesAgree
<1> HIDE DEF targets
<1>6. /\ P \in [Requests -> Entry]
      /\ P[r].session = s /\ P[r].audience = a /\ P[r].recipients = targets
      /\ \A x \in Requests : x # r => P[x] = pending[x]
  BY <1>2, <1>4 DEF Entry
<1> HIDE DEF P
<1>7. TablesAgree(slot, conn, access, attached, P, gone)
  <2>1. ASSUME NEW x \in Requests \ gone
        PROVE  /\ P[x].session = NoId =>
                    P[x].audience = AllFull /\ P[x].turn = NoTurn /\ P[x].recipients = {}
               /\ P[x].session # NoId => slot[P[x].session] \in {"Live", "Closing"}
               /\ P[x].audience # AllFull => P[x].recipients = {P[x].audience}
               /\ \A c \in P[x].recipients :
                    <<c, P[x].session>> \in attached /\ access[<<c, P[x].session>>] = "full"
    <3>1. CASE x = r
      BY <3>1, <1>2, <1>4, <1>5, <1>6
    <3>2. CASE x # r
      BY <3>2, <1>3, <1>6 DEF TablesAgree
    <3> QED
      BY <3>1, <3>2
  <2> QED
    BY <2>1, <1>3, <1>6 DEF TablesAgree
<1>8. /\ r \notin TargetedAt(slow)
      /\ TargetedAt(slow) \subseteq Pend
  BY <1>3, <1>4, TargetedPending DEF RInv, Pend
<1>9. \A x \in Requests : P[x].audience \in slow => x \in gone \cup TargetedAt(slow)
  <2>1. a \in slow => slow = targets
    BY <1>1, <1>2, RoutingAssumption
  <2> QED
    BY <2>1, <1>6 DEF TargetedAt
<1>10. TablesAgree(slot, conn', access', attached', pending', {})
  BY <1>1, <1>7, <1>9, DisconnectedAgrees
<1>11. SlotsOK'
  BY <1>1, SlotsStay DEF Disconnected, RInv, TableInv
<1>12. Pend' = (Pend \cup {r}) \ (gone \cup TargetedAt(slow))
  <2>1. Pend' = {x \in Requests : P[x].session # NoId} \ (gone \cup TargetedAt(slow))
    BY <1>1, <1>6, PendAfter
  <2>2. {x \in Requests : P[x].session # NoId} = Pend \cup {r}
    BY <1>4, <1>6 DEF Pend, IsPending
  <2> QED
    BY <2>1, <2>2
<1>13. toCancel' = toCancel \cup gone \cup TargetedAt(slow) \cup orphaned /\ orphaned' = {}
  BY <1>1 DEF WillCancel
<1>14. r \notin Pend /\ r \notin orphaned /\ r \notin toReply /\ r \notin toCancel
  BY <1>1, <1>4 DEF RInv, WaiterInv, Pend
<1>15. gone \subseteq {r} /\ Pend \subseteq Requests
  BY DEF Pend
<1> HIDE DEF gone
<1>16. WaiterInv'
  BY <1>1, <1>8, <1>12, <1>13, <1>14, <1>15 DEF RInv, WaiterInv
<1> QED
  BY <1>1, <1>10, <1>11, <1>16 DEF RInv, TableInv

-----------------------------------------------------------------------------
(* The session lifecycle. *)

\* Slots may move as long as no live or closing session is given up.
LEMMA SlotMoveAgrees ==
  ASSUME TablesAgree(slot, conn, access, attached, pending, {}), NEW sl,
         \A x \in Ids : slot[x] \in {"Live", "Closing"} => sl[x] \in {"Live", "Closing"}
  PROVE  TablesAgree(sl, conn, access, attached, pending, {})
BY DEF TablesAgree, Entry

LEMMA LifecycleStep ==
  ASSUME RInv, UNCHANGED <<tableVars, waiterVars>>, SlotsOK',
         \A x \in Ids : slot[x] \in {"Live", "Closing"} => slot'[x] \in {"Live", "Closing"}
  PROVE  RInv'
<1>1. UNCHANGED <<conn, access, attached, pending>>
  BY DEF tableVars
<1>2. TablesAgree(slot', conn', access', attached', pending', {})
  BY <1>1, SlotMoveAgrees DEF RInv, TableInv
<1>3. WaiterInv'
  BY <1>1, WaitersStay DEF RInv, Pend, IsPending
<1> QED
  BY <1>2, <1>3 DEF RInv, TableInv

LEMMA StepStartLoad ==
  ASSUME RInv, NEW s \in Ids, StartLoad(s)
  PROVE  RInv'
BY LifecycleStep
  DEF StartLoad, Reserve, routingVars, tableVars, RInv, TableInv, SlotsOK, SlotState,
      IdleCloseUnattached, AttachedTo

LEMMA StepFinishLoad ==
  ASSUME RInv, NEW s \in Ids, FinishLoad(s)
  PROVE  RInv'
BY LifecycleStep
  DEF FinishLoad, Publish, Published, routingVars, tableVars, RInv, TableInv, SlotsOK, SlotState,
      IdleCloseUnattached, AttachedTo

LEMMA StepFailLoad ==
  ASSUME RInv, NEW s \in Ids, FailLoad(s)
  PROVE  RInv'
BY LifecycleStep
  DEF FailLoad, Retire, routingVars, tableVars, RInv, TableInv, SlotsOK, SlotState,
      IdleCloseUnattached, AttachedTo

LEMMA StepBeginClose ==
  ASSUME RInv, NEW s \in Ids, BeginClose(s)
  PROVE  RInv'
BY LifecycleStep
  DEF BeginClose, Close, ClosingSlots, AskedWith, ChildrenOf, routingVars, tableVars, RInv,
      TableInv, SlotsOK, SlotState, IdleCloseUnattached, AttachedTo

LEMMA StepIdleClose ==
  ASSUME RInv, NEW s \in Ids, IdleClose(s)
  PROVE  RInv'
<1>1. AttachedTo(s) = {}
  BY DEF IdleClose, AttachedTo, RInv, TableInv, TablesAgree
<1> QED
  BY <1>1, LifecycleStep
  DEF IdleClose, Close, ClosingSlots, AskedWith, ChildrenOf, tableVars, RInv,
      TableInv, SlotsOK, SlotState, IdleCloseUnattached, AttachedTo

\* A session o ends in tables that agree: everything but the slots is in order again.
LEMMA EndKeeps ==
  ASSUME RInv, NEW o \in Ids, NEW slow \in SUBSET Conns, NEW sl, NEW acc, NEW att, NEW P,
         TablesAgree(sl, conn, acc, att, P, {}),
         \A x \in Ids \ {o} : sl[x] \in {"Live", "Closing"} => slot'[x] \in {"Live", "Closing"},
         \A r \in Requests :
           P[r].session = pending[r].session /\ P[r].audience = pending[r].audience,
         Ended(o, acc, att, P, slow)
  PROVE  /\ WaiterInv'
         /\ TablesAgree(slot', conn', access', attached', pending', {})
         /\ attached' \subseteq {k \in att : k[2] # o}
<1> DEFINE R == RequestsOf(o)
           atto == {k \in att : k[2] # o}
<1>1. /\ Disconnected(slow, acc, atto, P, R, {o})
      /\ WillCancel(R \cup TargetedAt(slow))
      /\ UNCHANGED <<waiter, timers, toReply>>
  BY DEF Ended
<1>2. P \in [Requests -> Entry]
  BY DEF TablesAgree
<1>3. TablesAgree(slot', conn, acc, atto, P, R)
  <2>1. ASSUME NEW r \in Requests \ R
        PROVE  /\ P[r].session # NoId => slot'[P[r].session] \in {"Live", "Closing"}
               /\ \A c \in P[r].recipients :
                    <<c, P[r].session>> \in atto /\ acc[<<c, P[r].session>>] = "full"
    <3>1. P[r].session # o /\ P[r].session \in Ids \cup {NoId}
      BY <1>2 DEF RequestsOf, Entry
    <3>2. P[r].session # NoId => sl[P[r].session] \in {"Live", "Closing"}
      BY DEF TablesAgree
    <3>3. \A c \in P[r].recipients :
            <<c, P[r].session>> \in att /\ acc[<<c, P[r].session>>] = "full"
      BY DEF TablesAgree
    <3> QED
      BY <3>1, <3>2, <3>3
  <2>2. ASSUME NEW r \in Requests \ R
        PROVE  /\ P[r].session = NoId =>
                    P[r].audience = AllFull /\ P[r].turn = NoTurn /\ P[r].recipients = {}
               /\ P[r].audience # AllFull => P[r].recipients = {P[r].audience}
    BY DEF TablesAgree
  <2>3. \A c \in Conns, s \in Ids :
         /\ <<c, s>> \in atto => slot'[s] \in {"Live", "Closing"} /\ acc[<<c, s>>] # "none"
         /\ acc[<<c, s>>] # "none" => conn[c] = "up"
    BY DEF TablesAgree
  <2>4. /\ conn \in [Conns -> {"new", "up", "gone"}] /\ acc \in [Conns \X Ids -> Access]
        /\ atto \subseteq Conns \X Ids
    BY DEF TablesAgree
  <2> HIDE DEF atto, R
  <2> QED
    BY <2>1, <2>2, <2>3, <2>4, <1>2 DEF TablesAgree
<1>4. \A r \in Requests : P[r].audience \in slow => r \in R \cup TargetedAt(slow)
  BY DEF TargetedAt
<1>5. TablesAgree(slot', conn', access', attached', pending', {})
  <2> HIDE DEF R, atto
  <2> QED
    BY <1>1, <1>3, <1>4, DisconnectedAgrees
<1>6. R \subseteq Pend /\ TargetedAt(slow) \subseteq Pend
  BY TargetedPending, RoutingAssumption DEF RequestsOf, Pend, IsPending, RInv
<1>7. Pend' = Pend \ (R \cup TargetedAt(slow))
  <2>1. {r \in Requests : P[r].session # NoId} = Pend
    BY DEF Pend, IsPending
  <2> HIDE DEF R, atto
  <2> QED
    BY <2>1, <1>1, <1>2, PendAfter
<1>8. WaiterInv'
  <2> DEFINE X == R \cup TargetedAt(slow)
  <2>1. X \subseteq Pend /\ Pend' = Pend \ X /\ WillCancel(X)
    BY <1>1, <1>6, <1>7
  <2>2. Pend' \subseteq timers'
    BY <1>1, <1>7 DEF RInv, WaiterInv
  <2> HIDE DEF X
  <2> QED
    BY <2>1, <2>2, <1>1, WaitersCancelled DEF RInv
<1> QED
  BY <1>1, <1>5, <1>8 DEF Disconnected

LEMMA StepCompleteClose ==
  ASSUME RInv, NEW s \in Ids, NEW slow \in SUBSET Conns, CompleteClose(s, slow)
  PROVE  RInv'
<1>1. /\ slot[s] = "Closing" /\ slot' = [slot EXCEPT ![s] = "Absent"]
      /\ asked' = asked \ {s}
      /\ Ended(s, access, attached, pending, slow)
      /\ idle' = idle \ {s}
  BY DEF CompleteClose, Retire
<1>2. /\ TablesAgree(slot, conn, access, attached, pending, {})
      /\ \A x \in Ids \ {s} : slot[x] \in {"Live", "Closing"} => slot'[x] \in {"Live", "Closing"}
  BY <1>1 DEF RInv, TableInv, SlotsOK
<1>3. /\ WaiterInv'
      /\ TablesAgree(slot', conn', access', attached', pending', {})
      /\ attached' \subseteq {k \in attached : k[2] # s}
  BY <1>1, <1>2, EndKeeps
<1>4. SlotsOK'
  BY <1>1, <1>3 DEF RInv, TableInv, SlotsOK, SlotState, IdleCloseUnattached, AttachedTo
<1> QED
  BY <1>3, <1>4 DEF RInv, TableInv

\* The caller moves from o to n; sl are the slots before the step with n published.
LEMMA RepointKeeps ==
  ASSUME RInv, NEW c \in Conns, NEW o \in Ids, NEW n \in Ids, NEW slow \in SUBSET Conns,
         Repointed(c, o, n, slow), o # n, slot[n] \in {"Loading", "Live"},
         slot' \in [Ids -> SlotState], asked' \subseteq {s \in Ids : slot'[s] = "Loading"},
         slot'[n] \in {"Live", "Closing"},
         \A x \in Ids : slot[x] \in {"Live", "Closing"} => slot'[x] \in {"Live", "Closing"},
         \A x \in Ids : slot[x] = "Closing" => slot'[x] = "Closing"
  PROVE  RInv'
<1> DEFINE acc == Granted(c, n, "full")
           att == attached \cup {<<c, n>>}
           P == Offered(Replayed(c, n, "full"), c)
<1>1. /\ access[<<c, o>>] = "full" /\ <<c, o>> \in attached
      /\ Ended(o, acc, att, P, slow)
      /\ UNCHANGED idle
  BY DEF Repointed, MayReplace
<1>2. TablesAgree(slot, conn, access, attached, pending, {})
  BY DEF RInv, TableInv
<1>3. conn[c] = "up" /\ pending \in [Requests -> Entry]
  BY <1>1, <1>2 DEF TablesAgree
<1>4. TablesAgree(slot', conn, acc, att, P, {})
  BY <1>2, <1>3, AttachAgrees
<1>5. \A r \in Requests : P[r].session = pending[r].session /\ P[r].audience = pending[r].audience
  BY <1>3 DEF Offered, Entry
<1> HIDE DEF acc, att, P
<1>6. /\ WaiterInv'
      /\ TablesAgree(slot', conn', access', attached', pending', {})
      /\ attached' \subseteq {k \in att : k[2] # o}
  <2>1. \A x \in Ids \ {o} : slot'[x] \in {"Live", "Closing"} => slot'[x] \in {"Live", "Closing"}
    OBVIOUS
  <2>2. Ended(o, acc, att, P, slow)
    BY <1>1
  <2> QED
    BY <2>1, <2>2, <1>4, <1>5, EndKeeps
<1>7. SlotsOK'
  <2>1. \A s \in idle : s # n /\ slot'[s] = "Closing"
    BY DEF RInv, TableInv, SlotsOK, IdleCloseUnattached
  <2>2. \A s \in idle : AttachedTo(s)' = {}
    BY <2>1, <1>6 DEF att, AttachedTo, RInv, TableInv, SlotsOK, IdleCloseUnattached
  <2> QED
    BY <2>1, <2>2, <1>1 DEF RInv, TableInv, SlotsOK, IdleCloseUnattached
<1> QED
  BY <1>6, <1>7 DEF RInv, TableInv

LEMMA StepCommitReplace ==
  ASSUME RInv, NEW c \in Conns, NEW o \in Ids, NEW n \in Ids, NEW slow \in SUBSET Conns,
         CommitReplace(c, o, n, slow) \/ CommitReplaceToLive(c, o, n, slow)
  PROVE  RInv'
<1>0. SlotsOK
  BY DEF RInv, TableInv
<1>1. CASE CommitReplace(c, o, n, slow)
  <2>1. /\ slot[o] = "Live" /\ slot[n] = "Loading"
        /\ slot' = [slot EXCEPT ![n] = Published(n), ![o] = "Closing"]
        /\ asked' = asked \ {n}
        /\ Repointed(c, o, n, slow)
    BY <1>1 DEF CommitReplace, Succeed
  <2> QED
    BY <2>1, <1>0, RepointKeeps DEF SlotsOK, SlotState, Published
<1>2. CASE CommitReplaceToLive(c, o, n, slow)
  <2>1. /\ slot[o] = "Live" /\ slot[n] = "Live" /\ o # n
        /\ slot' = [slot EXCEPT ![o] = "Closing"]
        /\ asked' = asked
        /\ Repointed(c, o, n, slow)
    BY <1>2 DEF CommitReplaceToLive, Leave
  <2> QED
    BY <2>1, <1>0, RepointKeeps DEF SlotsOK, SlotState
<1> QED
  BY <1>1, <1>2

LEMMA StepReplaceToLiveFails ==
  ASSUME RInv, NEW c \in Conns, NEW o \in Ids, NEW n \in Ids, ReplaceToLiveFails(c, o, n)
  PROVE  RInv'
<1>1. /\ Tables({c}, {})
      /\ orphaned' = orphaned \cup TargetedAt({c})
      /\ UNCHANGED <<slot, asked, idle, waiter, timers, toCancel, toReply>>
  BY DEF ReplaceToLiveFails, lifecycleVars
<1>2. TableInv' /\ Pend' = Pend \ TargetedAt({c}) /\ TargetedAt({c}) \subseteq Pend
  <2>1. TableInv' /\ Pend' = Pend \ ({} \cup TargetedAt({c})) /\ TargetedAt({c}) \subseteq Pend
    BY <1>1, TablesKeep
  <2> QED
    BY <2>1
<1>3. WaiterInv'
  BY <1>1, <1>2 DEF RInv, WaiterInv, Pend
<1> QED
  BY <1>2, <1>3 DEF RInv

-----------------------------------------------------------------------------
LEMMA InitRInv == RequestsInit => RInv
<1> SUFFICES ASSUME RequestsInit PROVE RInv
  OBVIOUS
<1>1. TableInv
  BY NoEntryIs
  DEF RequestsInit, LifecycleInit, RoutingInit, TableInv, SlotsOK, SlotState, Access,
      IdleCloseUnattached, TablesAgree
<1>2. WaiterInv
  BY NoEntryIs DEF RequestsInit, RoutingInit, WaiterInv, Pend, IsPending
<1> QED
  BY <1>1, <1>2 DEF RInv

LEMMA NextKeepsRInv == RInv /\ [RequestsNext]_allVars => RInv'
<1> SUFFICES ASSUME RInv, [RequestsNext]_allVars PROVE RInv'
  OBVIOUS
<1>1. CASE ConnectionCalls
  BY <1>1, StepConnect, StepDisconnect, StepAttach, StepDetach, StepRegisterCallback,
     StepRevokeGrants, RoutingAssumption
  DEF ConnectionCalls, Disconnect, AttachFails
<1>2. CASE RequestCalls
  <2>1. ASSUME NEW c \in Conns, NEW r \in Requests, NEW slow \in SUBSET Conns,
               CancelLast(c, r, slow)
        PROVE  RInv'
    <3>1. {r} \subseteq Pend /\ CancelRequests({r}, slow) /\ UNCHANGED <<lifecycleVars, idle, timers>>
      BY <2>1 DEF CancelLast, MayAnswer, Pend
    <3> QED
      BY <3>1, StepCancel
  <2> QED
    BY <1>2, <2>1, StepRouteRequest, StepAnswer, StepWithdraw, StepCancelTurn, StepRefusedCall
    DEF RequestCalls
<1>3. CASE \E r \in Requests : Timeout(r) \/ DropWaiter(r) \/ SendReply(r)
  BY <1>3, StepExpire, StepDropWaiter, StepSendReply DEF Timeout
<1>4. CASE LifecycleCalls
  BY <1>4, StepStartLoad, StepFinishLoad, StepFailLoad, StepBeginClose, StepIdleClose,
     StepCompleteClose, StepCommitReplace, StepReplaceToLiveFails
  DEF LifecycleCalls
<1>5. CASE UNCHANGED allVars
  BY <1>5
  DEF allVars, lifecycleVars, routingVars, tableVars, waiterVars, RInv, TableInv, SlotsOK,
      IdleCloseUnattached, AttachedTo, WaiterInv, Pend, IsPending
<1> QED
  BY <1>1, <1>2, <1>3, <1>4, <1>5 DEF RequestsNext

\* The tables agree and every waiter is accounted for in every reachable state, for any
\* connections, sessions and requests and whatever limits.
THEOREM RoutingInvariant == RequestsSpec => []RInv
BY InitRInv, NextKeepsRInv, PTL DEF RequestsSpec

\* Every component of the routing state keeps its type.
THEOREM RoutingTypeCorrect == RequestsSpec => []RoutingTypeOK
<1>1. RInv => RoutingTypeOK
  BY DEF RInv, TableInv, SlotsOK, TablesAgree, WaiterInv, RoutingTypeOK
<1> QED
  BY <1>1, RoutingInvariant, PTL

\* No disconnect, close, replacement or turn end strands a waiter.
THEOREM WaitersAccountedFor == RequestsSpec => []NoStrandedWaiter
<1>1. RInv => NoStrandedWaiter
  BY DEF RInv, WaiterInv, Pend, NoStrandedWaiter
<1> QED
  BY <1>1, RoutingInvariant, PTL

\* An accepted answer is not overtaken by a timeout, a disconnect or a session end.
THEOREM AcceptedAnswerDelivered == RequestsSpec => []AnswerReachesWaiter
<1>1. RInv => AnswerReachesWaiter
  BY DEF RInv, WaiterInv, AnswerReachesWaiter
<1> QED
  BY <1>1, RoutingInvariant, PTL

\* Only entitled connections are recipients, and a targeted request has its connection.
THEOREM RecipientsCorrect == RequestsSpec => []RecipientsEntitled
<1>1. ASSUME RInv, NEW r \in Requests, NEW c \in pending[r].recipients
      PROVE  /\ conn[c] = "up" /\ <<c, pending[r].session>> \in attached
             /\ access[<<c, pending[r].session>>] = "full"
  <2>1. <<c, pending[r].session>> \in attached /\ access[<<c, pending[r].session>>] = "full"
        /\ attached \subseteq Conns \X Ids
    BY <1>1 DEF RInv, TableInv, TablesAgree
  <2>2. c \in Conns /\ pending[r].session \in Ids
    BY <2>1
  <2> QED
    BY <1>1, <2>1, <2>2 DEF RInv, TableInv, TablesAgree
<1>2. ASSUME RInv, NEW r \in Requests, IsPending(r), pending[r].audience # AllFull
      PROVE  pending[r].recipients = {pending[r].audience}
  BY <1>2 DEF RInv, TableInv, TablesAgree, IsPending
<1>3. RInv => RecipientsEntitled
  BY <1>1, <1>2 DEF RecipientsEntitled
<1> QED
  BY <1>3, RoutingInvariant, PTL

\* Ended sessions and gone connections leave no attachment, grant or request behind.
THEOREM NothingLeftBehind == RequestsSpec => []NothingOutlives
<1>1. ASSUME RInv PROVE NothingOutlives
  <2>1. attached \subseteq Conns \X Ids
    BY <1>1 DEF RInv, TableInv, TablesAgree
  <2>2. \A c \in Conns, s \in Ids :
          /\ <<c, s>> \in attached => slot[s] \in {"Live", "Closing"} /\ access[<<c, s>>] # "none"
          /\ access[<<c, s>>] # "none" => conn[c] = "up"
    BY <1>1 DEF RInv, TableInv, TablesAgree
  <2>3. \A r \in Requests : IsPending(r) => slot[pending[r].session] \in {"Live", "Closing"}
    BY <1>1 DEF RInv, TableInv, TablesAgree, IsPending
  <2> QED
    BY <2>1, <2>2, <2>3 DEF NothingOutlives
<1> QED
  BY <1>1, RoutingInvariant, PTL

\* The idle supervisor never closes a session under an attached connection.
THEOREM IdleCloseSafe == RequestsSpec => []IdleCloseUnattached
<1>1. RInv => IdleCloseUnattached
  BY DEF RInv, TableInv, SlotsOK
<1> QED
  BY <1>1, RoutingInvariant, PTL
-----------------------------------------------------------------------------
(* The attachment limits.  Every step removes attachments, or adds one for   *)
(* which ensure_attach_capacity found room.                                  *)

LEMMA SmallerWithin ==
  ASSUME NEW S, IsFiniteSet(S), NEW T, T \subseteq S, NEW max \in Nat, Cardinality(S) <= max
  PROVE  Cardinality(T) <= max
<1>1. IsFiniteSet(T) /\ Cardinality(T) <= Cardinality(S)
  BY FS_Subset
<1> QED
  BY <1>1, FS_CardinalityType

\* A set below its limit takes one more member.
LEMMA RoomForOne ==
  ASSUME NEW S, IsFiniteSet(S), NEW x, NEW max \in Nat, Cardinality(S) < max
  PROVE  IsFiniteSet(S \cup {x}) /\ Cardinality(S \cup {x}) <= max
<1>1. IsFiniteSet(S \cup {x})
  BY FS_AddElement
<1>2. Cardinality(S \cup {x}) = IF x \in S THEN Cardinality(S) ELSE Cardinality(S) + 1
  BY FS_AddElement
<1>3. Cardinality(S) \in Nat
  BY FS_CardinalityType
<1> QED
  BY <1>1, <1>2, <1>3

\* A set within its limit gives up a member and takes one.
LEMMA RoomForSwap ==
  ASSUME NEW S, IsFiniteSet(S), NEW x, NEW y \in S, NEW max \in Nat, Cardinality(S) <= max
  PROVE  IsFiniteSet((S \ {y}) \cup {x}) /\ Cardinality((S \ {y}) \cup {x}) <= max
<1> DEFINE R == S \ {y}
<1>1. IsFiniteSet(R) /\ Cardinality(R) = Cardinality(S) - 1
  BY FS_RemoveElement
<1>2. Cardinality(R) \in Nat /\ Cardinality(S) \in Nat
  BY <1>1, FS_CardinalityType
<1>3. Cardinality(R) < max
  BY <1>1, <1>2
<1> HIDE DEF R
<1>4. IsFiniteSet(R \cup {x}) /\ Cardinality(R \cup {x}) <= max
  BY <1>1, <1>3, RoomForOne
<1> QED
  BY <1>4 DEF R

LEMMA AttachmentsFinite ==
  ASSUME NEW c, NEW s
  PROVE  IsFiniteSet(SessionsOf(c)) /\ IsFiniteSet(AttachedTo(s))
<1>1. SessionsOf(c) \subseteq Ids /\ AttachedTo(s) \subseteq Conns
  BY DEF SessionsOf, AttachedTo
<1> QED
  BY <1>1, FS_Subset, RoutingAssumption

LEMMA RemovalKeepsLimits ==
  ASSUME AttachmentLimits, attached' \subseteq attached
  PROVE  AttachmentLimits'
<1>1. ASSUME NEW c \in Conns PROVE Cardinality(SessionsOf(c)') <= MaxSessionsPerConn
  <2>1. SessionsOf(c)' \subseteq SessionsOf(c)
    BY DEF SessionsOf
  <2> QED
    BY <2>1, AttachmentsFinite, SmallerWithin, RoutingAssumption DEF AttachmentLimits
<1>2. ASSUME NEW s \in Ids PROVE Cardinality(AttachedTo(s)') <= MaxConnsPerSession
  <2>1. AttachedTo(s)' \subseteq AttachedTo(s)
    BY DEF AttachedTo
  <2> QED
    BY <2>1, AttachmentsFinite, SmallerWithin, RoutingAssumption DEF AttachmentLimits
<1> QED
  BY <1>1, <1>2 DEF AttachmentLimits

\* attach_live_session with o = NoId, replace_calling_attachment with the source o.
LEMMA RoomKeepsLimits ==
  ASSUME AttachmentLimits, NEW c \in Conns, NEW s \in Ids, NEW o, HasRoom(c, s, o),
         attached' \subseteq (attached \cup {<<c, s>>}) \ {<<c, o>>},
         <<c, o>> \in attached => o \in Ids
  PROVE  AttachmentLimits'
<1>1. CASE <<c, s>> \in attached
  <2>1. attached' \subseteq attached
    BY <1>1
  <2> QED
    BY <2>1, RemovalKeepsLimits
<1>2. CASE <<c, s>> \notin attached
  <2>1. /\ Cardinality(SessionsOf(c)) < MaxSessionsPerConn \/ o \in SessionsOf(c)
        /\ Cardinality(AttachedTo(s)) < MaxConnsPerSession
    BY <1>2 DEF HasRoom, SessionsOf
  <2>2. ASSUME NEW d \in Conns PROVE Cardinality(SessionsOf(d)') <= MaxSessionsPerConn
    <3>1. CASE d = c
      <4>1. IsFiniteSet(SessionsOf(c)) /\ Cardinality(SessionsOf(c)) <= MaxSessionsPerConn
        BY AttachmentsFinite DEF AttachmentLimits
      <4>2. CASE Cardinality(SessionsOf(c)) < MaxSessionsPerConn
        <5>1. SessionsOf(c)' \subseteq SessionsOf(c) \cup {s}
          BY DEF SessionsOf
        <5>2. /\ IsFiniteSet(SessionsOf(c) \cup {s})
              /\ Cardinality(SessionsOf(c) \cup {s}) <= MaxSessionsPerConn
          BY <4>1, <4>2, RoomForOne, RoutingAssumption
        <5> QED
          BY <3>1, <5>1, <5>2, SmallerWithin, RoutingAssumption
      <4>3. CASE o \in SessionsOf(c)
        <5>1. SessionsOf(c)' \subseteq (SessionsOf(c) \ {o}) \cup {s}
          BY DEF SessionsOf
        <5>2. /\ IsFiniteSet((SessionsOf(c) \ {o}) \cup {s})
              /\ Cardinality((SessionsOf(c) \ {o}) \cup {s}) <= MaxSessionsPerConn
          BY <4>1, <4>3, RoomForSwap, RoutingAssumption
        <5> QED
          BY <3>1, <5>1, <5>2, SmallerWithin, RoutingAssumption
      <4> QED
        BY <2>1, <4>2, <4>3
    <3>2. CASE d # c
      <4>1. SessionsOf(d)' \subseteq SessionsOf(d)
        BY <3>2 DEF SessionsOf
      <4> QED
        BY <4>1, AttachmentsFinite, SmallerWithin, RoutingAssumption DEF AttachmentLimits
    <3> QED
      BY <3>1, <3>2
  <2>3. ASSUME NEW t \in Ids PROVE Cardinality(AttachedTo(t)') <= MaxConnsPerSession
    <3>1. CASE t = s
      <4>1. AttachedTo(s)' \subseteq AttachedTo(s) \cup {c}
        BY DEF AttachedTo
      <4>2. /\ IsFiniteSet(AttachedTo(s) \cup {c})
            /\ Cardinality(AttachedTo(s) \cup {c}) <= MaxConnsPerSession
        BY <2>1, AttachmentsFinite, RoomForOne, RoutingAssumption
      <4> QED
        BY <3>1, <4>1, <4>2, SmallerWithin, RoutingAssumption
    <3>2. CASE t # s
      <4>1. AttachedTo(t)' \subseteq AttachedTo(t)
        BY <3>2 DEF AttachedTo
      <4> QED
        BY <4>1, AttachmentsFinite, SmallerWithin, RoutingAssumption DEF AttachmentLimits
    <3> QED
      BY <3>1, <3>2
  <2> QED
    BY <2>2, <2>3 DEF AttachmentLimits
<1> QED
  BY <1>1, <1>2

LEMMA NextKeepsLimits ==
  RInv /\ AttachmentLimits /\ [RequestsNext]_allVars => AttachmentLimits'
<1> SUFFICES ASSUME RInv, AttachmentLimits, [RequestsNext]_allVars PROVE AttachmentLimits'
  OBVIOUS
<1>1. attached \subseteq Conns \X Ids
  BY DEF RInv, TableInv, TablesAgree
<1>2. ASSUME NEW D, NEW acc, NEW att, NEW P, NEW gone, NEW ended,
             Disconnected(D, acc, att, P, gone, ended)
      PROVE  attached' \subseteq att
  BY <1>2 DEF Disconnected
<1>3. CASE ConnectionCalls
  <2>1. ASSUME NEW c \in Conns, NEW s \in Ids, NEW level \in Levels, Attach(c, s, level)
        PROVE  AttachmentLimits'
    <3>1. HasRoom(c, s, NoId) /\ attached' = attached \cup {<<c, s>>}
      BY <2>1 DEF Attach
    <3>2. <<c, NoId>> \notin attached /\ <<c, s>> # <<c, NoId>>
      BY <1>1, RoutingAssumption
    <3>3. attached' \subseteq (attached \cup {<<c, s>>}) \ {<<c, NoId>>}
      BY <3>1, <3>2
    <3> QED
      BY <3>1, <3>2, <3>3, RoomKeepsLimits
  <2>2. ASSUME NEW c, NEW s,
               \/ Connect(c) \/ Disconnect(c) \/ AttachFails(c, s) \/ Detach(c, s)
               \/ RegisterCallback(c, s) \/ RevokeGrants(s)
        PROVE  attached' \subseteq attached
    BY <1>2, <2>2
    DEF Connect, Disconnect, AttachFails, Detach, RegisterCallback, RevokeGrants, Tables
  <2> QED
    BY <1>3, <2>1, <2>2, RemovalKeepsLimits DEF ConnectionCalls
<1>4. CASE RequestCalls
  <2>1. ASSUME NEW r, NEW s, NEW a, NEW t, NEW slow, NEW c,
               \/ RouteRequest(r, s, a, t, slow) \/ Answer(c, r, slow) \/ CancelLast(c, r, slow)
               \/ Withdraw(c, r) \/ CancelTurn(t, slow) \/ RefusedCall
        PROVE  attached' \subseteq attached
    BY <1>2, <2>1
    DEF RouteRequest, Answer, CancelLast, Withdraw, CancelTurn, RefusedCall, CancelRequests,
        Tables, tableVars
  <2> QED
    BY <1>4, <2>1, RemovalKeepsLimits DEF RequestCalls
<1>5. CASE \E r \in Requests : Timeout(r) \/ DropWaiter(r) \/ SendReply(r)
  <2>1. attached' \subseteq attached
    BY <1>2, <1>5 DEF Timeout, Expire, DropWaiter, SendReply, CancelRequests, Tables, tableVars
  <2> QED
    BY <2>1, RemovalKeepsLimits
<1>6. CASE LifecycleCalls
  <2>1. ASSUME NEW c \in Conns, NEW o \in Ids, NEW n \in Ids, NEW slow, Repointed(c, o, n, slow)
        PROVE  AttachmentLimits'
    <3>1. HasRoom(c, n, o)
      BY <2>1 DEF Repointed, MayReplace
    <3>2. attached' \subseteq {k \in attached \cup {<<c, n>>} : k[2] # o}
      BY <1>2, <2>1 DEF Repointed, Ended
    <3>3. attached' \subseteq (attached \cup {<<c, n>>}) \ {<<c, o>>}
      BY <3>2
    <3> QED
      BY <3>1, <3>3, RoomKeepsLimits
  <2>2. ASSUME NEW s, NEW slow, NEW c, NEW o, NEW n,
               \/ StartLoad(s) \/ FinishLoad(s) \/ FailLoad(s) \/ BeginClose(s) \/ IdleClose(s)
               \/ CompleteClose(s, slow) \/ ReplaceToLiveFails(c, o, n)
        PROVE  attached' \subseteq attached
    <3>1. CASE CompleteClose(s, slow)
      BY <1>2, <3>1 DEF CompleteClose, Ended
    <3>2. CASE ReplaceToLiveFails(c, o, n)
      BY <1>2, <3>2 DEF ReplaceToLiveFails, Tables
    <3>3. CASE attached' = attached
      BY <3>3
    <3> QED
      BY <2>2, <3>1, <3>2, <3>3
      DEF StartLoad, FinishLoad, FailLoad, BeginClose, IdleClose, routingVars, tableVars
  <2> QED
    BY <1>6, <2>1, <2>2, RemovalKeepsLimits DEF LifecycleCalls, CommitReplace, CommitReplaceToLive
<1>7. CASE UNCHANGED allVars
  <2>1. attached' \subseteq attached
    BY <1>7 DEF allVars, routingVars, tableVars
  <2> QED
    BY <2>1, RemovalKeepsLimits
<1> QED
  BY <1>3, <1>4, <1>5, <1>6, <1>7 DEF RequestsNext

LEMMA InitLimits == RequestsInit => AttachmentLimits
<1> SUFFICES ASSUME RequestsInit PROVE AttachmentLimits
  OBVIOUS
<1>1. /\ \A c \in Conns : SessionsOf(c) = {}
      /\ \A s \in Ids : AttachedTo(s) = {}
  BY DEF RequestsInit, RoutingInit, SessionsOf, AttachedTo
<1> QED
  BY <1>1, FS_EmptySet, RoutingAssumption DEF AttachmentLimits

\* No interleaving of attaches, replacements, detaches and disconnects takes a connection
\* over its sessions or a session over its connections.
THEOREM LimitsRespected == RequestsSpec => []AttachmentLimits
BY InitLimits, NextKeepsLimits, RoutingInvariant, PTL DEF RequestsSpec
=============================================================================
