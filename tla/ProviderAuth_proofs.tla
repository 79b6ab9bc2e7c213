------------------------ MODULE ProviderAuth_proofs ------------------------
(***************************************************************************)
(* Proofs about ProviderAuth, for every number of processes, tasks, token  *)
(* generations and faults.                                                 *)
(*                                                                         *)
(* The inductive invariant AInv says who is in the critical section and    *)
(* how what it carries relates to the stored credential (SectionInv), that *)
(* all numbers were minted (MintInv), what is known of spent tokens        *)
(* (TokenInv), and how stored, cached and waiting credentials of different *)
(* logins stay apart (LoginInv).                                           *)
(***************************************************************************)
EXTENDS ProviderAuth, TLAPS

Critical == {"post", "save", "revoke", "delete"}

\* A login that waits for the locks with its new credential.
Waiting(t) == task[t].op = "login" /\ task[t].pc \in {"permit", "lock"}

\* A task that carries a token nobody else has.
Unsaved(t) == task[t].pc = "save" \/ Waiting(t)

\* A task is in the critical section exactly if it has the lock file, and what
\* it carries stems from what is stored.
SectionInv ==
  /\ \A t \in Tasks :
       /\ task[t].pc \in Critical <=> flock = t
       /\ task[t].pc = "post" => task[t].cred = durable
       /\ task[t].pc = "save" =>
            /\ task[t].cred.login = durable.login /\ task[t].old = durable.tok
            /\ durable # NoCred /\ durable.tok < task[t].cred.tok
       /\ task[t].pc \in {"post", "save"} => task[t].op # "logout"
       /\ task[t].pc = "permit" \/ permit[t[1]] = t => managed[t[1]]
       /\ task[t].pc \notin {"idle", "touch"} /\ task[t].op # "logout" => managed[t[1]]
  /\ \A p \in Procs : running[p] => managed[p]

\* Everything that was handed out is at most `minted'.
MintInv ==
  /\ durable.tok <= minted /\ durable.login <= minted
  /\ \A p \in Procs : cell[p].tok <= minted /\ cell[p].login <= minted
  /\ \A t \in Tasks : task[t].cred.tok <= minted /\ task[t].cred.login <= minted
  /\ \A k \in spent \cup forsaken : k <= minted
  /\ \A p \in Procs : \A l \in loggedOut[p] : l <= minted

TokenInv ==
  /\ reused = {}
  /\ StoredRedeemable
  /\ \A c \in stray : c.tok \in forsaken
  /\ \A t \in Tasks : Unsaved(t) =>
       /\ task[t].cred.tok \notin spent \cup forsaken
       /\ task[t].cred.tok # durable.tok
       /\ \A u \in Tasks : u # t /\ Unsaved(u) => task[u].cred.tok # task[t].cred.tok

LoginInv ==
  /\ durable.login = current
  /\ \A p \in Procs :
       /\ durable.login \notin loggedOut[p] /\ cell[p].login \notin loggedOut[p]
       /\ ~managed[p] => cell[p] = NoCred /\ loggedOut[p] = {}
       /\ cell[p].login = durable.login => cell[p].tok <= durable.tok
  /\ \A t \in Tasks : task[t].pc = "touch" /\ task[t].cred.login = durable.login =>
       task[t].cred.tok <= durable.tok
  /\ \A t \in Tasks : Waiting(t) =>
       /\ task[t].cred.login # durable.login /\ task[t].cred # NoCred
       /\ \A p \in Procs :
            cell[p].login # task[t].cred.login /\ task[t].cred.login \notin loggedOut[p]
       /\ \A u \in Tasks : u # t /\ (task[u].pc = "touch" \/ Waiting(u)) =>
            task[u].cred.login # task[t].cred.login

AInv == AuthTypeOK /\ SectionInv /\ MintInv /\ TokenInv /\ LoginInv

-----------------------------------------------------------------------------
LEMMA CredFacts ==
  /\ NoCred \in Cred /\ NoCred.tok = 0 /\ NoCred.login = 0
  /\ \A c \in Cred : /\ c.tok \in Nat /\ c.login \in Nat
                     /\ c # NoCred => c.tok \in Token /\ c.login \in Token
                                     /\ c.tok # 0 /\ c.login # 0
BY DEF Cred, Token, NoCred

LEMMA InitAInv == AuthInit => AInv
<1> SUFFICES ASSUME AuthInit PROVE AInv
  OBVIOUS
<1>1. AuthTypeOK
  BY AuthAssumption DEF AuthInit, AuthTypeOK, Cred, Token, Idle, NoCred, Holding
<1>2. SectionInv /\ MintInv
  BY AuthAssumption DEF AuthInit, SectionInv, MintInv, Critical, Idle, NoCred
<1>3. TokenInv /\ LoginInv
  BY AuthAssumption
  DEF AuthInit, TokenInv, LoginInv, StoredRedeemable, Unsaved, Waiting, Idle, NoCred
<1> QED
  BY <1>1, <1>2, <1>3 DEF AInv

\* What gives up an exchange: the stored token is the only one that is at stake.
LEMMA AbandonedIs ==
  ASSUME AInv, NEW ts \in SUBSET Tasks, Abandoned(ts)
  PROVE  /\ forsaken \subseteq forsaken' /\ forsaken' \subseteq forsaken \cup {durable.tok}
         /\ stray \subseteq stray'
         /\ \A c \in stray' : c \in stray \/ (c = durable /\ durable.tok \in forsaken')
         /\ \A t \in ts : task[t].pc = "save" => durable.tok \in forsaken'
         /\ forsaken' \subseteq Token /\ stray' \subseteq Cred
<1>1. \A t \in Tasks : /\ task[t].pc = "post" => task[t].cred = durable
                       /\ task[t].pc = "save" => task[t].old = durable.tok
                       /\ task[t].pc \in {"post", "save"} => durable # NoCred
  BY DEF AInv, SectionInv, AuthTypeOK
<1>2. durable \in Cred /\ (durable # NoCred => durable.tok \in Token)
  BY DEF AInv, AuthTypeOK, Cred
<1>3. PICK S \in SUBSET {task[t].cred : t \in {u \in ts : task[u].pc = "post"}} :
        stray' = stray \cup S
  BY DEF Abandoned
<1>4. forsaken' = forsaken \cup {task[t].cred.tok : t \in {u \in ts : task[u].pc = "post"}}
                           \cup {task[t].old : t \in {u \in ts : task[u].pc = "save"}}
  BY DEF Abandoned
<1>5. forsaken' \subseteq Token
  BY <1>1, <1>2, <1>4 DEF AInv, AuthTypeOK
<1>6. \A c \in S : c = durable /\ durable.tok \in forsaken'
  BY <1>1, <1>3, <1>4
<1>7. \A t \in ts : task[t].pc = "save" => durable.tok \in forsaken'
  BY <1>1, <1>4
<1>8. forsaken' \subseteq forsaken \cup {durable.tok}
  BY <1>1, <1>4
<1>9. stray' \subseteq Cred
  BY <1>2, <1>3, <1>6 DEF AInv, AuthTypeOK
<1> QED
  BY <1>3, <1>4, <1>5, <1>6, <1>7, <1>8, <1>9

\* Giving up an exchange keeps what is known of tokens: the stored one is
\* forsaken, and the tokens that only one task has are not touched.
LEMMA GiveUpKeeps ==
  ASSUME AInv, NEW ts \in SUBSET Tasks, Abandoned(ts), UNCHANGED <<durable, spent, reused>>,
         \A u \in Tasks : Unsaved(u)' => Unsaved(u) /\ task'[u].cred = task[u].cred,
         \A u \in Tasks \ ts : task[u].pc = "save" => task'[u] = task[u]
  PROVE  TokenInv'
<1>1. /\ forsaken \subseteq forsaken' /\ forsaken' \subseteq forsaken \cup {durable.tok}
      /\ \A c \in stray' : c \in stray \/ (c = durable /\ durable.tok \in forsaken')
      /\ \A t \in ts : task[t].pc = "save" => durable.tok \in forsaken'
  BY AbandonedIs
<1>2. StoredRedeemable'
  BY <1>1 DEF AInv, TokenInv, StoredRedeemable
<1>3. \A c \in stray' : c.tok \in forsaken'
  BY <1>1 DEF AInv, TokenInv
<1> QED
  BY <1>1, <1>2, <1>3 DEF AInv, TokenInv
-----------------------------------------------------------------------------
(* One lemma per action: it keeps each part of the invariant. *)

LEMMA StepTakePermit ==
  ASSUME AInv, NEW t \in Tasks, TakePermit(t)
  PROVE  AInv'
<1>2. AuthTypeOK'
  BY AuthAssumption
  DEF TakePermit, procVars, lockVars, serverVars, logVars, Idle, NoCred, AInv, AuthTypeOK, SectionInv, Cred, Token, Holding
<1>3. SectionInv'
  BY AuthAssumption
  DEF TakePermit, procVars, lockVars, serverVars, logVars, Idle, NoCred, AInv, AuthTypeOK, SectionInv, MintInv, Critical, Cred, Token, Holding
<1>4. MintInv'
  BY AuthAssumption
  DEF TakePermit, procVars, lockVars, serverVars, logVars, Idle, NoCred, AInv, AuthTypeOK, MintInv, Cred, Token
<1>5. TokenInv'
  BY AuthAssumption
  DEF TakePermit, procVars, lockVars, serverVars, logVars, Idle, NoCred, AInv, AuthTypeOK, SectionInv, MintInv, TokenInv, StoredRedeemable, Unsaved, Waiting, Critical, Cred, Token
<1>6. LoginInv'
  BY AuthAssumption
  DEF TakePermit, procVars, lockVars, serverVars, logVars, Idle, NoCred, AInv, AuthTypeOK, SectionInv, MintInv, LoginInv, Waiting, Critical, Cred, Token
<1> QED
  BY <1>2, <1>3, <1>4, <1>5, <1>6 DEF AInv

LEMMA StepAttemptFails ==
  ASSUME AInv, NEW t \in Tasks, AttemptFails(t)
  PROVE  AInv'
<1>2. AuthTypeOK'
  BY AuthAssumption
  DEF AttemptFails, Ends, Released, procVars, lockVars, serverVars, logVars, Idle, NoCred, AInv, AuthTypeOK, SectionInv, Cred, Token, Holding
<1>3. SectionInv'
  BY AuthAssumption
  DEF AttemptFails, Ends, Released, procVars, lockVars, serverVars, logVars, Idle, NoCred, AInv, AuthTypeOK, SectionInv, MintInv, Critical, Cred, Token, Holding
<1>4. MintInv'
  BY AuthAssumption
  DEF AttemptFails, Ends, Released, procVars, lockVars, serverVars, logVars, Idle, NoCred, AInv, AuthTypeOK, MintInv, Cred, Token
<1>5. TokenInv'
  BY AuthAssumption
  DEF AttemptFails, Ends, Released, procVars, lockVars, serverVars, logVars, Idle, NoCred, AInv, AuthTypeOK, SectionInv, MintInv, TokenInv, StoredRedeemable, Unsaved, Waiting, Critical, Cred, Token
<1>6. LoginInv'
  BY AuthAssumption
  DEF AttemptFails, Ends, Released, procVars, lockVars, serverVars, logVars, Idle, NoCred, AInv, AuthTypeOK, SectionInv, MintInv, LoginInv, Waiting, Critical, Cred, Token
<1> QED
  BY <1>2, <1>3, <1>4, <1>5, <1>6 DEF AInv

LEMMA StepFirstTouch ==
  ASSUME AInv, NEW t \in Tasks, FirstTouch(t)
  PROVE  AInv'
<1>2. AuthTypeOK'
  <2>1. PICK c \in Cred : task' = [task EXCEPT ![t] = [Idle EXCEPT !.pc = "touch", !.cred = c]]
    BY CredFacts DEF FirstTouch, AInv, AuthTypeOK
  <2>2. [Idle EXCEPT !.pc = "touch", !.cred = c] \in [pc : {"idle", "touch", "permit"} \cup Holding,
                    op : {"none", "refresh", "login", "logout"},
                    rejected : {0} \cup Token, old : {0} \cup Token, cred : Cred]
        /\ [Idle EXCEPT !.pc = "touch", !.cred = c].pc = "touch"
    BY DEF Idle
  <2> QED
    BY <2>1, <2>2 DEF FirstTouch, procVars, lockVars, serverVars, logVars, AInv, AuthTypeOK
<1>3. SectionInv'
  BY AuthAssumption
  DEF FirstTouch, procVars, lockVars, serverVars, logVars, Idle, NoCred, AInv, AuthTypeOK, SectionInv, MintInv, Critical, Cred, Token, Holding
<1>4. MintInv'
  BY AuthAssumption
  DEF FirstTouch, procVars, lockVars, serverVars, logVars, Idle, NoCred, AInv, AuthTypeOK, MintInv, Cred, Token
<1>5. TokenInv'
  BY AuthAssumption
  DEF FirstTouch, procVars, lockVars, serverVars, logVars, Idle, NoCred, AInv, AuthTypeOK, SectionInv, MintInv, TokenInv, StoredRedeemable, Unsaved, Waiting, Critical, Cred, Token
<1>6. LoginInv'
  BY AuthAssumption
  DEF FirstTouch, procVars, lockVars, serverVars, logVars, Idle, NoCred, AInv, AuthTypeOK, SectionInv, MintInv, LoginInv, Waiting, Critical, Cred, Token
<1> QED
  BY <1>2, <1>3, <1>4, <1>5, <1>6 DEF AInv

LEMMA StepInsert ==
  ASSUME AInv, NEW t \in Tasks, Insert(t)
  PROVE  AInv'
<1>2. AuthTypeOK'
  BY AuthAssumption
  DEF Insert, CellAfterTouch, procVars, lockVars, serverVars, logVars, Idle, NoCred, AInv, AuthTypeOK, SectionInv, Cred, Token, Holding
<1>3. SectionInv'
  BY AuthAssumption
  DEF Insert, CellAfterTouch, procVars, lockVars, serverVars, logVars, Idle, NoCred, AInv, AuthTypeOK, SectionInv, MintInv, Critical, Cred, Token, Holding
<1>4. MintInv'
  BY AuthAssumption
  DEF Insert, CellAfterTouch, procVars, lockVars, serverVars, logVars, Idle, NoCred, AInv, AuthTypeOK, MintInv, Cred, Token
<1>5. TokenInv'
  BY AuthAssumption
  DEF Insert, CellAfterTouch, procVars, lockVars, serverVars, logVars, Idle, NoCred, AInv, AuthTypeOK, SectionInv, MintInv, TokenInv, StoredRedeemable, Unsaved, Waiting, Critical, Cred, Token
<1>6. LoginInv'
  BY AuthAssumption
  DEF Insert, CellAfterTouch, procVars, lockVars, serverVars, logVars, Idle, NoCred, AInv, AuthTypeOK, SectionInv, MintInv, LoginInv, Waiting, Critical, Cred, Token
<1> QED
  BY <1>2, <1>3, <1>4, <1>5, <1>6 DEF AInv

LEMMA StepRefresherWakes ==
  ASSUME AInv, NEW t \in Tasks, RefresherWakes(t)
  PROVE  AInv'
<1>2. AuthTypeOK'
  BY AuthAssumption
  DEF RefresherWakes, Asks, procVars, lockVars, serverVars, logVars, Idle, NoCred, AInv, AuthTypeOK, SectionInv, Cred, Token, Holding
<1>3. SectionInv'
  BY AuthAssumption
  DEF RefresherWakes, Asks, procVars, lockVars, serverVars, logVars, Idle, NoCred, AInv, AuthTypeOK, SectionInv, MintInv, Critical, Cred, Token, Holding
<1>4. MintInv'
  BY AuthAssumption
  DEF RefresherWakes, Asks, procVars, lockVars, serverVars, logVars, Idle, NoCred, AInv, AuthTypeOK, MintInv, Cred, Token
<1>5. TokenInv'
  BY AuthAssumption
  DEF RefresherWakes, Asks, procVars, lockVars, serverVars, logVars, Idle, NoCred, AInv, AuthTypeOK, SectionInv, MintInv, TokenInv, StoredRedeemable, Unsaved, Waiting, Critical, Cred, Token
<1>6. LoginInv'
  BY AuthAssumption
  DEF RefresherWakes, Asks, procVars, lockVars, serverVars, logVars, Idle, NoCred, AInv, AuthTypeOK, SectionInv, MintInv, LoginInv, Waiting, Critical, Cred, Token
<1> QED
  BY <1>2, <1>3, <1>4, <1>5, <1>6 DEF AInv

LEMMA StepRefreshNow ==
  ASSUME AInv, NEW t \in Tasks, RefreshNow(t)
  PROVE  AInv'
<1>2. AuthTypeOK'
  BY AuthAssumption
  DEF RefreshNow, Asks, procVars, lockVars, serverVars, logVars, Idle, NoCred, AInv, AuthTypeOK, SectionInv, Cred, Token, Holding
<1>3. SectionInv'
  BY AuthAssumption
  DEF RefreshNow, Asks, procVars, lockVars, serverVars, logVars, Idle, NoCred, AInv, AuthTypeOK, SectionInv, MintInv, Critical, Cred, Token, Holding
<1>4. MintInv'
  BY AuthAssumption
  DEF RefreshNow, Asks, procVars, lockVars, serverVars, logVars, Idle, NoCred, AInv, AuthTypeOK, MintInv, Cred, Token
<1>5. TokenInv'
  BY AuthAssumption
  DEF RefreshNow, Asks, procVars, lockVars, serverVars, logVars, Idle, NoCred, AInv, AuthTypeOK, SectionInv, MintInv, TokenInv, StoredRedeemable, Unsaved, Waiting, Critical, Cred, Token
<1>6. LoginInv'
  BY AuthAssumption
  DEF RefreshNow, Asks, procVars, lockVars, serverVars, logVars, Idle, NoCred, AInv, AuthTypeOK, SectionInv, MintInv, LoginInv, Waiting, Critical, Cred, Token
<1> QED
  BY <1>2, <1>3, <1>4, <1>5, <1>6 DEF AInv

LEMMA StepRefreshLocked ==
  ASSUME AInv, NEW t \in Tasks, RefreshLocked(t)
  PROVE  AInv'
<1>2. AuthTypeOK'
  <2>1. CASE MayStop(t, durable) /\ Ends(t)
    <3>1. Idle \in [pc : {"idle", "touch", "permit"} \cup Holding,
                    op : {"none", "refresh", "login", "logout"},
                    rejected : {0} \cup Token, old : {0} \cup Token, cred : Cred]
          /\ Idle.pc = "idle"
      BY DEF Idle, Cred, NoCred
    <3> QED
      BY <2>1, <3>1
      DEF RefreshLocked, Known, Ends, Released, LoopsOn, serverVars, logVars, AInv, AuthTypeOK
  <2>2. CASE MayRefresh(t, durable) /\ flock' = t
             /\ task' = [task EXCEPT ![t].pc = "post", ![t].cred = durable]
             /\ UNCHANGED <<permit, running>>
    <3> DEFINE r == [task[t] EXCEPT !.pc = "post", !.cred = durable]
    <3>1. task' = [task EXCEPT ![t] = r]
      BY <2>2 DEF AInv, AuthTypeOK
    <3>2. r \in [pc : {"idle", "touch", "permit"} \cup Holding,
                    op : {"none", "refresh", "login", "logout"},
                    rejected : {0} \cup Token, old : {0} \cup Token, cred : Cred]
          /\ r.cred # NoCred
      BY <2>2 DEF MayRefresh, AInv, AuthTypeOK, Holding
    <3> HIDE DEF r
    <3>3. /\ task' \in [Tasks -> [pc : {"idle", "touch", "permit"} \cup Holding,
                    op : {"none", "refresh", "login", "logout"},
                    rejected : {0} \cup Token, old : {0} \cup Token, cred : Cred]]
          /\ \A u \in Tasks : task'[u].pc \in {"post", "save"} => task'[u].cred # NoCred
      BY <3>1, <3>2 DEF AInv, AuthTypeOK
    <3>4. cell' \in [Procs -> Cred] /\ flock' \in Tasks
      BY <2>2 DEF RefreshLocked, Known, AInv, AuthTypeOK
    <3> QED
      BY <2>2, <3>3, <3>4
      DEF RefreshLocked, Known, serverVars, logVars, AInv, AuthTypeOK
  <2> QED
    BY <2>1, <2>2 DEF RefreshLocked, Known
<1>3. SectionInv'
  <2>1. \A u \in Tasks \ {t} : task'[u] = task[u]
    BY DEF RefreshLocked, Ends, AInv, AuthTypeOK
  <2>2. /\ UNCHANGED <<durable, managed>> /\ flock = NoTask /\ task[t].pc = "lock"
        /\ task[t].op = "refresh"
        /\ \A p \in Procs : running'[p] => running[p]
        /\ \A p \in Procs : permit'[p] \in {permit[p], NoTask}
    BY DEF RefreshLocked, LockFree, Ends, Released, LoopsOn, AInv, AuthTypeOK
  <2>3. \/ task'[t].pc = "idle" /\ flock' = NoTask
        \/ task'[t].pc = "post" /\ task'[t].cred = durable /\ flock' = t /\ task'[t].op = "refresh"
    BY <2>2, AuthAssumption DEF RefreshLocked, Known, Ends, Released, Idle, AInv, AuthTypeOK
  <2> QED
    BY <2>1, <2>2, <2>3, AuthAssumption DEF AInv, SectionInv, Critical
<1>4. MintInv'
  BY AuthAssumption
  DEF RefreshLocked, Known, MayStop, MayRefresh, LockFree, Ends, Released, LoopsOn, procVars, lockVars, serverVars, logVars, Idle, NoCred, AInv, AuthTypeOK, MintInv, Cred, Token
<1>5. TokenInv'
  <2>1. \A u \in Tasks : /\ Unsaved(u)' => Unsaved(u) /\ task'[u].cred = task[u].cred
                         /\ task[u].pc = "save" => task'[u] = task[u]
    BY DEF RefreshLocked, Known, Ends, Unsaved, Waiting, Idle, AInv, AuthTypeOK
  <2>2. UNCHANGED <<durable, spent, forsaken, reused, stray>>
    BY DEF RefreshLocked, serverVars, logVars
  <2> QED
    BY <2>1, <2>2 DEF AInv, TokenInv, StoredRedeemable
<1>6. LoginInv'
  <2>1. \A u \in Tasks : /\ Waiting(u)' => Waiting(u) /\ task'[u] = task[u]
                         /\ task'[u].pc = "touch" => task'[u] = task[u]
    BY DEF RefreshLocked, Known, Ends, Waiting, Idle, AInv, AuthTypeOK
  <2>2. /\ UNCHANGED <<durable, current, managed, loggedOut>>
        /\ \A p \in Procs : cell'[p] = cell[p] \/ (p = t[1] /\ cell'[p] = durable)
    BY DEF RefreshLocked, Known, serverVars, logVars, AInv, AuthTypeOK
  <2>3. durable.tok \in Nat /\ managed[t[1]]
    BY CredFacts DEF RefreshLocked, AInv, AuthTypeOK, SectionInv
  <2> QED
    BY <2>1, <2>2, <2>3 DEF AInv, LoginInv
<1> QED
  BY <1>2, <1>3, <1>4, <1>5, <1>6 DEF AInv

LEMMA StepExchange ==
  ASSUME AInv, NEW t \in Tasks, Exchange(t)
  PROVE  AInv'
<1>2. AuthTypeOK'
  <2>1. /\ task[t] \in [pc : {"idle", "touch", "permit"} \cup Holding,
                       op : {"none", "refresh", "login", "logout"},
                       rejected : {0} \cup Token, old : {0} \cup Token, cred : Cred]
        /\ task[t].cred # NoCred /\ minted \in 0..MaxTokens /\ minted < MaxTokens
    BY DEF Exchange, AInv, AuthTypeOK
  <2>2. task[t].cred \in [tok : Token, login : Token] /\ minted + 1 \in Token
    BY <2>1, AuthAssumption DEF Cred, Token
  <2> DEFINE c == [task[t].cred EXCEPT !.tok = minted + 1]
  <2>3. c \in [tok : Token, login : Token] /\ c # NoCred
    BY <2>2 DEF NoCred, Token
  <2>4. task' = [task EXCEPT ![t] = [task[t] EXCEPT !.pc = "save", !.old = task[t].cred.tok, !.cred = c]]
    BY DEF Exchange, AInv, AuthTypeOK
  <2> HIDE DEF c
  <2>5. /\ task' \in [Tasks -> [pc : {"idle", "touch", "permit"} \cup Holding,
                         op : {"none", "refresh", "login", "logout"},
                         rejected : {0} \cup Token, old : {0} \cup Token, cred : Cred]]
        /\ \A u \in Tasks : task'[u].pc \in {"post", "save"} => task'[u].cred # NoCred
    BY <2>1, <2>2, <2>3, <2>4 DEF AInv, AuthTypeOK, Cred, Holding
  <2>6. spent' \subseteq Token /\ minted' \in 0..MaxTokens
    BY <2>1, <2>2, AuthAssumption DEF Exchange, AInv, AuthTypeOK
  <2> QED
    BY <2>5, <2>6 DEF Exchange, procVars, lockVars, serverVars, logVars, AInv, AuthTypeOK
<1>3. SectionInv'
  BY AuthAssumption
  DEF Exchange, Redeemable, procVars, lockVars, serverVars, logVars, Idle, NoCred, AInv, AuthTypeOK, SectionInv, MintInv, Critical, Cred, Token, Holding
<1>4. MintInv'
  <2>1. minted \in Nat /\ minted' = minted + 1
    BY DEF Exchange, AInv, AuthTypeOK
  <2>2. \A u \in Tasks : /\ task'[u].cred.login = task[u].cred.login
                         /\ task'[u].cred.tok \in {task[u].cred.tok, minted + 1}
    BY DEF Exchange, AInv, AuthTypeOK, Cred, NoCred
  <2>3. \A u \in Tasks : task[u].cred.tok \in Nat /\ task[u].cred.login \in Nat
    BY CredFacts DEF AInv, AuthTypeOK
  <2>4. /\ durable.tok \in Nat /\ durable.login \in Nat
        /\ \A p \in Procs : cell[p].tok \in Nat /\ cell[p].login \in Nat
        /\ \A k \in spent \cup forsaken : k \in Nat
        /\ \A p \in Procs : \A l \in loggedOut[p] : l \in Nat
    BY CredFacts DEF AInv, AuthTypeOK, Token
  <2>5. spent' = spent \cup {task[t].cred.tok} /\ UNCHANGED <<durable, cell, forsaken, loggedOut>>
    BY DEF Exchange, procVars, logVars
  <2> QED
    BY <2>1, <2>2, <2>3, <2>4, <2>5 DEF AInv, MintInv
<1>5. TokenInv'
  BY AuthAssumption
  DEF Exchange, Redeemable, procVars, lockVars, serverVars, logVars, Idle, NoCred, AInv, AuthTypeOK, SectionInv, MintInv, TokenInv, StoredRedeemable, Unsaved, Waiting, Critical, Cred, Token
<1>6. LoginInv'
  BY AuthAssumption
  DEF Exchange, Redeemable, procVars, lockVars, serverVars, logVars, Idle, NoCred, AInv, AuthTypeOK, SectionInv, MintInv, LoginInv, Waiting, Critical, Cred, Token
<1> QED
  BY <1>2, <1>3, <1>4, <1>5, <1>6 DEF AInv

LEMMA StepExchangeRefused ==
  ASSUME AInv, NEW t \in Tasks, ExchangeRefused(t)
  PROVE  AInv'
<1>2. AuthTypeOK'
  BY AuthAssumption
  DEF ExchangeRefused, Redeemable, Ends, Released, procVars, lockVars, serverVars, logVars, Idle, NoCred, AInv, AuthTypeOK, SectionInv, Cred, Token, Holding
<1>3. SectionInv'
  BY AuthAssumption
  DEF ExchangeRefused, Redeemable, Ends, Released, procVars, lockVars, serverVars, logVars, Idle, NoCred, AInv, AuthTypeOK, SectionInv, MintInv, Critical, Cred, Token, Holding
<1>4. MintInv'
  BY AuthAssumption
  DEF ExchangeRefused, Redeemable, Ends, Released, procVars, lockVars, serverVars, logVars, Idle, NoCred, AInv, AuthTypeOK, MintInv, Cred, Token
<1>5. TokenInv'
  BY AuthAssumption
  DEF ExchangeRefused, Redeemable, Ends, Released, procVars, lockVars, serverVars, logVars, Idle, NoCred, AInv, AuthTypeOK, SectionInv, MintInv, TokenInv, StoredRedeemable, Unsaved, Waiting, Critical, Cred, Token
<1>6. LoginInv'
  BY AuthAssumption
  DEF ExchangeRefused, Redeemable, Ends, Released, procVars, lockVars, serverVars, logVars, Idle, NoCred, AInv, AuthTypeOK, SectionInv, MintInv, LoginInv, Waiting, Critical, Cred, Token
<1> QED
  BY <1>2, <1>3, <1>4, <1>5, <1>6 DEF AInv

LEMMA StepExchangeFails ==
  ASSUME AInv, NEW t \in Tasks, ExchangeFails(t)
  PROVE  AInv'
<1>1. /\ forsaken \subseteq forsaken' /\ forsaken' \subseteq forsaken \cup {durable.tok}
      /\ stray \subseteq stray'
      /\ \A c \in stray' : c \in stray \/ (c = durable /\ durable.tok \in forsaken')
      /\ \A u \in {t} : task[u].pc = "save" => durable.tok \in forsaken'
      /\ forsaken' \subseteq Token /\ stray' \subseteq Cred
  <2>1. Abandoned({t}) /\ {t} \in SUBSET Tasks
    BY DEF ExchangeFails
  <2> QED
    BY <2>1, AbandonedIs
<1>2. AuthTypeOK'
  BY <1>1, AuthAssumption
  DEF ExchangeFails, Ends, Released, procVars, lockVars, serverVars, logVars, Idle, NoCred, AInv, AuthTypeOK, SectionInv, Cred, Token, Holding
<1>3. SectionInv'
  BY <1>1, AuthAssumption
  DEF ExchangeFails, Ends, Released, procVars, lockVars, serverVars, logVars, Idle, NoCred, AInv, AuthTypeOK, SectionInv, MintInv, Critical, Cred, Token, Holding
<1>4. MintInv'
  BY <1>1, AuthAssumption
  DEF ExchangeFails, Ends, Released, procVars, lockVars, serverVars, logVars, Idle, NoCred, AInv, AuthTypeOK, MintInv, Cred, Token
<1>5. TokenInv'
  <2>1. UNCHANGED <<durable, spent, reused>> /\ Abandoned({t}) /\ {t} \in SUBSET Tasks
    BY AuthAssumption DEF ExchangeFails
  <2>2. \A u \in Tasks : Unsaved(u)' => Unsaved(u) /\ task'[u].cred = task[u].cred
    BY AuthAssumption DEF ExchangeFails, Ends, Unsaved, Waiting, Idle, AInv, AuthTypeOK
  <2>3. \A u \in Tasks \ {t} : task[u].pc = "save" => task'[u] = task[u]
    BY AuthAssumption DEF ExchangeFails, Ends, AInv, AuthTypeOK
  <2> QED
    BY <2>1, <2>2, <2>3, GiveUpKeeps
<1>6. LoginInv'
  BY <1>1, AuthAssumption
  DEF ExchangeFails, Ends, Released, procVars, lockVars, serverVars, logVars, Idle, NoCred, AInv, AuthTypeOK, SectionInv, MintInv, LoginInv, Waiting, Critical, Cred, Token
<1> QED
  BY <1>2, <1>3, <1>4, <1>5, <1>6 DEF AInv

LEMMA StepSaveRefreshed ==
  ASSUME AInv, NEW t \in Tasks, SaveRefreshed(t)
  PROVE  AInv'
<1>2. AuthTypeOK'
  BY AuthAssumption
  DEF SaveRefreshed, Persisted, Ends, Released, procVars, lockVars, serverVars, logVars, Idle, NoCred, AInv, AuthTypeOK, SectionInv, Cred, Token, Holding
<1>3. SectionInv'
  BY AuthAssumption
  DEF SaveRefreshed, Persisted, Ends, Released, procVars, lockVars, serverVars, logVars, Idle, NoCred, AInv, AuthTypeOK, SectionInv, MintInv, Critical, Cred, Token, Holding
<1>4. MintInv'
  BY AuthAssumption
  DEF SaveRefreshed, Persisted, Ends, Released, procVars, lockVars, serverVars, logVars, Idle, NoCred, AInv, AuthTypeOK, MintInv, Cred, Token
<1>5. TokenInv'
  BY AuthAssumption
  DEF SaveRefreshed, Persisted, Ends, Released, procVars, lockVars, serverVars, logVars, Idle, NoCred, AInv, AuthTypeOK, SectionInv, MintInv, TokenInv, StoredRedeemable, Unsaved, Waiting, Critical, Cred, Token
<1>6. LoginInv'
  <2> DEFINE c == task[t].cred
  <2>1. \A u \in Tasks : /\ Waiting(u)' => Waiting(u) /\ task'[u] = task[u]
                         /\ task'[u].pc = "touch" => task'[u] = task[u]
    BY DEF SaveRefreshed, Ends, Waiting, Idle, AInv, AuthTypeOK
  <2>2. /\ durable' = c /\ UNCHANGED <<current, managed, loggedOut>>
        /\ \A p \in Procs : cell'[p] = IF p = t[1] THEN c ELSE cell[p]
    BY DEF SaveRefreshed, Persisted, serverVars, logVars, AInv, AuthTypeOK
  <2>3. /\ c.login = durable.login /\ durable.tok < c.tok /\ managed[t[1]]
        /\ durable.tok \in Nat /\ c.tok \in Nat
        /\ \A p \in Procs : cell[p].tok \in Nat
        /\ \A u \in Tasks : task[u].cred.tok \in Nat
    BY CredFacts DEF SaveRefreshed, AInv, AuthTypeOK, SectionInv
  <2> HIDE DEF c
  <2> QED
    BY <2>1, <2>2, <2>3 DEF AInv, LoginInv
<1> QED
  BY <1>2, <1>3, <1>4, <1>5, <1>6 DEF AInv

LEMMA StepBeginLogin ==
  ASSUME AInv, NEW t \in Tasks, BeginLogin(t)
  PROVE  AInv'
<1>2. AuthTypeOK'
  BY AuthAssumption
  DEF BeginLogin, Asks, procVars, lockVars, serverVars, logVars, Idle, NoCred, AInv, AuthTypeOK, SectionInv, Cred, Token, Holding
<1>3. SectionInv'
  BY AuthAssumption
  DEF BeginLogin, Asks, procVars, lockVars, serverVars, logVars, Idle, NoCred, AInv, AuthTypeOK, SectionInv, MintInv, Critical, Cred, Token, Holding
<1>4. MintInv'
  <2>1. minted \in Nat /\ minted' = minted + 1
    BY DEF BeginLogin, AInv, AuthTypeOK
  <2>2. \A u \in Tasks : \/ task'[u].cred = task[u].cred
                         \/ task'[u].cred = [tok |-> minted + 1, login |-> minted + 1]
    BY DEF BeginLogin, Asks, AInv, AuthTypeOK
  <2>3. \A u \in Tasks : task[u].cred.tok \in Nat /\ task[u].cred.login \in Nat
    BY CredFacts DEF AInv, AuthTypeOK
  <2>4. /\ durable.tok \in Nat /\ durable.login \in Nat
        /\ \A p \in Procs : cell[p].tok \in Nat /\ cell[p].login \in Nat
        /\ \A k \in spent \cup forsaken : k \in Nat
        /\ \A p \in Procs : \A l \in loggedOut[p] : l \in Nat
    BY CredFacts DEF AInv, AuthTypeOK, Token
  <2>5. UNCHANGED <<durable, cell, spent, forsaken, loggedOut>>
    BY DEF BeginLogin, procVars, logVars
  <2> QED
    BY <2>1, <2>2, <2>3, <2>4, <2>5 DEF AInv, MintInv
<1>5. TokenInv'
  <2> DEFINE n == minted + 1
  <2>1. /\ \A u \in Tasks \ {t} : task'[u] = task[u]
        /\ task'[t].cred.tok = n /\ task'[t].pc = "permit" /\ task[t].pc = "idle"
    BY DEF BeginLogin, Asks, AInv, AuthTypeOK
  <2>2. UNCHANGED <<durable, spent, forsaken, reused, stray>>
    BY DEF BeginLogin, logVars
  <2>3. /\ n \notin spent \cup forsaken /\ n # durable.tok
        /\ \A u \in Tasks : task[u].cred.tok # n
    BY CredFacts DEF AInv, AuthTypeOK, MintInv, Token
  <2>4. \A u \in Tasks : Unsaved(u)' => u = t \/ Unsaved(u)
    BY <2>1 DEF Unsaved, Waiting
  <2>5. StoredRedeemable'
    BY <2>1, <2>2 DEF AInv, TokenInv, StoredRedeemable
  <2> HIDE DEF n
  <2> QED
    BY <2>1, <2>2, <2>3, <2>4, <2>5 DEF AInv, TokenInv
<1>6. LoginInv'
  BY AuthAssumption
  DEF BeginLogin, Asks, procVars, lockVars, serverVars, logVars, Idle, NoCred, AInv, AuthTypeOK, SectionInv, MintInv, LoginInv, Waiting, Critical, Cred, Token
<1> QED
  BY <1>2, <1>3, <1>4, <1>5, <1>6 DEF AInv

LEMMA StepSaveLogin ==
  ASSUME AInv, NEW t \in Tasks, SaveLogin(t)
  PROVE  AInv'
<1>2. AuthTypeOK'
  BY AuthAssumption
  DEF SaveLogin, LockFree, Ends, Released, procVars, lockVars, serverVars, logVars, Idle, NoCred, AInv, AuthTypeOK, SectionInv, Cred, Token, Holding
<1>3. SectionInv'
  BY AuthAssumption
  DEF SaveLogin, LockFree, Ends, Released, procVars, lockVars, serverVars, logVars, Idle, NoCred, AInv, AuthTypeOK, SectionInv, MintInv, Critical, Cred, Token, Holding
<1>4. MintInv'
  BY AuthAssumption
  DEF SaveLogin, LockFree, Ends, Released, procVars, lockVars, serverVars, logVars, Idle, NoCred, AInv, AuthTypeOK, MintInv, Cred, Token
<1>5. TokenInv'
  BY AuthAssumption
  DEF SaveLogin, LockFree, Ends, Released, procVars, lockVars, serverVars, logVars, Idle, NoCred, AInv, AuthTypeOK, SectionInv, MintInv, TokenInv, StoredRedeemable, Unsaved, Waiting, Critical, Cred, Token
<1>6. LoginInv'
  <2> DEFINE c == task[t].cred
  <2>1. \A u \in Tasks : /\ Waiting(u)' => u # t /\ Waiting(u) /\ task'[u] = task[u]
                         /\ task'[u].pc = "touch" => u # t /\ task'[u] = task[u]
    BY DEF SaveLogin, Ends, Waiting, Idle, AInv, AuthTypeOK
  <2>2. /\ durable' = c /\ current' = c.login /\ UNCHANGED <<managed, loggedOut>>
        /\ \A p \in Procs : cell'[p] = IF p = t[1] THEN c ELSE cell[p]
    BY DEF SaveLogin, AInv, AuthTypeOK
  <2>3. Waiting(t) /\ managed[t[1]] /\ c.tok \in Nat
    BY CredFacts DEF SaveLogin, Waiting, AInv, AuthTypeOK, SectionInv
  <2>4. /\ \A p \in Procs : cell[p].login # c.login /\ c.login \notin loggedOut[p]
        /\ \A u \in Tasks : u # t /\ (task[u].pc = "touch" \/ Waiting(u)) =>
             task[u].cred.login # c.login
    BY <2>3 DEF AInv, LoginInv
  <2> HIDE DEF c
  <2> QED
    BY <2>1, <2>2, <2>3, <2>4 DEF AInv, LoginInv
<1> QED
  BY <1>2, <1>3, <1>4, <1>5, <1>6 DEF AInv

LEMMA StepBeginLogout ==
  ASSUME AInv, NEW t \in Tasks, BeginLogout(t)
  PROVE  AInv'
<1>1. /\ forsaken \subseteq forsaken' /\ forsaken' \subseteq forsaken \cup {durable.tok}
      /\ stray \subseteq stray'
      /\ \A c \in stray' : c \in stray \/ (c = durable /\ durable.tok \in forsaken')
      /\ \A u \in {<<t[1], Refresher>>} : task[u].pc = "save" => durable.tok \in forsaken'
      /\ forsaken' \subseteq Token /\ stray' \subseteq Cred
  <2>1. Abandoned({<<t[1], Refresher>>}) /\ {<<t[1], Refresher>>} \in SUBSET Tasks
    BY AuthAssumption DEF BeginLogout
  <2> QED
    BY <2>1, AbandonedIs
<1>2. AuthTypeOK'
  BY <1>1, AuthAssumption
  DEF BeginLogout, Released, procVars, lockVars, serverVars, logVars, Idle, NoCred, AInv, AuthTypeOK, SectionInv, Cred, Token, Holding
<1>3. SectionInv'
  BY <1>1, AuthAssumption
  DEF BeginLogout, Released, procVars, lockVars, serverVars, logVars, Idle, NoCred, AInv, AuthTypeOK, SectionInv, MintInv, Critical, Cred, Token, Holding
<1>4. MintInv'
  <2>1. \A u \in Tasks : task'[u].cred = task[u].cred \/ task'[u].cred = NoCred
    BY DEF BeginLogout, Idle, AInv, AuthTypeOK
  <2>2. UNCHANGED <<durable, cell, minted, spent, loggedOut>>
    BY DEF BeginLogout
  <2>3. minted \in Nat /\ NoCred.tok = 0 /\ NoCred.login = 0
    BY CredFacts DEF AInv, AuthTypeOK
  <2> QED
    BY <1>1, <2>1, <2>2, <2>3 DEF AInv, MintInv
<1>5. TokenInv'
  <2>1. UNCHANGED <<durable, spent, reused>> /\ Abandoned({<<t[1], Refresher>>}) /\ {<<t[1], Refresher>>} \in SUBSET Tasks
    BY AuthAssumption DEF BeginLogout
  <2>2. \A u \in Tasks : Unsaved(u)' => Unsaved(u) /\ task'[u].cred = task[u].cred
    BY AuthAssumption DEF BeginLogout, Unsaved, Waiting, Idle, AInv, AuthTypeOK
  <2>3. \A u \in Tasks \ {<<t[1], Refresher>>} : task[u].pc = "save" => task'[u] = task[u]
    BY AuthAssumption DEF BeginLogout, AInv, AuthTypeOK
  <2> QED
    BY <2>1, <2>2, <2>3, GiveUpKeeps
<1>6. LoginInv'
  <2>1. \A u \in Tasks : /\ Waiting(u)' => Waiting(u) /\ task'[u] = task[u]
                         /\ task'[u].pc = "touch" => task'[u] = task[u]
    BY DEF BeginLogout, Waiting, Idle, AInv, AuthTypeOK
  <2>2. UNCHANGED <<durable, cell, managed, current, loggedOut>>
    BY DEF BeginLogout
  <2> QED
    BY <2>1, <2>2 DEF AInv, LoginInv
<1> QED
  BY <1>2, <1>3, <1>4, <1>5, <1>6 DEF AInv

LEMMA StepLogoutLocked ==
  ASSUME AInv, NEW t \in Tasks, LogoutLocked(t)
  PROVE  AInv'
<1>2. AuthTypeOK'
  <2>1. task' = [task EXCEPT ![t] = [task[t] EXCEPT !.pc = "revoke", !.cred = durable]]
    BY DEF LogoutLocked, AInv, AuthTypeOK
  <2> QED
    BY <2>1 DEF LogoutLocked, procVars, serverVars, logVars, AInv, AuthTypeOK, Holding
<1>3. SectionInv'
  BY AuthAssumption
  DEF LogoutLocked, LockFree, procVars, lockVars, serverVars, logVars, Idle, NoCred, AInv, AuthTypeOK, SectionInv, MintInv, Critical, Cred, Token, Holding
<1>4. MintInv'
  BY AuthAssumption
  DEF LogoutLocked, LockFree, procVars, lockVars, serverVars, logVars, Idle, NoCred, AInv, AuthTypeOK, MintInv, Cred, Token
<1>5. TokenInv'
  BY AuthAssumption
  DEF LogoutLocked, LockFree, procVars, lockVars, serverVars, logVars, Idle, NoCred, AInv, AuthTypeOK, SectionInv, MintInv, TokenInv, StoredRedeemable, Unsaved, Waiting, Critical, Cred, Token
<1>6. LoginInv'
  BY AuthAssumption
  DEF LogoutLocked, LockFree, procVars, lockVars, serverVars, logVars, Idle, NoCred, AInv, AuthTypeOK, SectionInv, MintInv, LoginInv, Waiting, Critical, Cred, Token
<1> QED
  BY <1>2, <1>3, <1>4, <1>5, <1>6 DEF AInv

LEMMA StepRevoke ==
  ASSUME AInv, NEW t \in Tasks, Revoke(t)
  PROVE  AInv'
<1>2. AuthTypeOK'
  <2>1. revoked' \subseteq Token
    BY CredFacts DEF Revoke, AInv, AuthTypeOK
  <2>2. /\ task' = [task EXCEPT ![t] = [task[t] EXCEPT !.pc = "delete"]]
        /\ [task[t] EXCEPT !.pc = "delete"] \in [pc : {"idle", "touch", "permit"} \cup Holding,
                    op : {"none", "refresh", "login", "logout"},
                    rejected : {0} \cup Token, old : {0} \cup Token, cred : Cred]
        /\ [task[t] EXCEPT !.pc = "delete"].pc = "delete"
    BY DEF Revoke, AInv, AuthTypeOK, Holding
  <2> QED
    BY <2>1, <2>2 DEF Revoke, procVars, lockVars, logVars, AInv, AuthTypeOK
<1>3. SectionInv'
  BY AuthAssumption
  DEF Revoke, procVars, lockVars, serverVars, logVars, Idle, NoCred, AInv, AuthTypeOK, SectionInv, MintInv, Critical, Cred, Token, Holding
<1>4. MintInv'
  BY AuthAssumption
  DEF Revoke, procVars, lockVars, serverVars, logVars, Idle, NoCred, AInv, AuthTypeOK, MintInv, Cred, Token
<1>5. TokenInv'
  BY AuthAssumption
  DEF Revoke, procVars, lockVars, serverVars, logVars, Idle, NoCred, AInv, AuthTypeOK, SectionInv, MintInv, TokenInv, StoredRedeemable, Unsaved, Waiting, Critical, Cred, Token
<1>6. LoginInv'
  BY AuthAssumption
  DEF Revoke, procVars, lockVars, serverVars, logVars, Idle, NoCred, AInv, AuthTypeOK, SectionInv, MintInv, LoginInv, Waiting, Critical, Cred, Token
<1> QED
  BY <1>2, <1>3, <1>4, <1>5, <1>6 DEF AInv

LEMMA StepDeleteStored ==
  ASSUME AInv, NEW t \in Tasks, DeleteStored(t)
  PROVE  AInv'
<1>2. AuthTypeOK'
  <2>1. Idle \in [pc : {"idle", "touch", "permit"} \cup Holding,
                    op : {"none", "refresh", "login", "logout"},
                    rejected : {0} \cup Token, old : {0} \cup Token, cred : Cred]
        /\ Idle.pc = "idle" /\ NoCred \in Cred
    BY DEF Idle, Cred, NoCred
  <2>2. durable' \in Cred /\ current' \in {0} \cup Token /\ loggedOut' \in [Procs -> SUBSET Token]
    BY CredFacts DEF DeleteStored, AInv, AuthTypeOK
  <2>3. /\ permit' \in [Procs -> Tasks \cup {NoTask}] /\ flock' \in Tasks \cup {NoTask}
        /\ cell' \in [Procs -> Cred]
    BY <2>1 DEF DeleteStored, Ends, Released, AInv, AuthTypeOK
  <2> QED
    BY <2>1, <2>2, <2>3 DEF DeleteStored, Ends, serverVars, AInv, AuthTypeOK
<1>3. SectionInv'
  BY AuthAssumption
  DEF DeleteStored, Ends, Released, procVars, lockVars, serverVars, logVars, Idle, NoCred, AInv, AuthTypeOK, SectionInv, MintInv, Critical, Cred, Token, Holding
<1>4. MintInv'
  <2>1. \A u \in Tasks : task'[u] = IF u = t THEN Idle ELSE task[u]
    BY DEF DeleteStored, Ends, AInv, AuthTypeOK
  <2>2. /\ durable' \in {durable, NoCred} /\ UNCHANGED <<minted, spent, forsaken>>
        /\ \A p \in Procs : cell'[p] \in {cell[p], NoCred}
        /\ \A p \in Procs : loggedOut'[p] \subseteq loggedOut[p] \cup {durable.login}
    BY DEF DeleteStored, serverVars, AInv, AuthTypeOK
  <2>3. minted \in Nat /\ NoCred.tok = 0 /\ NoCred.login = 0 /\ Idle.cred = NoCred
    BY CredFacts DEF AInv, AuthTypeOK, Idle
  <2> QED
    BY <2>1, <2>2, <2>3 DEF AInv, MintInv
<1>5. TokenInv'
  <2>1. \A u \in Tasks : task'[u] = IF u = t THEN Idle ELSE task[u]
    BY DEF DeleteStored, Ends, AInv, AuthTypeOK
  <2>2. durable' \in {durable, NoCred} /\ UNCHANGED <<spent, forsaken, reused, stray>>
    BY DEF DeleteStored, serverVars
  <2>3. \A u \in Tasks : /\ task[u].pc # "save"
                         /\ Unsaved(u)' => Unsaved(u) /\ task'[u] = task[u]
                         /\ Unsaved(u) => task[u].cred # NoCred
    BY <2>1 DEF DeleteStored, Unsaved, Waiting, Idle, Critical, AInv, SectionInv, LoginInv
  <2>4. /\ NoCred.tok \notin spent
        /\ \A u \in Tasks : Unsaved(u) => task[u].cred.tok # NoCred.tok
    BY <2>3, CredFacts DEF AInv, AuthTypeOK, Token
  <2>5. StoredRedeemable'
    BY <2>2, <2>3, <2>4 DEF AInv, TokenInv, StoredRedeemable
  <2> QED
    BY <2>2, <2>3, <2>4, <2>5 DEF AInv, TokenInv
<1>6. LoginInv'
  <2>1. \A u \in Tasks : /\ Waiting(u)' => u # t /\ Waiting(u) /\ task'[u] = task[u]
                         /\ task'[u].pc = "touch" => u # t /\ task'[u] = task[u]
    BY DEF DeleteStored, Ends, Waiting, Idle, AInv, AuthTypeOK
  <2>2. /\ \A p \in Procs : cell'[p] = IF p = t[1] THEN NoCred ELSE cell[p]
        /\ UNCHANGED managed /\ (permit[t[1]] = t => managed[t[1]])
    BY DEF DeleteStored, AInv, AuthTypeOK, SectionInv
  <2>3. /\ NoCred.tok = 0 /\ NoCred.login = 0 /\ durable.tok \in Nat
        /\ \A p \in Procs : 0 \notin loggedOut[p]
        /\ durable.login = 0 => durable.tok = 0
        /\ \A p \in Procs : cell[p].login = 0 => cell[p].tok = 0
        /\ \A u \in Tasks : task[u].cred.login = 0 => task[u].cred = NoCred
    BY CredFacts DEF AInv, AuthTypeOK, Token
  <2>4. CASE UNCHANGED <<durable, current, loggedOut>>
    BY <2>1, <2>2, <2>3, <2>4 DEF AInv, LoginInv
  <2>5. CASE /\ durable' = NoCred /\ current' = 0
             /\ loggedOut' = [loggedOut EXCEPT ![t[1]] =
                  IF permit[t[1]] = t THEN @ \cup ({durable.login} \ {0}) ELSE @]
    <3>1. \A p \in Procs : /\ ~managed[p] => loggedOut'[p] = loggedOut[p]
                           /\ loggedOut'[p] \subseteq loggedOut[p] \cup {durable.login}
                           /\ 0 \notin loggedOut'[p]
      BY <2>2, <2>3, <2>5 DEF AInv, AuthTypeOK
    <3> QED
      BY <2>1, <2>2, <2>3, <2>5, <3>1 DEF AInv, LoginInv
  <2> QED
    BY <2>4, <2>5 DEF DeleteStored
<1> QED
  BY <1>2, <1>3, <1>4, <1>5, <1>6 DEF AInv

LEMMA StepLogoutUnmanaged ==
  ASSUME AInv, NEW t \in Tasks, LogoutUnmanaged(t)
  PROVE  AInv'
<1>2. AuthTypeOK'
  BY AuthAssumption
  DEF LogoutUnmanaged, procVars, lockVars, serverVars, logVars, Idle, NoCred, AInv, AuthTypeOK, SectionInv, Cred, Token, Holding
<1>3. SectionInv'
  BY AuthAssumption
  DEF LogoutUnmanaged, procVars, lockVars, serverVars, logVars, Idle, NoCred, AInv, AuthTypeOK, SectionInv, MintInv, Critical, Cred, Token, Holding
<1>4. MintInv'
  BY AuthAssumption
  DEF LogoutUnmanaged, procVars, lockVars, serverVars, logVars, Idle, NoCred, AInv, AuthTypeOK, MintInv, Cred, Token
<1>5. TokenInv'
  BY AuthAssumption
  DEF LogoutUnmanaged, procVars, lockVars, serverVars, logVars, Idle, NoCred, AInv, AuthTypeOK, SectionInv, MintInv, TokenInv, StoredRedeemable, Unsaved, Waiting, Critical, Cred, Token
<1>6. LoginInv'
  BY AuthAssumption
  DEF LogoutUnmanaged, procVars, lockVars, serverVars, logVars, Idle, NoCred, AInv, AuthTypeOK, SectionInv, MintInv, LoginInv, Waiting, Critical, Cred, Token
<1> QED
  BY <1>2, <1>3, <1>4, <1>5, <1>6 DEF AInv

LEMMA StepDeleteFails ==
  ASSUME AInv, NEW t \in Tasks, DeleteFails(t)
  PROVE  AInv'
<1>2. AuthTypeOK'
  BY AuthAssumption
  DEF DeleteFails, Ends, Released, procVars, lockVars, serverVars, logVars, Idle, NoCred, AInv, AuthTypeOK, SectionInv, Cred, Token, Holding
<1>3. SectionInv'
  BY AuthAssumption
  DEF DeleteFails, Ends, Released, procVars, lockVars, serverVars, logVars, Idle, NoCred, AInv, AuthTypeOK, SectionInv, MintInv, Critical, Cred, Token, Holding
<1>4. MintInv'
  BY AuthAssumption
  DEF DeleteFails, Ends, Released, procVars, lockVars, serverVars, logVars, Idle, NoCred, AInv, AuthTypeOK, MintInv, Cred, Token
<1>5. TokenInv'
  BY AuthAssumption
  DEF DeleteFails, Ends, Released, procVars, lockVars, serverVars, logVars, Idle, NoCred, AInv, AuthTypeOK, SectionInv, MintInv, TokenInv, StoredRedeemable, Unsaved, Waiting, Critical, Cred, Token
<1>6. LoginInv'
  BY AuthAssumption
  DEF DeleteFails, Ends, Released, procVars, lockVars, serverVars, logVars, Idle, NoCred, AInv, AuthTypeOK, SectionInv, MintInv, LoginInv, Waiting, Critical, Cred, Token
<1> QED
  BY <1>2, <1>3, <1>4, <1>5, <1>6 DEF AInv

LEMMA StepStrayArrives ==
  ASSUME AInv, NEW c \in stray, StrayArrives(c)
  PROVE  AInv'
<1>2. AuthTypeOK'
  <2>1. c \in Cred /\ c.tok \in forsaken /\ forsaken \subseteq Token
    BY DEF AInv, AuthTypeOK, TokenInv
  <2>2. spent' \subseteq Token /\ reused' \subseteq Token /\ stray' \subseteq Cred
    BY <2>1 DEF StrayArrives, AInv, AuthTypeOK
  <2> QED
    BY <2>2 DEF StrayArrives, procVars, lockVars, logVars, AInv, AuthTypeOK
<1>3. SectionInv'
  BY AuthAssumption
  DEF StrayArrives, Redeemable, procVars, lockVars, serverVars, logVars, Idle, NoCred, AInv, AuthTypeOK, SectionInv, MintInv, Critical, Cred, Token, Holding
<1>4. MintInv'
  <2>1. c.tok \in forsaken /\ spent' \subseteq spent \cup {c.tok}
    BY DEF StrayArrives, AInv, TokenInv
  <2> QED
    BY <2>1 DEF StrayArrives, procVars, logVars, AInv, MintInv
<1>5. TokenInv'
  BY AuthAssumption
  DEF StrayArrives, Redeemable, procVars, lockVars, serverVars, logVars, Idle, NoCred, AInv, AuthTypeOK, SectionInv, MintInv, TokenInv, StoredRedeemable, Unsaved, Waiting, Critical, Cred, Token
<1>6. LoginInv'
  BY AuthAssumption
  DEF StrayArrives, Redeemable, procVars, lockVars, serverVars, logVars, Idle, NoCred, AInv, AuthTypeOK, SectionInv, MintInv, LoginInv, Waiting, Critical, Cred, Token
<1> QED
  BY <1>2, <1>3, <1>4, <1>5, <1>6 DEF AInv

LEMMA StepCrash ==
  ASSUME AInv, NEW p \in Procs, Crash(p)
  PROVE  AInv'
<1>1. /\ forsaken \subseteq forsaken' /\ forsaken' \subseteq forsaken \cup {durable.tok}
      /\ stray \subseteq stray'
      /\ \A c \in stray' : c \in stray \/ (c = durable /\ durable.tok \in forsaken')
      /\ \A u \in {t \in Tasks : t[1] = p} : task[u].pc = "save" => durable.tok \in forsaken'
      /\ forsaken' \subseteq Token /\ stray' \subseteq Cred
  <2>1. Abandoned({t \in Tasks : t[1] = p}) /\ {t \in Tasks : t[1] = p} \in SUBSET Tasks
    BY DEF Crash
  <2> QED
    BY <2>1, AbandonedIs
<1>2. AuthTypeOK'
  BY <1>1, AuthAssumption
  DEF Crash, procVars, lockVars, serverVars, logVars, Idle, NoCred, AInv, AuthTypeOK, SectionInv, Cred, Token, Holding
<1>3. SectionInv'
  BY <1>1, AuthAssumption
  DEF Crash, procVars, lockVars, serverVars, logVars, Idle, NoCred, AInv, AuthTypeOK, SectionInv, MintInv, Critical, Cred, Token, Holding
<1>4. MintInv'
  BY <1>1, AuthAssumption
  DEF Crash, procVars, lockVars, serverVars, logVars, Idle, NoCred, AInv, AuthTypeOK, MintInv, Cred, Token
<1>5. TokenInv'
  <2>1. UNCHANGED <<durable, spent, reused>> /\ Abandoned({t \in Tasks : t[1] = p}) /\ {t \in Tasks : t[1] = p} \in SUBSET Tasks
    BY AuthAssumption DEF Crash
  <2>2. \A u \in Tasks : Unsaved(u)' => Unsaved(u) /\ task'[u].cred = task[u].cred
    BY AuthAssumption DEF Crash, Unsaved, Waiting, Idle, AInv, AuthTypeOK
  <2>3. \A u \in Tasks \ {t \in Tasks : t[1] = p} : task[u].pc = "save" => task'[u] = task[u]
    BY AuthAssumption DEF Crash, AInv, AuthTypeOK
  <2> QED
    BY <2>1, <2>2, <2>3, GiveUpKeeps
<1>6. LoginInv'
  BY <1>1, AuthAssumption
  DEF Crash, procVars, lockVars, serverVars, logVars, Idle, NoCred, AInv, AuthTypeOK, SectionInv, MintInv, LoginInv, Waiting, Critical, Cred, Token
<1> QED
  BY <1>2, <1>3, <1>4, <1>5, <1>6 DEF AInv

-----------------------------------------------------------------------------
LEMMA StepAInv ==
  ASSUME AInv, NEW t \in Tasks, Step(t)
  PROVE  AInv'
BY StepTakePermit, StepAttemptFails, StepFirstTouch, StepInsert, StepRefresherWakes,
   StepRefreshNow, StepRefreshLocked, StepExchange, StepExchangeRefused, StepExchangeFails,
   StepSaveRefreshed, StepBeginLogin, StepSaveLogin, StepBeginLogout, StepLogoutUnmanaged,
   StepLogoutLocked, StepRevoke, StepDeleteStored, StepDeleteFails
DEF Step

LEMMA NextAInv == AInv /\ [AuthNext]_authVars => AInv'
<1> SUFFICES ASSUME AInv, [AuthNext]_authVars PROVE AInv'
  OBVIOUS
<1>1. CASE UNCHANGED authVars
  BY <1>1
  DEF authVars, procVars, lockVars, serverVars, logVars, AInv, AuthTypeOK, SectionInv, MintInv,
      TokenInv, StoredRedeemable, LoginInv, Unsaved, Waiting
<1>2. CASE AuthNext
  BY <1>2, StepAInv, StepStrayArrives, StepCrash DEF AuthNext
<1> QED
  BY <1>1, <1>2

\* Every reachable state satisfies the inductive invariant.
THEOREM AuthInvariant == AuthSpec => []AInv
BY InitAInv, NextAInv, PTL DEF AuthSpec

\* The types of the credential store, the cells, the locks and the tasks; a task
\* that talks to the token endpoint has a credential (refresh_at).
THEOREM AuthTypeCorrect == AuthSpec => []AuthTypeOK
<1>1. AInv => AuthTypeOK
  BY DEF AInv
<1> QED
  BY <1>1, AuthInvariant, PTL

\* However many tasks and processes find the token expired, refresh_once spends
\* a rotating refresh token once unless its exchange was given up.
THEOREM RefreshTokenSpentOnce == AuthSpec => []SpentOnce
<1>1. AInv => SpentOnce
  BY DEF AInv, TokenInv, SpentOnce
<1> QED
  BY <1>1, AuthInvariant, PTL

\* The stored refresh token is good unless its successor is about to be saved
\* (persist_refreshed) or the exchange was given up.
THEOREM StoredTokenRedeemable == AuthSpec => []StoredRedeemable
<1>1. AInv => StoredRedeemable
  BY DEF AInv, TokenInv
<1> QED
  BY <1>1, AuthInvariant, PTL

\* A refresh in flight neither replaces a newer login nor undoes a logout.
THEOREM LogoutNotUndone == AuthSpec => []NoResurrection
<1>1. AInv => NoResurrection
  BY DEF AInv, LoginInv, NoResurrection
<1> QED
  BY <1>1, AuthInvariant, PTL

\* What a process logged out never returns to its cell, whatever cell_for,
\* a refresh or another process does.
THEOREM LogoutIsFinal == AuthSpec => []LogoutFinal
<1>1. AInv => LogoutFinal
  BY DEF AInv, LoginInv, LogoutFinal
<1> QED
  BY <1>1, AuthInvariant, PTL

\* A step leaves a cell alone, empties it, or moves it to tokens of another
\* login or to newer tokens of the same one.
LEMMA StepCell ==
  ASSUME AInv, NEW t \in Tasks, Step(t), NEW p \in Procs, cell[p].login = cell'[p].login
  PROVE  cell[p].tok <= cell'[p].tok
<1>1. /\ cell \in [Procs -> Cred] /\ cell[p].tok \in Nat /\ durable.tok \in Nat
      /\ cell[p].login = 0 => cell[p] = NoCred
      /\ NoCred.tok = 0 /\ NoCred.login = 0
  BY CredFacts DEF AInv, AuthTypeOK
<1>2. CASE UNCHANGED cell
  BY <1>1, <1>2
<1>3. CASE Insert(t)
  <2>1. ~managed[p] => cell[p] = NoCred
    BY DEF AInv, LoginInv
  <2>2. task[t].cred.tok \in Nat
    BY CredFacts DEF AInv, AuthTypeOK
  <2>3. cell'[p] = IF p = t[1] /\ ~managed[p] THEN task[t].cred ELSE cell[p]
    BY <1>1, <1>3 DEF Insert, CellAfterTouch
  <2> QED
    BY <1>1, <2>1, <2>2, <2>3
<1>4. CASE RefreshLocked(t)
  <2>1. cell'[p] = IF p = t[1] THEN durable ELSE cell[p]
    BY <1>1, <1>4 DEF RefreshLocked, Known
  <2> QED
    BY <1>1, <2>1 DEF AInv, LoginInv
<1>5. CASE SaveRefreshed(t)
  <2>1. cell'[p] = IF p = t[1] THEN task[t].cred ELSE cell[p]
    BY <1>1, <1>5 DEF SaveRefreshed
  <2>2. /\ task[t].cred.login = durable.login /\ durable.tok < task[t].cred.tok
        /\ task[t].cred.tok \in Nat
    BY <1>5, CredFacts DEF SaveRefreshed, AInv, SectionInv, AuthTypeOK
  <2> QED
    BY <1>1, <2>1, <2>2 DEF AInv, LoginInv
<1>6. CASE SaveLogin(t)
  <2>1. cell'[p] = IF p = t[1] THEN task[t].cred ELSE cell[p]
    BY <1>1, <1>6 DEF SaveLogin
  <2>2. Waiting(t)
    BY <1>6 DEF SaveLogin, Waiting
  <2> QED
    BY <1>1, <2>1, <2>2 DEF AInv, LoginInv
<1>7. CASE DeleteStored(t)
  BY <1>1, <1>7 DEF DeleteStored
<1> QED
  BY <1>2, <1>3, <1>4, <1>5, <1>6, <1>7
  DEF Step, TakePermit, AttemptFails, FirstTouch, RefresherWakes, RefreshNow, Exchange,
      ExchangeRefused, ExchangeFails, BeginLogin, BeginLogout, LogoutUnmanaged,
      LogoutLocked, Revoke, DeleteFails, procVars

\* A cell never goes back to older tokens of the same login: not by the race of
\* two first touches, nor by a refresh that adopts what another process stored.
THEOREM CellMovesForward == AuthSpec => CellForward
<1> DEFINE A == \A p \in Procs : cell[p].login = cell'[p].login => cell[p].tok <= cell'[p].tok
<1>1. AInv /\ [AuthNext]_authVars => [A]_authVars
  <2> SUFFICES ASSUME AInv, AuthNext PROVE A
    OBVIOUS
  <2>1. CASE \E t \in Tasks : Step(t)
    BY <2>1, StepCell
  <2>2. CASE \E c \in stray : StrayArrives(c)
    BY <2>2, CredFacts DEF StrayArrives, procVars, AInv, AuthTypeOK
  <2>3. CASE \E q \in Procs : Crash(q)
    BY <2>3, CredFacts DEF Crash, AInv, AuthTypeOK
  <2> QED
    BY <2>1, <2>2, <2>3 DEF AuthNext
<1> QED
  BY <1>1, AuthInvariant, PTL DEF AuthSpec, CellForward

=============================================================================
