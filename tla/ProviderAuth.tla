---------------------------- MODULE ProviderAuth ----------------------------
(***************************************************************************)
(* The stored OAuth credential of one provider instance, shared by several *)
(* processes: background refreshers, reactive refreshes after a 401, login *)
(* and logout, all of which must spend the rotating, single-use refresh    *)
(* token once and must not bring a logged-out credential back.             *)
(*                                                                         *)
(* Source: services/provider-auth/src/lib.rs (AuthService), refresh.rs,    *)
(* process_lock.rs and token_cell.rs.                                      *)
(*                                                                         *)
(* A credential is the generation of its tokens (the access and the        *)
(* refresh token of one response) and the login it descends from, named by *)
(* its first generation.  The code runs from one await to the next as one  *)
(* step: a permit, the file lock and an answer of the token endpoint are   *)
(* what it awaits.  The token endpoint is modelled as a rotating flow: it  *)
(* exchanges a refresh token once.  Whether a token is near its expiry is  *)
(* left open: an attempt that looks may find either.                       *)
(***************************************************************************)
EXTENDS Naturals, FiniteSets

CONSTANTS
  Procs,      \* processes
  Callers,    \* tasks of a process that use the credential
  User,       \* the task of a process that logs in and out
  Refresher,  \* the background refresher of a process
  Tasks,      \* the tasks: pairs of a process and one of these
  NoTask,     \* nobody holds the permit or the lock
  MaxTokens,  \* generations the token endpoint hands out (bound)
  MaxFaults   \* crashes and failed exchanges (bound)

ASSUME AuthAssumption ==
  /\ User \notin Callers /\ Refresher \notin Callers /\ User # Refresher
  /\ Tasks \subseteq Procs \X (Callers \cup {User, Refresher})
  /\ \A t \in Tasks : t[2] = User => <<t[1], Refresher>> \in Tasks
  /\ NoTask \notin Tasks
  /\ MaxTokens \in Nat /\ MaxFaults \in Nat

NoCred == [tok |-> 0, login |-> 0]
Idle   == [pc |-> "idle", op |-> "none", rejected |-> 0, old |-> 0, cred |-> NoCred]

VARIABLES
  durable,    \* the credential of the backend, NoCred for none
  cell,       \* TokenCell of each process
  managed,    \* does the process have an entry for the provider?
  running,    \* is the background refresher alive?
  permit,     \* holder of each process's refresh semaphore
  flock,      \* holder of the refresh lock file
  task,       \* where each task is: pc, what it does, the rejected access token,
              \* the refresh token it exchanged, its credential
  minted,     \* generations handed out by the token endpoint
  spent,      \* refresh tokens the token endpoint has exchanged
  revoked,    \* logins revoked at the token endpoint
  stray,      \* credentials in requests whose sender is gone
  faults,     \* crashes and failed exchanges so far
  reused,     \* spent refresh tokens presented again although their exchange was
              \* not given up (history)
  forsaken,   \* refresh tokens whose exchange was given up (history)
  current,    \* login of the last save by a login, 0 after a logout (history)
  loggedOut   \* logins each process logged out with its own entry locked (history)

procVars   == <<cell, managed, running>>
lockVars   == <<permit, flock>>
serverVars == <<minted, spent, revoked, stray, reused>>
logVars    == <<forsaken, current, loggedOut>>
authVars   == <<durable, procVars, lockVars, task, serverVars, logVars, faults>>

AuthInit ==
  /\ durable = NoCred
  /\ cell = [p \in Procs |-> NoCred]
  /\ managed = [p \in Procs |-> FALSE] /\ running = [p \in Procs |-> FALSE]
  /\ permit = [p \in Procs |-> NoTask] /\ flock = NoTask
  /\ task = [t \in Tasks |-> Idle]
  /\ minted = 0 /\ spent = {} /\ revoked = {} /\ stray = {} /\ reused = {}
  /\ faults = 0
  /\ forsaken = {} /\ current = 0 /\ loggedOut = [p \in Procs |-> {}]

-----------------------------------------------------------------------------
(* Tasks, the permit and the lock. *)

\* Drop of the file and of the permit at the end of a task's attempt.
Released(t) ==
  /\ permit' = [permit EXCEPT ![t[1]] = IF @ = t THEN NoTask ELSE @]
  /\ flock' = IF flock = t THEN NoTask ELSE flock

\* A task leaves with the locks it has.
Ends(t) ==
  /\ task' = [task EXCEPT ![t] = Idle]
  /\ Released(t)

\* The refresher leaves its loop when the attempt left the cell empty.
LoopsOn(t, c) == running' = [running EXCEPT ![t[1]] = @ /\ (t[2] = Refresher => c # NoCred)]

Asks(t, op, rejected, cred) ==
  task' = [task EXCEPT ![t] = [pc |-> "permit", op |-> op, rejected |-> rejected,
                               old |-> 0, cred |-> cred]]

\* lock.acquire
TakePermit(t) ==
  /\ task[t].pc = "permit"
  /\ permit[t[1]] = NoTask
  /\ permit' = [permit EXCEPT ![t[1]] = t]
  /\ task' = [task EXCEPT ![t].pc = "lock"]
  /\ UNCHANGED <<durable, procVars, flock, serverVars, logVars, faults>>

\* Fault: a provider without a lock directory.
LockFree_Always == TRUE

\* process_lock::acquire
LockFree == flock = NoTask

\* process_lock::acquire or backend.load fails.
AttemptFails(t) ==
  /\ task[t].pc = "lock"
  /\ Ends(t)
  /\ UNCHANGED <<durable, procVars, serverVars, logVars, faults>>

-----------------------------------------------------------------------------
(* cell_for: the stored credential is read outside the map's lock; one that   *)
(* cannot be read counts as none.                                            *)

FirstTouch(t) ==
  /\ t[2] # Refresher
  /\ task[t].pc = "idle"
  /\ ~managed[t[1]]
  /\ \E c \in {durable, NoCred} :
       task' = [task EXCEPT ![t] = [Idle EXCEPT !.pc = "touch", !.cred = c]]
  /\ UNCHANGED <<durable, procVars, lockVars, serverVars, logVars, faults>>

\* Fault: the loser of the race replaces the winner's cell.
CellAfterTouch_Overwrites(t) == task[t].cred

CellAfterTouch(t) == IF managed[t[1]] THEN cell[t[1]] ELSE task[t].cred

Insert(t) ==
  LET c == CellAfterTouch(t) IN
  /\ task[t].pc = "touch"
  /\ managed' = [managed EXCEPT ![t[1]] = TRUE]
  /\ cell' = [cell EXCEPT ![t[1]] = c]
  /\ running' = [running EXCEPT ![t[1]] = @ \/ c # NoCred]
  /\ task' = [task EXCEPT ![t] = Idle]
  /\ UNCHANGED <<durable, lockVars, serverVars, logVars, faults>>

-----------------------------------------------------------------------------
(* refresh_once *)

\* run_refresher: the sleep ends, whatever happened to the cell meanwhile.
RefresherWakes(t) ==
  /\ t[2] = Refresher
  /\ running[t[1]]
  /\ task[t].pc = "idle"
  /\ Asks(t, "refresh", 0, NoCred)
  /\ UNCHANGED <<durable, procVars, lockVars, serverVars, logVars, faults>>

\* refresh_now: bound to the token in the cell at the call.
RefreshNow(t) ==
  /\ t[2] \in Callers
  /\ task[t].pc = "idle"
  /\ managed[t[1]] /\ cell[t[1]] # NoCred
  /\ Asks(t, "refresh", cell[t[1]].tok, NoCred)
  /\ UNCHANGED <<durable, procVars, lockVars, serverVars, logVars, faults>>

\* Fault: the process trusts its own cell.
Known_Cell(t) == cell[t[1]]

\* The credential that an attempt works with after it has both locks.
Known(t) == durable

\* An attempt stops if there is no credential, a reactive one if its rejected
\* token was replaced, the refresher's if the token is not near its expiry.
MayStop(t, c) == c = NoCred \/ task[t].rejected # c.tok

\* Fault: the missing credential is not noticed.
MayRefresh_Unchecked(t, c) == task[t].rejected \in {0, c.tok}

MayRefresh(t, c) == c # NoCred /\ task[t].rejected \in {0, c.tok}

\* Both locks are held: the stored credential is adopted.
RefreshLocked(t) ==
  LET c == Known(t) IN
  /\ task[t].pc = "lock" /\ task[t].op = "refresh"
  /\ LockFree
  /\ cell' = [cell EXCEPT ![t[1]] = c]
  /\ \/ /\ MayStop(t, c)
        /\ Ends(t)
        /\ LoopsOn(t, c)
     \/ /\ MayRefresh(t, c)
        /\ flock' = t
        /\ task' = [task EXCEPT ![t].pc = "post", ![t].cred = c]
        /\ UNCHANGED <<permit, running>>
  /\ UNCHANGED <<durable, managed, serverVars, logVars, faults>>

Redeemable(c) == c.tok \notin spent /\ c.login \notin revoked

\* The token endpoint rotates the token and answers.
Exchange(t) ==
  LET c == task[t].cred IN
  /\ task[t].pc = "post"
  /\ Redeemable(c)
  /\ minted < MaxTokens
  /\ minted' = minted + 1
  /\ spent' = spent \cup {c.tok}
  /\ task' = [task EXCEPT ![t].pc = "save", ![t].old = c.tok,
                          ![t].cred = [c EXCEPT !.tok = minted + 1]]
  /\ UNCHANGED <<durable, procVars, lockVars, revoked, stray, reused, logVars, faults>>

\* The token endpoint refuses the token: SessionExpired.
ExchangeRefused(t) ==
  LET c == task[t].cred IN
  /\ task[t].pc = "post"
  /\ ~Redeemable(c)
  /\ reused' = reused \cup (({c.tok} \cap spent) \ forsaken)
  /\ Ends(t)
  /\ running' = [running EXCEPT ![t[1]] = @ /\ t[2] # Refresher]
  /\ UNCHANGED <<durable, cell, managed, minted, spent, revoked, stray, logVars, faults>>

\* A request without an answer: it may still be on its way, or it was served.
Abandoned(ts) ==
  /\ forsaken' = forsaken \cup {task[t].cred.tok : t \in {u \in ts : task[u].pc = "post"}}
                          \cup {task[t].old : t \in {u \in ts : task[u].pc = "save"}}
  /\ \E S \in SUBSET {task[t].cred : t \in {u \in ts : task[u].pc = "post"}} :
       stray' = stray \cup S

\* The exchange fails on the network, its answer is lost, or the save fails.
ExchangeFails(t) ==
  /\ task[t].pc \in {"post", "save"}
  /\ Abandoned({t})
  /\ Ends(t)
  /\ UNCHANGED <<durable, procVars, minted, spent, revoked, reused, current, loggedOut>>
  /\ faults < MaxFaults
  /\ faults' = faults + 1

\* Fault: the rotated token only reaches the cell.
Persisted_Not(c) == UNCHANGED durable

\* persist_refreshed
Persisted(c) == durable' = c

\* The rotated tokens are saved, then published in the cell.
SaveRefreshed(t) ==
  /\ task[t].pc = "save"
  /\ Persisted(task[t].cred)
  /\ cell' = [cell EXCEPT ![t[1]] = task[t].cred]
  /\ Ends(t)
  /\ UNCHANGED <<managed, running, serverVars, logVars, faults>>

-----------------------------------------------------------------------------
(* login and import; logout *)

\* The interactive flow, or the import, has a new credential.
BeginLogin(t) ==
  LET n == minted + 1 IN
  /\ t[2] = User
  /\ task[t].pc = "idle"
  /\ managed[t[1]]
  /\ n <= MaxTokens
  /\ minted' = n
  /\ Asks(t, "login", 0, [tok |-> n, login |-> n])
  /\ UNCHANGED <<durable, procVars, lockVars, spent, revoked, stray, reused, logVars, faults>>

\* Both locks are held: save, publish, spawn_refresher.
SaveLogin(t) ==
  LET c == task[t].cred IN
  /\ task[t].pc = "lock" /\ task[t].op = "login"
  /\ LockFree
  /\ durable' = c
  /\ cell' = [cell EXCEPT ![t[1]] = c]
  /\ running' = [running EXCEPT ![t[1]] = TRUE]
  /\ current' = c.login
  /\ Ends(t)
  /\ UNCHANGED <<managed, serverVars, forsaken, loggedOut, faults>>

\* The refresher is aborted, wherever it is.
BeginLogout(t) ==
  LET r == <<t[1], Refresher>> IN
  /\ t[2] = User
  /\ task[t].pc = "idle"
  /\ managed[t[1]]
  /\ running' = [running EXCEPT ![t[1]] = FALSE]
  /\ Abandoned({r})
  /\ task' = [task EXCEPT ![r] = Idle,
                          ![t] = [Idle EXCEPT !.pc = "permit", !.op = "logout"]]
  /\ Released(r)
  /\ UNCHANGED <<durable, cell, managed, minted, spent, revoked, reused, current, loggedOut, faults>>

\* A process without an entry that finds nothing stored has no permit to take.
LogoutUnmanaged(t) ==
  /\ t[2] = User
  /\ task[t].pc = "idle"
  /\ ~managed[t[1]] /\ durable = NoCred
  /\ task' = [task EXCEPT ![t] = [Idle EXCEPT !.pc = "lock", !.op = "logout"]]
  /\ UNCHANGED <<durable, procVars, lockVars, serverVars, logVars, faults>>

LogoutLocked(t) ==
  /\ task[t].pc = "lock" /\ task[t].op = "logout"
  /\ LockFree
  /\ flock' = t
  /\ task' = [task EXCEPT ![t].pc = "revoke", ![t].cred = durable]
  /\ UNCHANGED <<durable, procVars, permit, serverVars, logVars, faults>>

\* refresh::revoke is best effort.
Revoke(t) ==
  /\ task[t].pc = "revoke"
  /\ revoked' \in {revoked, revoked \cup ({task[t].cred.login} \ {0})}
  /\ task' = [task EXCEPT ![t].pc = "delete"]
  /\ UNCHANGED <<durable, procVars, lockVars, minted, spent, stray, reused, logVars, faults>>

\* backend.delete and cell.clear.  AutoBackend does not report that a delete
\* failed.
DeleteStored(t) ==
  /\ task[t].pc = "delete"
  /\ cell' = [cell EXCEPT ![t[1]] = NoCred]
  /\ Ends(t)
  /\ \/ /\ durable' = NoCred
        /\ current' = 0
        /\ loggedOut' = [loggedOut EXCEPT ![t[1]] =
                           IF permit[t[1]] = t THEN @ \cup ({durable.login} \ {0}) ELSE @]
     \/ UNCHANGED <<durable, current, loggedOut>>
  /\ UNCHANGED <<managed, running, serverVars, forsaken, faults>>

\* The other backends do: the credential stays stored and in the cell.
DeleteFails(t) ==
  /\ task[t].pc = "delete"
  /\ Ends(t)
  /\ UNCHANGED <<durable, procVars, serverVars, logVars, faults>>

-----------------------------------------------------------------------------
(* The environment. *)

\* A request whose sender is gone reaches the token endpoint.
StrayArrives(c) ==
  /\ c \in stray
  /\ stray' = stray \ {c}
  /\ reused' = reused \cup (({c.tok} \cap spent) \ forsaken)
  /\ spent' = IF Redeemable(c) THEN spent \cup {c.tok} ELSE spent
  /\ UNCHANGED <<durable, procVars, lockVars, task, minted, revoked, logVars, faults>>

\* The process dies; the operating system gives its file lock back.
Crash(p) ==
  LET ts == {t \in Tasks : t[1] = p} IN
  /\ cell' = [cell EXCEPT ![p] = NoCred]
  /\ managed' = [managed EXCEPT ![p] = FALSE]
  /\ running' = [running EXCEPT ![p] = FALSE]
  /\ permit' = [permit EXCEPT ![p] = NoTask]
  /\ flock' = IF flock \in ts THEN NoTask ELSE flock
  /\ task' = [t \in Tasks |-> IF t \in ts THEN Idle ELSE task[t]]
  /\ Abandoned(ts)
  /\ loggedOut' = [loggedOut EXCEPT ![p] = {}]
  /\ UNCHANGED <<durable, minted, spent, revoked, reused, current>>
  /\ faults < MaxFaults
  /\ faults' = faults + 1

Step(t) ==
  \/ FirstTouch(t) \/ Insert(t) \/ TakePermit(t) \/ AttemptFails(t)
  \/ RefresherWakes(t) \/ RefreshNow(t) \/ RefreshLocked(t)
  \/ Exchange(t) \/ ExchangeRefused(t) \/ ExchangeFails(t) \/ SaveRefreshed(t)
  \/ BeginLogin(t) \/ SaveLogin(t)
  \/ BeginLogout(t) \/ LogoutUnmanaged(t) \/ LogoutLocked(t) \/ Revoke(t)
  \/ DeleteStored(t) \/ DeleteFails(t)

AuthNext ==
  \/ \E t \in Tasks : Step(t)
  \/ \E c \in stray : StrayArrives(c)
  \/ \E p \in Procs : Crash(p)

AuthSpec == AuthInit /\ [][AuthNext]_authVars

-----------------------------------------------------------------------------
(* Properties. *)

Token == 1..MaxTokens
Cred  == {NoCred} \cup [tok : Token, login : Token]
Holding == {"lock", "post", "save", "revoke", "delete"}

\* Type invariant: a task that talks to the token endpoint has a credential.
AuthTypeOK ==
  /\ durable \in Cred /\ cell \in [Procs -> Cred]
  /\ managed \in [Procs -> BOOLEAN] /\ running \in [Procs -> BOOLEAN]
  /\ permit \in [Procs -> Tasks \cup {NoTask}] /\ flock \in Tasks \cup {NoTask}
  /\ task \in [Tasks -> [pc : {"idle", "touch", "permit"} \cup Holding,
                         op : {"none", "refresh", "login", "logout"},
                         rejected : {0} \cup Token, old : {0} \cup Token, cred : Cred]]
  /\ \A t \in Tasks : task[t].pc \in {"post", "save"} => task[t].cred # NoCred
  /\ minted \in 0..MaxTokens /\ faults \in 0..MaxFaults
  /\ spent \subseteq Token /\ revoked \subseteq Token /\ stray \subseteq Cred
  /\ reused \subseteq Token /\ forsaken \subseteq Token
  /\ current \in {0} \cup Token /\ loggedOut \in [Procs -> SUBSET Token]

\* A rotating refresh token is presented again after it was spent only if its
\* first exchange was given up: by a crash, an abort, a network failure or a
\* failed save.  Expiry seen by many tasks and processes spends it once.
SpentOnce == reused = {}

\* The stored refresh token is not a spent one, unless a task is about to save its
\* successor, or that exchange was given up.  A token that a logout revoked and
\* failed to delete is not spent: this says nothing of it.
StoredRedeemable ==
  durable.tok \in spent =>
    durable.tok \in forsaken \/ \E t \in Tasks : task[t].pc = "save" /\ task[t].old = durable.tok

\* The stored credential descends from the last login and is gone after a
\* logout: a refresh in flight neither replaces a login nor undoes a logout.
NoResurrection == durable.login = current

\* What a process that manages the provider logged out never returns to its cell:
\* not by a first touch that read it earlier, nor by a refresh.
LogoutFinal ==
  \A p \in Procs : cell[p] # NoCred => cell[p].login \notin loggedOut[p]

\* A cell never goes back to older tokens of the same login.
CellForward ==
  [][\A p \in Procs : cell[p].login = cell'[p].login => cell[p].tok <= cell'[p].tok]_authVars

=============================================================================
