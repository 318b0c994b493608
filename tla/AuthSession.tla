---------------------------- MODULE AuthSession ----------------------------
(***************************************************************************)
(* DreamAuth2/Auth.cpp with its worker threads ThreadLogin, ThreadLogout   *)
(* and ThreadAlive: logging in, keeping the session alive, logging out,    *)
(* and noticing that the server is gone.  ThreadAlive objects are created  *)
(* per session and deleted at its end, by the alive thread itself or by    *)
(* the logout thread.                                                      *)
(*                                                                         *)
(* "ui" is the thread that calls Login and Logout, "main" is WinMain's.    *)
(***************************************************************************)
EXTENDS WorkerThread

CONSTANTS
  AliveObject,  (* ThreadAlive objects; bounds the sessions of a behaviour *)
  MaxFailed,    (* ThreadAlive::MAX_FAILED_ALIVE                           *)
  MaxLogins,    (* bound: calls of Login in a behaviour                    *)
  Calm          (* user and network do not act within the microseconds in  *)
                (* which a thread executes Logout or a completion          *)

ASSUME AuthAssumption ==
  /\ AliveObject \subseteq Worker
  /\ {"LoginThread", "LogoutThread"} \subseteq Worker
  /\ {"LoginThread", "LogoutThread", "NULL"} \cap AliveObject = {}
  /\ {"ui", "main"} \subseteq Caller
  /\ MaxFailed \in Nat \ {0}
  /\ MaxLogins \in Nat
  /\ Calm \in BOOLEAN

VARIABLES
  LoggedIn,
  AliveThread,  (* a ThreadAlive object or NULL                            *)
  SessionData,  (* the session's id: the number of its login, or 0         *)
  loginResult,  (* LoginThread->result() > 0                               *)
  failed,       (* failed_count_, per ThreadAlive object                   *)
  read,         (* the id a thread has read for the request it makes       *)
  created,      (* ThreadAlive objects that have been created              *)
  deleted,      (* objects that have been deleted                          *)
  screen,       (* the client's dialogs: what the user can ask for         *)
  logins, begun, ended  (* history: Logins, and what Auth has reported     *)

authVars == <<LoggedIn, AliveThread, SessionData, loginResult, failed, read, created, deleted>>
clientVars == <<screen, logins, begun, ended>>
vars == <<workerVars, authVars, clientVars>>

AuthHandler == {"onLoginThreadComplete", "onLogoutThreadComplete", "onAliveThreadComplete"}
AuthOp == AuthHandler \cup
  {"RunLogin", "CreateLogin", "RunAlive", "CreateAlive", "onLoginComplete",
   "RemoveAlive", "SignalAlive", "RunLogout", "CreateLogout",
   "WaitAlive", "JoinAlive", "DeleteAlive", "onLogoutComplete", "onDisconnect",
   "WaitLogin", "JoinLogin", "WaitLogout", "JoinLogout", "DeleteThreads"}
AuthWorkers == {"LoginThread", "LogoutThread"} \cup AliveObject

(* "login": the login dialog is ready; "busy": it is logging in; "main";   *)
(* "leaving": the main dialog, locked by a logout; "stopping": the session *)
(* has ended and the game module is stopped; "closed".                     *)
Screen == {"login", "busy", "main", "leaving", "stopping", "closed"}

(* What the instance of WorkerThread has to offer this module.             *)
ASSUME AuthOpsAssumption == AuthHandler \subseteq Handler /\ AuthOp \subseteq Op

(* ThreadInit with the handlers Auth::Init adds.                           *)
Init ==
  /\ handle  = [w \in Worker |-> FALSE]
  /\ running = [w \in Worker |-> FALSE]
  /\ term    = [w \in Worker |-> FALSE]
  /\ job     = [p \in OSThread |-> NoJob]
  /\ at      = [p \in OSThread |-> "free"]
  /\ list    = [d \in Delegate |-> CASE d = "LoginThread"  -> <<"onLoginThreadComplete">>
                                     [] d = "LogoutThread" -> <<"onLogoutThreadComplete">>
                                     [] OTHER -> <<>>]
  /\ todo    = [t \in Thread |-> <<>>]
  /\ LoggedIn = FALSE
  /\ AliveThread = "NULL"
  /\ SessionData = 0
  /\ loginResult = FALSE
  /\ failed = [w \in AliveObject |-> 0]
  /\ read = [p \in OSThread |-> 0]
  /\ created = {} /\ deleted = {}
  /\ screen = "login"
  /\ logins = 0 /\ begun = 0 /\ ended = 0

(* What Calm demands of a click: every thread is done with what it has to  *)
(* execute, or waits.                                                      *)
Quiet ==
  /\ \A t \in Thread : todo[t] = <<>>
  /\ \A p \in OSThread : at[p] \notin {"left", "unhandled", "invoke", "callbacks"}

(* What Calm demands of the failure that ends a session, several keep-alive*)
(* intervals after its login: the login has been reported and no Logout is *)
(* half done.  The logout thread may be anywhere.                          *)
Established ==
  /\ todo["ui"] = <<>>
  /\ \A t \in Thread : "onLoginComplete" \notin Range(todo[t])

-----------------------------------------------------------------------------
(* EncryptedData: GetData decodes the data and, whatever its caller wants, *)
(* encodes it again: a read is followed by a write of what was read.       *)

GetData(p)    == read' = [read EXCEPT ![p] = SessionData] /\ UNCHANGED SessionData
WriteBack(p)  == SessionData' = read[p] /\ UNCHANGED read
SetData(p, d) == SessionData' = d /\ read' = [read EXCEPT ![p] = 0]

-----------------------------------------------------------------------------
(* Login.                                                                  *)

Login ==
  /\ screen = "login"
  /\ Calm => Quiet
  /\ todo["ui"] = <<>>
  /\ logins < MaxLogins
  /\ logins' = logins + 1
  /\ screen' = "busy"
  /\ todo' = [todo EXCEPT !["ui"] = IF LoggedIn THEN <<>> ELSE <<"RunLogin">>]
  /\ UNCHANGED <<handle, running, term, job, at, list, authVars, begun, ended>>

RunLogin(t) ==
  /\ RunCheck(t, "RunLogin", "LoginThread", "CreateLogin")
  /\ UNCHANGED <<authVars, clientVars>>
CreateLogin(t) ==
  /\ RunCreate(t, "CreateLogin", "LoginThread")
  /\ UNCHANGED <<authVars, clientVars>>

(* ThreadLogin::Login.  A refused login has had its handshake, whose       *)
(* session id it stores; an unanswered one stores zeros.                   *)
LoginWork(p) ==
  /\ at[p] = "work" /\ job[p] = "LoginThread"
  /\ \E r \in BOOLEAN, d \in {0, logins} :
       /\ r => d = logins
       /\ loginResult' = r
       /\ SetData(p, d)
  /\ at' = [at EXCEPT ![p] = "left"]
  /\ UNCHANGED <<handle, running, term, job, list, todo,
                 LoggedIn, AliveThread, failed, created, deleted, clientVars>>

(* new ThreadAlive                                                         *)
NextObject == CHOOSE w \in AliveObject \ created : TRUE

(* The GetData of line 57 decodes and encodes back in one go what no other *)
(* thread sets then (the logout before has cleared it), and changes        *)
(* nothing.                                                                *)
onLoginThreadComplete(t) ==
  /\ At(t, "onLoginThreadComplete")
  /\ LoggedIn' = loginResult
  /\ IF loginResult
     THEN /\ AliveObject \ created # {}
          /\ created' = created \cup {NextObject}
          /\ AliveThread' = NextObject
          /\ AddHandler(NextObject, "onAliveThreadComplete")
          /\ Call(t, <<"RunAlive", "onLoginComplete">>)
     ELSE Call(t, <<"onLoginComplete">>) /\ UNCHANGED <<AliveThread, created, list>>
  /\ UNCHANGED <<handle, running, term, job, at,
                 SessionData, loginResult, failed, read, deleted, clientVars>>

RunAlive(t) ==
  /\ AliveThread # "NULL"
  /\ RunCheck(t, "RunAlive", AliveThread, "CreateAlive")
  /\ UNCHANGED <<authVars, clientVars>>
CreateAlive(t) ==
  /\ AliveThread # "NULL"
  /\ RunCreate(t, "CreateAlive", AliveThread)
  /\ UNCHANGED <<authVars, clientVars>>

(* Main::OnLoginComplete.                                                  *)
onLoginComplete(t) ==
  /\ At(t, "onLoginComplete")
  /\ Return(t)
  /\ begun' = IF LoggedIn THEN begun + 1 ELSE begun
  /\ screen' = CASE screen = "closed" -> "closed"
                 [] LoggedIn -> "main"
                 [] OTHER -> "login"
  /\ UNCHANGED <<handle, running, term, job, at, list, authVars, logins, ended>>

-----------------------------------------------------------------------------
(***************************************************************************)
(* ThreadAlive::Work.  A round is: wait on evt_stop_, for at most          *)
(* ALIVE_INTERVAL; check term_; read the session id; request; count.       *)
(***************************************************************************)
AliveStarts(p) ==
  /\ at[p] = "work" /\ job[p] \in AliveObject
  /\ at' = [at EXCEPT ![p] = "loop"]
  /\ UNCHANGED <<handle, running, term, job, list, todo, authVars, clientVars>>

AliveChecks(p) ==
  /\ at[p] = "loop" /\ job[p] \in AliveObject
  /\ at' = [at EXCEPT ![p] = IF term[job[p]] THEN "left" ELSE "checked"]
  /\ UNCHANGED <<handle, running, term, job, list, todo, authVars, clientVars>>

AliveReads(p) ==
  /\ at[p] = "checked" /\ job[p] \in AliveObject
  /\ GetData(p)
  /\ at' = [at EXCEPT ![p] = "listen"]
  /\ UNCHANGED <<handle, running, term, job, list, todo,
                 LoggedIn, AliveThread, loginResult, failed, created, deleted, clientVars>>

AliveSends(p) ==
  /\ at[p] = "listen" /\ job[p] \in AliveObject
  /\ WriteBack(p)
  /\ at' = [at EXCEPT ![p] = "request"]
  /\ UNCHANGED <<handle, running, term, job, list, todo,
                 LoggedIn, AliveThread, loginResult, failed, created, deleted, clientVars>>

AliveAnswered(p) ==
  /\ at[p] = "request" /\ job[p] \in AliveObject
  /\ failed' = [failed EXCEPT ![job[p]] = 0]
  /\ read' = [read EXCEPT ![p] = 0]
  /\ at' = [at EXCEPT ![p] = "loop"]
  /\ UNCHANGED <<handle, running, term, job, list, todo, LoggedIn, AliveThread,
                 SessionData, loginResult, created, deleted, clientVars>>

AliveFailsLate(p) ==
  /\ at[p] = "request" /\ job[p] \in AliveObject
  /\ LET n == failed[job[p]] + 1
     IN /\ failed' = [failed EXCEPT ![job[p]] = n]
        /\ IF n > MaxFailed
           THEN /\ Calm => Established
                /\ SetData(p, 0)
                /\ at' = [at EXCEPT ![p] = "left"]
           ELSE /\ read' = [read EXCEPT ![p] = 0]
                /\ at' = [at EXCEPT ![p] = "loop"]
                /\ UNCHANGED SessionData
  /\ UNCHANGED <<handle, running, term, job, list, todo, LoggedIn, AliveThread,
                 loginResult, created, deleted, clientVars>>

AliveFails(p) ==
  /\ at[p] = "request" /\ job[p] \in AliveObject
  /\ LET n == failed[job[p]] + 1
     IN /\ failed' = [failed EXCEPT ![job[p]] = n]
        /\ IF n >= MaxFailed
           THEN /\ Calm => Established
                /\ SetData(p, 0)
                /\ at' = [at EXCEPT ![p] = "left"]
           ELSE /\ read' = [read EXCEPT ![p] = 0]
                /\ at' = [at EXCEPT ![p] = "loop"]
                /\ UNCHANGED SessionData
  /\ UNCHANGED <<handle, running, term, job, list, todo, LoggedIn, AliveThread,
                 loginResult, created, deleted, clientVars>>

onAliveThreadComplete(t) ==
  /\ At(t, "onAliveThreadComplete")
  /\ Call(t, <<"onDisconnect">>)
  /\ LoggedIn' = FALSE
  /\ deleted' = deleted \cup ({AliveThread} \ {"NULL"})
  /\ AliveThread' = "NULL"
  /\ UNCHANGED <<handle, running, term, job, at, list,
                 SessionData, loginResult, failed, read, created, clientVars>>

-----------------------------------------------------------------------------
(* Logout.                                                                 *)

Logout ==
  /\ screen = "main"
  /\ Calm => Quiet
  /\ todo["ui"] = <<>>
  /\ screen' = "leaving"
  /\ todo' = [todo EXCEPT !["ui"] =
                IF LoggedIn THEN <<"RemoveAlive", "SignalAlive", "RunLogout">> ELSE <<>>]
  /\ UNCHANGED <<handle, running, term, job, at, list, authVars, logins, begun, ended>>

RemoveAliveKeeps(t) ==
  /\ At(t, "RemoveAlive")
  /\ AliveThread # "NULL"
  /\ Return(t)
  /\ UNCHANGED <<handle, running, term, job, at, list, authVars, clientVars>>

RemoveAlive(t) ==
  /\ At(t, "RemoveAlive")
  /\ AliveThread # "NULL"
  /\ Return(t)
  /\ RemoveHandler(AliveThread, "onAliveThreadComplete")
  /\ UNCHANGED <<handle, running, term, job, at, authVars, clientVars>>

SignalAliveLost(t) ==
  /\ At(t, "SignalAlive")
  /\ AliveThread # "NULL"
  /\ Return(t)
  /\ UNCHANGED <<handle, running, term, job, at, list, authVars, clientVars>>

SignalAlive(t) ==
  /\ At(t, "SignalAlive")
  /\ AliveThread # "NULL"
  /\ Return(t)
  /\ term' = [term EXCEPT ![AliveThread] = TRUE]
  /\ UNCHANGED <<handle, running, job, at, list, authVars, clientVars>>

RunLogout(t) ==
  /\ RunCheck(t, "RunLogout", "LogoutThread", "CreateLogout")
  /\ UNCHANGED <<authVars, clientVars>>
CreateLogout(t) ==
  /\ RunCreate(t, "CreateLogout", "LogoutThread")
  /\ UNCHANGED <<authVars, clientVars>>

(* ThreadLogout::Work: GetData, Request, SetData.                          *)
LogoutReads(p) ==
  /\ at[p] = "work" /\ job[p] = "LogoutThread"
  /\ GetData(p)
  /\ at' = [at EXCEPT ![p] = "listen"]
  /\ UNCHANGED <<handle, running, term, job, list, todo,
                 LoggedIn, AliveThread, loginResult, failed, created, deleted, clientVars>>

LogoutSends(p) ==
  /\ at[p] = "listen" /\ job[p] = "LogoutThread"
  /\ WriteBack(p)
  /\ at' = [at EXCEPT ![p] = "request"]
  /\ UNCHANGED <<handle, running, term, job, list, todo,
                 LoggedIn, AliveThread, loginResult, failed, created, deleted, clientVars>>

(* Answered or not, the session data is cleared.                           *)
LogoutClears(p) ==
  /\ at[p] = "request" /\ job[p] = "LogoutThread"
  /\ SetData(p, 0)
  /\ at' = [at EXCEPT ![p] = "left"]
  /\ UNCHANGED <<handle, running, term, job, list, todo,
                 LoggedIn, AliveThread, loginResult, failed, created, deleted, clientVars>>

onLogoutThreadComplete(t) ==
  /\ At(t, "onLogoutThreadComplete")
  /\ Call(t, <<"WaitAlive", "DeleteAlive", "onLogoutComplete">>)
  /\ LoggedIn' = FALSE
  /\ UNCHANGED <<handle, running, term, job, at, list, AliveThread,
                 SessionData, loginResult, failed, read, created, deleted, clientVars>>

WaitAliveSkipped(t) ==
  /\ At(t, "WaitAlive")
  /\ AliveThread # "NULL"
  /\ Return(t)
  /\ UNCHANGED <<handle, running, term, job, at, list, authVars, clientVars>>

WaitAlive(t) ==
  /\ At(t, "WaitAlive")
  /\ AliveThread # "NULL"
  /\ Call(t, IF handle[AliveThread] THEN <<"JoinAlive">> ELSE <<>>)
  /\ UNCHANGED <<handle, running, term, job, at, list, authVars, clientVars>>

DeleteAlive(t) ==
  /\ At(t, "DeleteAlive")
  /\ Return(t)
  /\ deleted' = deleted \cup ({AliveThread} \ {"NULL"})
  /\ AliveThread' = "NULL"
  /\ UNCHANGED <<handle, running, term, job, at, list,
                 LoggedIn, SessionData, loginResult, failed, read, created, clientVars>>

(* Loggedin's OnLogoutComplete and OnDisconnect, which stop the game       *)
(* module; it shows the login dialog, or closes it, some time later.       *)
SessionEnds(t) ==
  /\ At(t, "onLogoutComplete") \/ At(t, "onDisconnect")
  /\ Return(t)
  /\ ended' = ended + 1
  /\ screen' = IF screen = "closed" THEN "closed" ELSE "stopping"
  /\ UNCHANGED <<handle, running, term, job, at, list, authVars, logins, begun>>

Stopped ==
  /\ screen = "stopping"
  /\ screen' \in {"login", "closed"}
  /\ UNCHANGED <<workerVars, authVars, logins, begun, ended>>

-----------------------------------------------------------------------------
(* The login dialog is closed, ready or busy, and Auth::Cleanup executed:  *)
(* it waits for LoginThread and LogoutThread and deletes all three.        *)

CloseLogin ==
  /\ screen \in {"login", "busy"}
  /\ Calm => Quiet /\ screen = "login"
  /\ screen' = "closed"
  /\ UNCHANGED <<workerVars, authVars, logins, begun, ended>>

Cleanup ==
  /\ screen = "closed"
  /\ todo["main"] = <<>>
  /\ "LoginThread" \notin deleted
  /\ todo' = [todo EXCEPT !["main"] = <<"WaitLogin", "WaitLogout", "DeleteThreads">>]
  /\ UNCHANGED <<handle, running, term, job, at, list, authVars, clientVars>>

WaitThread(t) ==
  /\ \/ At(t, "WaitLogin")
        /\ Call(t, IF handle["LoginThread"] THEN <<"JoinLogin">> ELSE <<>>)
     \/ At(t, "WaitLogout")
        /\ Call(t, IF handle["LogoutThread"] THEN <<"JoinLogout">> ELSE <<>>)
  /\ UNCHANGED <<handle, running, term, job, at, list, authVars, clientVars>>

Join(t) ==
  /\ \/ At(t, "JoinAlive") /\ Exited(AliveThread)
     \/ At(t, "JoinLogin") /\ Exited("LoginThread")
     \/ At(t, "JoinLogout") /\ Exited("LogoutThread")
  /\ Return(t)
  /\ UNCHANGED <<handle, running, term, job, at, list, authVars, clientVars>>

DeleteThreads(t) ==
  /\ At(t, "DeleteThreads")
  /\ Return(t)
  /\ deleted' = deleted \cup {"LoginThread", "LogoutThread"} \cup ({AliveThread} \ {"NULL"})
  /\ UNCHANGED <<handle, running, term, job, at, list, LoggedIn, AliveThread,
                 SessionData, loginResult, failed, read, created, clientVars>>

-----------------------------------------------------------------------------
AuthStep(t) ==
  \/ RunLogin(t) \/ CreateLogin(t) \/ onLoginThreadComplete(t)
  \/ RunAlive(t) \/ CreateAlive(t) \/ onLoginComplete(t)
  \/ onAliveThreadComplete(t) \/ SessionEnds(t)
  \/ RemoveAlive(t) \/ SignalAlive(t) \/ RunLogout(t) \/ CreateLogout(t)
  \/ onLogoutThreadComplete(t) \/ WaitAlive(t) \/ DeleteAlive(t)
  \/ WaitThread(t) \/ Join(t) \/ DeleteThreads(t)

Work(p) ==
  \/ LoginWork(p)
  \/ AliveStarts(p) \/ AliveChecks(p) \/ AliveReads(p) \/ AliveSends(p)
  \/ AliveAnswered(p) \/ AliveFails(p)
  \/ LogoutReads(p) \/ LogoutSends(p) \/ LogoutClears(p)
  \/ (ThreadProc(p) /\ UNCHANGED <<authVars, clientVars>>)

Next ==
  \/ Login \/ Logout \/ CloseLogin
  \/ Stopped \/ Cleanup
  \/ \E t \in Thread : AuthStep(t)
  \/ \E p \in OSThread : Work(p)

Spec == Init /\ [][Next]_vars

(***************************************************************************)
(* Threads are scheduled and requests end, answered or by timeout.  Nobody *)
(* has to log in or out, and no session has to be lost.                    *)
(***************************************************************************)
FairSpec ==
  /\ Spec
  /\ \A t \in Thread : WF_vars(AuthStep(t))
  /\ \A p \in OSThread : WF_vars(Work(p))
  /\ WF_vars(Stopped)

-----------------------------------------------------------------------------
TypeOK ==
  /\ ThreadTypeOK
  /\ LoggedIn \in BOOLEAN
  /\ AliveThread \in AliveObject \cup {"NULL"}
  /\ SessionData \in Nat
  /\ loginResult \in BOOLEAN
  /\ failed \in [AliveObject -> 0..MaxFailed]
  /\ read \in [OSThread -> Nat]
  /\ created \subseteq AliveObject
  /\ deleted \subseteq Worker
  /\ screen \in Screen
  /\ logins \in Nat /\ begun \in Nat /\ ended \in Nat

(***************************************************************************)
(* Whatever the alive thread and the logout thread do to each other, Auth  *)
(* keeps the promise of Session: one end per session, in its turn.         *)
(***************************************************************************)
phase ==
  CASE screen = "busy" -> "entering"
    [] begun > ended /\ screen = "main" -> "in"
    [] begun > ended /\ screen = "leaving" -> "leaving"
    [] OTHER -> "out"

Promise == INSTANCE Session WITH session <- phase
KeepsPromise == Promise!Spec

(* The only thread keeping a session alive is AliveThread's: no session is *)
(* kept alive after its end, or by two threads (Auth.cpp 63-66, 97-104).   *)
OneAlive ==
  \A p \in OSThread :
    at[p] \in InWork /\ job[p] \in AliveObject => job[p] = AliveThread

(* No object is deleted while a thread is in its Work.                     *)
DeletedIdle == \A p \in OSThread : at[p] \in InWork => job[p] \notin deleted

(* Nobody follows a NULL AliveThread (Auth.cpp 66, 100, 109, 110).             *)
AliveNotNull ==
  \A t \in Thread, op \in {"RunAlive", "RemoveAlive", "SignalAlive", "WaitAlive"} :
    At(t, op) => AliveThread # "NULL"

(* Whatever each thread does meanwhile, the ThreadAlive object in use is   *)
(* there, and there is one.                                                *)
AliveSafe == OneAlive /\ DeletedIdle /\ AliveNotNull

(* A session that has ended leaves no session data behind: both threads    *)
(* that end one clear it (ThreadLogout.cpp 27-29, ThreadAlive.cpp 48-50).  *)
Cleared == screen = "stopping" => SessionData = 0

(* Every logout ends, although it waits for the alive thread and for a     *)
(* server that may not answer.                                             *)
LogoutEnds == screen = "leaving" ~> screen # "leaving"

=============================================================================
