------------------------- MODULE AuthSession_proofs -------------------------
(***************************************************************************)
(* What holds of Auth and its threads for every number of sessions and OS  *)
(* threads and every MAX_FAILED_ALIVE: AuthThreadsBacked whenever user and *)
(* network act; AuthTypes, AliveSafely and PromiseKept if they act at      *)
(* their own pace (Calm).                                                  *)
(***************************************************************************)
EXTENDS AuthSession, WorkerThread_proofs

-----------------------------------------------------------------------------
(* Threads and their objects.                                              *)

LEMMA AuthStepBacked ==
  ASSUME Backed, AliveThread \in AliveObject \cup {"NULL"}, NEW t \in Thread, AuthStep(t)
  PROVE  Backed'
<1>1. CASE CreateLogin(t) \/ CreateLogout(t)
  BY <1>1, AuthAssumption, BackedRunCreate DEF CreateLogin, CreateLogout
<1>2. CASE CreateAlive(t)
  <2>1. AliveThread \in Worker
    BY <1>2, AuthAssumption DEF CreateAlive
  <2> QED
    BY <1>2, <2>1, BackedRunCreate DEF CreateAlive
<1>3. CASE RunLogin(t) \/ RunAlive(t) \/ RunLogout(t)
  BY <1>3, BackedFrame DEF RunLogin, RunAlive, RunLogout, RunCheck
<1>4. CASE \/ onLoginThreadComplete(t) \/ onLoginComplete(t)
           \/ onAliveThreadComplete(t) \/ SessionEnds(t)
  BY <1>4, BackedFrame
     DEF onLoginThreadComplete, onLoginComplete, onAliveThreadComplete, SessionEnds
<1>5. CASE \/ RemoveAlive(t) \/ SignalAlive(t) \/ onLogoutThreadComplete(t)
           \/ WaitAlive(t) \/ DeleteAlive(t)
  BY <1>5, BackedFrame
     DEF RemoveAlive, SignalAlive, onLogoutThreadComplete, WaitAlive, DeleteAlive
<1>6. CASE WaitThread(t) \/ Join(t) \/ DeleteThreads(t)
  BY <1>6, BackedFrame DEF WaitThread, Join, DeleteThreads
<1> QED
  BY <1>1, <1>2, <1>3, <1>4, <1>5, <1>6 DEF AuthStep

LEMMA WorkBacked ==
  ASSUME Backed, NEW p \in OSThread, Work(p)
  PROVE  Backed'
<1>1. CASE LoginWork(p) \/ AliveStarts(p)
  BY <1>1, BackedWork DEF LoginWork, AliveStarts, InWork
<1>2. CASE AliveChecks(p)
  <2>1. (IF term[job[p]] THEN "left" ELSE "checked") \in InWork
    BY DEF InWork
  <2> QED
    BY <1>2, <2>1, BackedWork DEF AliveChecks, InWork
<1>3. CASE AliveReads(p) \/ AliveSends(p) \/ AliveAnswered(p)
  BY <1>3, BackedWork DEF AliveReads, AliveSends, AliveAnswered, InWork
<1>4. CASE AliveFails(p)
  <2>1. /\ at[p] \in InWork
        /\ at' = [at EXCEPT ![p] = "left"] \/ at' = [at EXCEPT ![p] = "loop"]
        /\ UNCHANGED <<handle, running, job>>
    BY <1>4 DEF AliveFails, InWork
  <2> QED
    BY <2>1, BackedWork DEF InWork
<1>5. CASE LogoutReads(p) \/ LogoutSends(p) \/ LogoutClears(p)
  BY <1>5, BackedWork DEF LogoutReads, LogoutSends, LogoutClears, InWork
<1>6. CASE ThreadProc(p)
  BY <1>6, BackedThreadProc
<1> QED
  BY <1>1, <1>2, <1>3, <1>4, <1>5, <1>6 DEF Work

(* AliveThread is a ThreadAlive object or NULL.                            *)
LEMMA NextAlive ==
  ASSUME AliveThread \in AliveObject \cup {"NULL"}, [Next]_vars
  PROVE  AliveThread' \in AliveObject \cup {"NULL"}
<1>1. ASSUME NEW t \in Thread, onLoginThreadComplete(t)
      PROVE  AliveThread' \in AliveObject \cup {"NULL"}
  BY <1>1 DEF onLoginThreadComplete, NextObject
<1>2. ASSUME NEW t \in Thread, onAliveThreadComplete(t) \/ DeleteAlive(t)
      PROVE  AliveThread' = "NULL"
  BY <1>2 DEF onAliveThreadComplete, DeleteAlive
<1>3. ASSUME NEW t \in Thread, AuthStep(t)
      PROVE  AliveThread' = AliveThread
             \/ onLoginThreadComplete(t) \/ onAliveThreadComplete(t) \/ DeleteAlive(t)
  BY <1>3
     DEF AuthStep, RunLogin, CreateLogin, RunAlive, CreateAlive, onLoginComplete, SessionEnds,
         RemoveAlive, SignalAlive, RunLogout, CreateLogout, onLogoutThreadComplete, WaitAlive,
         WaitThread, Join, DeleteThreads, authVars
<1>4. ASSUME NEW p \in OSThread, Work(p)
      PROVE  AliveThread' = AliveThread
  BY <1>4
     DEF Work, LoginWork, AliveStarts, AliveChecks, AliveReads, AliveSends, AliveAnswered,
         AliveFails, LogoutReads, LogoutSends, LogoutClears, authVars
<1>5. Login \/ Logout \/ CloseLogin \/ Stopped \/ Cleanup => AliveThread' = AliveThread
  BY DEF Login, Logout, CloseLogin, Stopped, Cleanup, authVars
<1>6. UNCHANGED vars => AliveThread' = AliveThread
  BY DEF vars, authVars
<1> QED
  BY <1>1, <1>2, <1>3, <1>4, <1>5, <1>6 DEF Next

(***************************************************************************)
(* thread_ and running_ of LoginThread, LogoutThread and every ThreadAlive *)
(* are never stale: Auth::Login and Auth::Logout always find Run ready     *)
(* once Work has ended, and the Wait of the logout thread and of           *)
(* Auth::Cleanup waits for a thread that exists (Auth.cpp 72-114, 131-156).*)
(***************************************************************************)
THEOREM AuthThreadsBacked == Spec => []ThreadBacked
<1> DEFINE Inv == Backed /\ AliveThread \in AliveObject \cup {"NULL"}
<1>1. Init => Inv
  BY BackedInit DEF Init
<1>2. Inv /\ [Next]_vars => Inv'
  <2> SUFFICES ASSUME Inv, [Next]_vars
               PROVE  Backed'
    BY NextAlive
  <2>1. CASE \E t \in Thread : AuthStep(t)
    BY <2>1, AuthStepBacked
  <2>2. CASE \E p \in OSThread : Work(p)
    BY <2>2, WorkBacked
  <2>3. CASE Login \/ Logout \/ CloseLogin \/ Stopped \/ Cleanup
    BY <2>3, BackedFrame DEF Login, Logout, CloseLogin, Stopped, Cleanup, workerVars
  <2>4. CASE UNCHANGED vars
    BY <2>4, BackedFrame DEF vars, workerVars
  <2> QED
    BY <2>1, <2>2, <2>3, <2>4 DEF Next
<1>3. Inv => ThreadBacked
  BY DEF Backed
<1> QED
  BY <1>1, <1>2, <1>3, PTL DEF Spec

-----------------------------------------------------------------------------
(* What Auth promises: consequences of Promise, the abstract session, for  *)
(* every number of logins.                                                 *)

(* The types of the promise (Auth.cpp 47-114).                             *)
LEMMA SessionTypes == Promise!Spec => []Promise!TypeOK
<1>1. Promise!Init => Promise!TypeOK
  BY DEF Promise!Init, Promise!TypeOK, Promise!Phase
<1>2. Promise!TypeOK /\ [Promise!Next]_(Promise!sessionVars) => Promise!TypeOK'
  BY DEF Promise!TypeOK, Promise!Phase, Promise!Next, Promise!Login, Promise!Refused,
         Promise!Begin, Promise!Logout, Promise!End, Promise!sessionVars
<1> QED
  BY <1>1, <1>2, PTL DEF Promise!Spec

(***************************************************************************)
(* Whoever keeps the promise of Session has ended every session it began   *)
(* but the one it is in: Loggedin, which starts the game module at each    *)
(* begin and stops it at each end, starts and stops it in turn             *)
(* (Loggedin.cpp 165-187, 221-242).                                        *)
(***************************************************************************)
LEMMA SessionsBalanced == Promise!Spec => []Promise!Balanced
<1>1. Promise!Init => Promise!Balanced
  BY DEF Promise!Init, Promise!Balanced
<1>2. ASSUME Promise!TypeOK, Promise!Balanced, [Promise!Next]_(Promise!sessionVars)
      PROVE  Promise!Balanced'
  <2> USE DEF Promise!TypeOK, Promise!Balanced
  <2>1. CASE Promise!Login \/ Promise!Refused \/ Promise!Logout
    BY <1>2, <2>1 DEF Promise!Login, Promise!Refused, Promise!Logout
  <2>2. CASE Promise!Begin
    BY <1>2, <2>2 DEF Promise!Begin
  <2>3. CASE Promise!End
    BY <1>2, <2>3 DEF Promise!End
  <2>4. CASE UNCHANGED Promise!sessionVars
    BY <1>2, <2>4 DEF Promise!sessionVars
  <2> QED
    BY <1>2, <2>1, <2>2, <2>3, <2>4 DEF Promise!Next
<1> QED
  BY <1>1, <1>2, SessionTypes, PTL DEF Promise!Spec

-----------------------------------------------------------------------------
(* The inductive invariant: where Auth and its threads can be together     *)
(* when user and network act at their own pace.                            *)

(* A thread that has nothing more to do but to leave ThreadProc.           *)
Spent(p) ==
  /\ todo[p] = <<>>
  /\ \/ at[p] \in {"free", "callbacks"}
     \/ at[p] \in {"unhandled", "invoke"} /\ list[job[p]] = <<>>

AllSpent == \A p \in OSThread : Spent(p)
OthersSpent(p) == \A q \in OSThread \ {p} : Spent(q)

(* A session's ThreadAlive object, until the logout and from then on.      *)
AliveSet == AliveThread \in created
Heard    == AliveSet /\ list[AliveThread] = <<"onAliveThreadComplete">>
Unheard  == AliveSet /\ list[AliveThread] = <<>>

(* The places in ThreadAlive::Work before it is left.                      *)
Round == {"work", "loop", "checked", "listen", "request"}

(* q keeps the session alive.                                              *)
KeepsAlive(q) ==
  /\ Heard /\ ~term[AliveThread]
  /\ job[q] = AliveThread /\ todo[q] = <<>>
  /\ at[q] \in Round

(* The alive thread of a session that is being ended may be anywhere.      *)
Leaves(q) == Spent(q) \/ (job[q] = AliveThread /\ todo[q] = <<>> /\ at[q] \in InWork)
OthersLeave(p) == \A q \in OSThread \ {p} : Leaves(q)

CallersIdle == \A c \in Caller \ {"ui"} : todo[c] = <<>>
UiHas(S) == todo["ui"] \in S
Reports(p, w, S) == at[p] = "callbacks" /\ job[p] = w /\ todo[p] \in S
Works(p, w, S) == at[p] \in S /\ job[p] = w /\ todo[p] = <<>>

NoSession == begun = ended /\ ~LoggedIn /\ AliveThread = "NULL"

Outside ==
  /\ screen \in {"login", "stopping", "closed"} /\ NoSession
  /\ UiHas({<<>>})
  /\ \A c \in Caller \ {"ui", "main"} : todo[c] = <<>>
  /\ todo["main"] \in {<<>>, <<"WaitLogin", "WaitLogout", "DeleteThreads">>,
                       <<"WaitLogout", "DeleteThreads">>, <<"DeleteThreads">>}
  /\ screen # "closed" => todo["main"] = <<>>
  /\ AllSpent

LoginAsked ==
  /\ screen = "busy" /\ NoSession /\ CallersIdle
  /\ UiHas({<<"RunLogin">>, <<"CreateLogin">>})
  /\ AllSpent

LogsIn(p) ==
  /\ screen = "busy" /\ NoSession /\ CallersIdle /\ UiHas({<<>>})
  /\ \/ Works(p, "LoginThread", {"work", "left", "unhandled", "invoke"})
     \/ Reports(p, "LoginThread", {<<"onLoginThreadComplete">>, <<"onLoginComplete">>})
  /\ OthersSpent(p)

Enters(p) ==
  /\ screen = "busy" /\ begun = ended /\ LoggedIn /\ CallersIdle /\ UiHas({<<>>})
  /\ Heard /\ ~term[AliveThread] /\ failed[AliveThread] = 0
  /\ Reports(p, "LoginThread", {<<"RunAlive", "onLoginComplete">>,
                                <<"CreateAlive", "onLoginComplete">>})
  /\ OthersSpent(p)

Entered(p, q) ==
  /\ screen = "busy" /\ begun = ended /\ LoggedIn /\ CallersIdle /\ UiHas({<<>>})
  /\ Reports(p, "LoginThread", {<<"onLoginComplete">>})
  /\ KeepsAlive(q)
  /\ \A o \in OSThread \ {p, q} : Spent(o)

Inside(q) ==
  /\ screen = "main" /\ begun = ended + 1 /\ LoggedIn /\ CallersIdle /\ UiHas({<<>>})
  /\ KeepsAlive(q)
  /\ OthersSpent(q)

Loses(q) ==
  /\ screen = "main" /\ begun = ended + 1 /\ LoggedIn /\ CallersIdle /\ UiHas({<<>>})
  /\ Heard
  /\ \/ Works(q, AliveThread, {"left", "unhandled", "invoke"})
     \/ Reports(q, AliveThread, {<<"onAliveThreadComplete">>})
  /\ OthersSpent(q)

Lost(q) ==
  /\ screen = "main" /\ begun = ended + 1 /\ ~LoggedIn /\ AliveThread = "NULL"
  /\ CallersIdle /\ UiHas({<<>>})
  /\ at[q] = "callbacks" /\ todo[q] = <<"onDisconnect">>
  /\ OthersSpent(q)

LogoutAsked(q) ==
  /\ screen = "leaving" /\ begun = ended + 1 /\ LoggedIn /\ CallersIdle
  /\ UiHas({<<"RemoveAlive", "SignalAlive", "RunLogout">>})
  /\ KeepsAlive(q)
  /\ OthersSpent(q)

Dismissed ==
  /\ screen = "leaving" /\ begun = ended + 1 /\ LoggedIn /\ CallersIdle
  /\ UiHas({<<"SignalAlive", "RunLogout">>, <<"RunLogout">>, <<"CreateLogout">>})
  /\ Unheard
  /\ \A q \in OSThread : Leaves(q)

LogsOut(r) ==
  /\ screen = "leaving" /\ begun = ended + 1 /\ CallersIdle /\ UiHas({<<>>})
  /\ \/ Works(r, "LogoutThread", {"work", "listen", "request", "left", "unhandled", "invoke"})
     \/ Reports(r, "LogoutThread", {<<"onLogoutThreadComplete">>})
     \/ /\ Reports(r, "LogoutThread", {<<"WaitAlive", "DeleteAlive", "onLogoutComplete">>,
                                       <<"JoinAlive", "DeleteAlive", "onLogoutComplete">>})
        /\ ~LoggedIn
  /\ Unheard
  /\ OthersLeave(r)

Deletes(r) ==
  /\ screen = "leaving" /\ begun = ended + 1 /\ ~LoggedIn /\ CallersIdle /\ UiHas({<<>>})
  /\ Reports(r, "LogoutThread", {<<"DeleteAlive", "onLogoutComplete">>})
  /\ Unheard
  /\ OthersSpent(r)

LoggedOut(r) ==
  /\ screen = "leaving" /\ begun = ended + 1 /\ ~LoggedIn /\ AliveThread = "NULL"
  /\ CallersIdle /\ UiHas({<<>>})
  /\ Reports(r, "LogoutThread", {<<"onLogoutComplete">>})
  /\ OthersSpent(r)

Somewhere ==
  \/ Outside \/ LoginAsked \/ Dismissed
  \/ \E p \in OSThread :
       \/ LogsIn(p) \/ Enters(p) \/ \E q \in OSThread \ {p} : Entered(p, q)
       \/ Inside(p) \/ Loses(p) \/ Lost(p)
       \/ LogoutAsked(p) \/ LogsOut(p) \/ Deletes(p) \/ LoggedOut(p)

(* An object has one thread in its Work at most, and knows of it.          *)
Handles ==
  \A p \in OSThread : at[p] \in InWork =>
    /\ handle[job[p]]
    /\ \A q \in OSThread : at[q] \in InWork /\ job[q] = job[p] => q = p

(* What objects there are, and what they are before they are created.      *)
Objects ==
  /\ list["LoginThread"] = <<"onLoginThreadComplete">>
  /\ list["LogoutThread"] = <<"onLogoutThreadComplete">>
  /\ \A w \in AliveObject \ created : list[w] = <<>> /\ ~term[w] /\ failed[w] = 0
  /\ \A p \in OSThread : at[p] # "free" => job[p] \in {"LoginThread", "LogoutThread"} \cup created
  /\ deleted \subseteq {"LoginThread", "LogoutThread"} \cup created
  /\ AliveThread \notin deleted
  /\ {"LoginThread", "LogoutThread"} \cap deleted # {} => screen = "closed"

(* A thread that has failed too often has left Work.                       *)
Failures ==
  \A p \in OSThread : job[p] \in AliveObject /\ at[p] \in Round => failed[job[p]] < MaxFailed

Core == TypeOK /\ Backed /\ Objects /\ Handles /\ Failures
AuthInv == Core /\ Somewhere
-----------------------------------------------------------------------------
(* The steps of Work.                                                      *)

(* What a step within Work leaves alone.                                   *)
Labours(p, s) ==
  /\ at[p] \in InWork /\ at' = [at EXCEPT ![p] = s]
  /\ UNCHANGED <<handle, running, term, job, list, todo, LoggedIn, AliveThread,
                 created, deleted, screen, logins, begun, ended>>

LEMMA LoginWorks ==
  ASSUME TypeOK, NEW p \in OSThread, LoginWork(p)
  PROVE  /\ Labours(p, "left") /\ at[p] = "work" /\ job[p] = "LoginThread"
         /\ failed' = failed
         /\ loginResult' \in BOOLEAN /\ SessionData' \in Nat /\ read' \in [OSThread -> Nat]
<1>1. at[p] = "work" /\ job[p] = "LoginThread" /\ Labours(p, "left") /\ failed' = failed
  BY DEF LoginWork, Labours, InWork, clientVars
<1>2. PICK r \in BOOLEAN, d \in {0, logins} : loginResult' = r /\ SetData(p, d)
  BY DEF LoginWork
<1>3. d \in Nat /\ read \in [OSThread -> Nat]
  BY DEF TypeOK
<1> QED
  BY <1>1, <1>2, <1>3 DEF SetData

LEMMA LogoutWorks ==
  ASSUME TypeOK, NEW p \in OSThread, LogoutReads(p) \/ LogoutSends(p) \/ LogoutClears(p)
  PROVE  /\ job[p] = "LogoutThread"
         /\ \/ at[p] = "work" /\ Labours(p, "listen")
            \/ at[p] = "listen" /\ Labours(p, "request")
            \/ at[p] = "request" /\ Labours(p, "left")
         /\ failed' = failed /\ loginResult' = loginResult
         /\ SessionData' \in Nat /\ read' \in [OSThread -> Nat]
<1>1. SessionData \in Nat /\ read \in [OSThread -> Nat]
  BY DEF TypeOK
<1>2. CASE LogoutReads(p)
  BY <1>1, <1>2 DEF LogoutReads, GetData, Labours, InWork, clientVars
<1>3. CASE LogoutSends(p)
  BY <1>1, <1>3 DEF LogoutSends, WriteBack, Labours, InWork, clientVars
<1>4. CASE LogoutClears(p)
  BY <1>1, <1>4 DEF LogoutClears, SetData, Labours, InWork, clientVars
<1> QED
  BY <1>2, <1>3, <1>4

AliveWork(p) ==
  AliveStarts(p) \/ AliveChecks(p) \/ AliveReads(p) \/ AliveSends(p)
    \/ AliveAnswered(p) \/ AliveFails(p)

LEMMA AliveWorks ==
  ASSUME TypeOK, Failures, NEW p \in OSThread, AliveWork(p)
  PROVE  /\ job[p] \in AliveObject /\ at[p] \in Round
         /\ \/ Labours(p, "left") /\ (term[job[p]] \/ (Calm => Established))
            \/ \E s \in Round : Labours(p, s)
         /\ loginResult' = loginResult
         /\ SessionData' \in Nat /\ read' \in [OSThread -> Nat]
         /\ \E n \in 0..MaxFailed :
              /\ failed' = [failed EXCEPT ![job[p]] = n]
              /\ at'[p] \in Round => n < MaxFailed
<1>1. /\ SessionData \in Nat /\ read \in [OSThread -> Nat] /\ at \in [OSThread -> Stage]
      /\ failed \in [AliveObject -> 0..MaxFailed] /\ MaxFailed \in Nat \ {0}
  BY AuthAssumption DEF TypeOK, ThreadTypeOK
<1>2. ASSUME failed' = failed, job[p] \in AliveObject, at[p] \in Round
      PROVE  \E n \in 0..MaxFailed :
               /\ failed' = [failed EXCEPT ![job[p]] = n]
               /\ at'[p] \in Round => n < MaxFailed
  <2>1. failed[job[p]] \in 0..MaxFailed /\ failed[job[p]] < MaxFailed
    BY <1>1, <1>2 DEF Failures
  <2>2. failed' = [failed EXCEPT ![job[p]] = failed[job[p]]]
    BY <1>1, <1>2
  <2> QED
    BY <2>1, <2>2
<1>3. CASE AliveStarts(p)
  <2>1. /\ job[p] \in AliveObject /\ at[p] = "work" /\ Labours(p, "loop") /\ failed' = failed
        /\ loginResult' = loginResult /\ SessionData' = SessionData /\ read' = read
    BY <1>3 DEF AliveStarts, Labours, InWork, authVars, clientVars
  <2> QED
    BY <1>1, <1>2, <2>1 DEF Round
<1>4. CASE AliveChecks(p)
  <2>1. /\ job[p] \in AliveObject /\ at[p] = "loop" /\ failed' = failed
        /\ loginResult' = loginResult /\ SessionData' = SessionData /\ read' = read
    BY <1>4 DEF AliveChecks, authVars
  <2>2. IF term[job[p]] THEN Labours(p, "left") ELSE Labours(p, "checked")
    BY <1>4 DEF AliveChecks, Labours, InWork, authVars, clientVars
  <2> QED
    BY <1>1, <1>2, <2>1, <2>2 DEF Round
<1>5. CASE AliveReads(p)
  <2>1. /\ job[p] \in AliveObject /\ at[p] = "checked" /\ Labours(p, "listen") /\ failed' = failed
        /\ loginResult' = loginResult /\ SessionData' \in Nat /\ read' \in [OSThread -> Nat]
    BY <1>1, <1>5 DEF AliveReads, GetData, Labours, InWork, clientVars
  <2> QED
    BY <1>2, <2>1 DEF Round
<1>6. CASE AliveSends(p)
  <2>1. /\ job[p] \in AliveObject /\ at[p] = "listen" /\ Labours(p, "request") /\ failed' = failed
        /\ loginResult' = loginResult /\ SessionData' \in Nat /\ read' \in [OSThread -> Nat]
    BY <1>1, <1>6 DEF AliveSends, WriteBack, Labours, InWork, clientVars
  <2> QED
    BY <1>2, <2>1 DEF Round
<1>7. CASE AliveAnswered(p)
  <2>1. /\ job[p] \in AliveObject /\ at[p] = "request" /\ Labours(p, "loop")
        /\ failed' = [failed EXCEPT ![job[p]] = 0]
        /\ loginResult' = loginResult /\ SessionData' \in Nat /\ read' \in [OSThread -> Nat]
    BY <1>1, <1>7 DEF AliveAnswered, Labours, InWork, clientVars
  <2>2. 0 \in 0..MaxFailed /\ 0 < MaxFailed
    BY <1>1
  <2> QED
    BY <2>1, <2>2 DEF Round
<1>8. CASE AliveFails(p)
  <2>1. job[p] \in AliveObject /\ at[p] = "request"
    BY <1>8 DEF AliveFails
  <2>2. PICK n : n = failed[job[p]] + 1
    OBVIOUS
  <2>3. n \in 0..MaxFailed /\ (~(n >= MaxFailed) => n < MaxFailed)
    BY <1>1, <2>1, <2>2 DEF Failures, Round
  <2>4. /\ failed' = [failed EXCEPT ![job[p]] = n] /\ loginResult' = loginResult
        /\ IF n >= MaxFailed
           THEN (Calm => Established) /\ Labours(p, "left") /\ SetData(p, 0)
           ELSE Labours(p, "loop") /\ read' = [read EXCEPT ![p] = 0] /\ SessionData' = SessionData
    BY <1>8, <2>2 DEF AliveFails, Labours, InWork, clientVars
  <2>5. SessionData' \in Nat /\ read' \in [OSThread -> Nat]
    BY <1>1, <2>4 DEF SetData
  <2>6. CASE n >= MaxFailed
    <3>1. at'[p] = "left"
      BY <1>1, <2>4, <2>6 DEF Labours
    <3> QED
      BY <2>1, <2>3, <2>4, <2>5, <2>6, <3>1 DEF Round
  <2>7. CASE ~(n >= MaxFailed)
    BY <2>1, <2>3, <2>4, <2>5, <2>7 DEF Round
  <2> QED
    BY <2>6, <2>7
<1> QED
  BY <1>3, <1>4, <1>5, <1>6, <1>7, <1>8 DEF AliveWork

(* What a step within Work keeps.                                          *)
LEMMA LabourCore ==
  ASSUME Core, NEW p \in OSThread, NEW s \in InWork, Labours(p, s),
         loginResult' \in BOOLEAN, SessionData' \in Nat, read' \in [OSThread -> Nat],
         \/ failed' = failed /\ job[p] \notin AliveObject
         \/ /\ job[p] \in AliveObject
            /\ \E n \in 0..MaxFailed : /\ failed' = [failed EXCEPT ![job[p]] = n]
                                       /\ s \in Round => n < MaxFailed
  PROVE  Core'
<1>1. /\ at[p] \in InWork /\ at' = [at EXCEPT ![p] = s]
      /\ handle' = handle /\ running' = running /\ term' = term /\ job' = job /\ list' = list
      /\ todo' = todo /\ LoggedIn' = LoggedIn /\ AliveThread' = AliveThread
      /\ created' = created /\ deleted' = deleted /\ screen' = screen
      /\ logins' = logins /\ begun' = begun /\ ended' = ended
  BY DEF Labours
<1>2. TypeOK /\ Backed /\ Objects /\ Handles /\ Failures
  BY DEF Core
<1>3. at \in [OSThread -> Stage] /\ failed \in [AliveObject -> 0..MaxFailed]
  BY <1>2 DEF TypeOK, ThreadTypeOK
<1>4. failed' \in [AliveObject -> 0..MaxFailed]
  BY <1>3
<1>5. at' \in [OSThread -> Stage] /\ at'[p] = s /\ \A q \in OSThread \ {p} : at'[q] = at[q]
  BY <1>1, <1>3 DEF Stage
<1>6. TypeOK'
  BY <1>1, <1>2, <1>4, <1>5 DEF TypeOK, ThreadTypeOK
<1>7. Backed'
  BY <1>1, <1>2, BackedWork
<1>8. Objects'
  <2>1. job[p] \in {"LoginThread", "LogoutThread"} \cup created
    BY <1>1, <1>2 DEF Objects, InWork
  <2>2. \A w \in AliveObject \ created : failed'[w] = failed[w]
    BY <1>3, <2>1, AuthAssumption
  <2> QED
    BY <1>1, <1>2, <1>5, <2>1, <2>2 DEF Objects
<1>9. Handles'
  BY <1>1, <1>2, <1>5 DEF Handles
<1>10. Failures'
  <2> SUFFICES ASSUME NEW q \in OSThread, job[q] \in AliveObject, at'[q] \in Round
               PROVE  failed'[job[q]] < MaxFailed
    BY <1>1 DEF Failures
  <2>1. CASE q = p
    BY <1>3, <1>5, <2>1
  <2>2. CASE q # p
    <3>1. at[q] \in Round /\ at[q] \in InWork
      BY <1>5, <2>2 DEF Round, InWork
    <3>2. job[q] # job[p]
      BY <1>1, <1>2, <2>2, <3>1 DEF Handles
    <3>3. failed'[job[q]] = failed[job[q]]
      BY <1>3, <3>2
    <3> QED
      BY <1>2, <3>1, <3>3 DEF Failures
  <2> QED
    BY <2>1, <2>2
<1> QED
  BY <1>6, <1>7, <1>8, <1>9, <1>10 DEF Core

(* ThreadProc after Work: which step, and that the objects stay sound.     *)
LEMMA ProcWorks ==
  ASSUME Core, NEW p \in OSThread, ThreadProc(p), UNCHANGED <<authVars, clientVars>>
  PROVE  /\ Core'
         /\ term' = term /\ list' = list
         /\ LoggedIn' = LoggedIn /\ AliveThread' = AliveThread /\ created' = created
         /\ screen' = screen /\ begun' = begun /\ ended' = ended
         /\ \A q \in OSThread \ {p} : at'[q] = at[q] /\ job'[q] = job[q]
         /\ \A t \in Thread \ {p} : todo'[t] = todo[t]
         /\ \/ at[p] = "left" /\ at'[p] = "unhandled" /\ job'[p] = job[p] /\ todo'[p] = todo[p]
            \/ at[p] = "unhandled" /\ at'[p] = "invoke" /\ job'[p] = job[p] /\ todo'[p] = todo[p]
            \/ at[p] = "invoke" /\ at'[p] = "callbacks" /\ job'[p] = job[p] /\ todo'[p] = list[job[p]]
            \/ at[p] = "callbacks" /\ todo[p] = <<>> /\ at'[p] = "free" /\ todo'[p] = <<>>
<1>1. /\ LoggedIn' = LoggedIn /\ AliveThread' = AliveThread /\ SessionData' = SessionData
      /\ loginResult' = loginResult /\ failed' = failed /\ read' = read
      /\ created' = created /\ deleted' = deleted
      /\ screen' = screen /\ logins' = logins /\ begun' = begun /\ ended' = ended
  BY DEF authVars, clientVars
<1>2. TypeOK /\ Backed /\ Objects /\ Handles /\ Failures
  BY DEF Core
<1>3. /\ handle \in [Worker -> BOOLEAN] /\ running \in [Worker -> BOOLEAN]
      /\ job \in [OSThread -> Worker] /\ at \in [OSThread -> Stage]
      /\ list \in [Delegate -> Seq(Handler)] /\ todo \in [Thread -> Seq(Op)]
      /\ p \in Thread /\ OSThread \subseteq Thread
  BY <1>2 DEF TypeOK, ThreadTypeOK, Thread
<1>4. term' = term /\ list' = list
  BY DEF ThreadProc, DropHandle, ClearRunning, InvokeComplete, ExitThread
<1>5. /\ \A q \in OSThread \ {p} : at'[q] = at[q] /\ job'[q] = job[q]
      /\ \A t \in Thread \ {p} : todo'[t] = todo[t]
  BY <1>3 DEF ThreadProc, DropHandle, ClearRunning, InvokeComplete, ExitThread
<1>6. \/ at[p] = "left" /\ at'[p] = "unhandled" /\ job'[p] = job[p] /\ todo'[p] = todo[p]
      \/ at[p] = "unhandled" /\ at'[p] = "invoke" /\ job'[p] = job[p] /\ todo'[p] = todo[p]
      \/ at[p] = "invoke" /\ at'[p] = "callbacks" /\ job'[p] = job[p] /\ todo'[p] = list[job[p]]
      \/ at[p] = "callbacks" /\ todo[p] = <<>> /\ at'[p] = "free" /\ todo'[p] = <<>>
  BY <1>3 DEF ThreadProc, DropHandle, ClearRunning, InvokeComplete, ExitThread
<1>7. Backed'
  BY <1>2, BackedThreadProc
<1>8. ThreadTypeOK'
  <2>1. Handler \subseteq Op
    BY ThreadAssumption
  <2>2. list[job[p]] \in Seq(Op)
    <3>1. list[job[p]] \in Seq(Handler)
      BY <1>3 DEF Delegate
    <3> QED
      BY <2>1, <3>1
  <2>3. todo' \in [Thread -> Seq(Op)]
    BY <1>3, <2>2 DEF ThreadProc, DropHandle, ClearRunning, InvokeComplete, ExitThread
  <2>4. /\ handle' \in [Worker -> BOOLEAN] /\ running' \in [Worker -> BOOLEAN]
        /\ job' \in [OSThread -> Worker] /\ at' \in [OSThread -> Stage]
    BY <1>7 DEF Backed, ThreadCore
  <2> QED
    BY <1>2, <1>4, <2>3, <2>4 DEF TypeOK, ThreadTypeOK
<1>9. TypeOK'
  BY <1>1, <1>2, <1>8 DEF TypeOK
<1>10. Objects'
  BY <1>1, <1>2, <1>4, <1>5, <1>6 DEF Objects
<1>11. Handles'
  <2>1. \A q \in OSThread : at'[q] \in InWork => at[q] \in InWork /\ job'[q] = job[q] /\ q # p
    BY <1>5, <1>6 DEF InWork
  <2>2. at[p] \in InWork \/ handle' = handle
    BY DEF ThreadProc, DropHandle, ClearRunning, InvokeComplete, ExitThread, InWork
  <2>3. \A w \in Worker \ {job[p]} : handle'[w] = handle[w]
    BY <1>3 DEF ThreadProc, DropHandle, ClearRunning, InvokeComplete, ExitThread
  <2> QED
    BY <1>2, <1>3, <2>1, <2>2, <2>3 DEF Handles
<1>12. Failures'
  <2>1. \A q \in OSThread : at'[q] \in Round => at[q] \in Round /\ job'[q] = job[q]
    BY <1>5, <1>6 DEF Round
  <2> QED
    BY <1>1, <1>2, <2>1 DEF Failures
<1> QED
  BY <1>1, <1>4, <1>5, <1>6, <1>7, <1>9, <1>10, <1>11, <1>12 DEF Core

(* A step of Work keeps the objects sound.                                 *)
LEMMA WorkCore ==
  ASSUME Core, NEW p \in OSThread, Work(p)
  PROVE  Core'
<1>1. TypeOK /\ Objects /\ Failures
  BY DEF Core
<1>2. loginResult \in BOOLEAN /\ {"LoginThread", "LogoutThread"} \cap AliveObject = {}
  BY <1>1, AuthAssumption DEF TypeOK
<1>3. {"left", "listen", "request"} \subseteq InWork /\ Round \subseteq InWork
  BY DEF InWork, Round
<1>4. CASE LoginWork(p)
  BY <1>1, <1>2, <1>3, <1>4, LoginWorks, LabourCore
<1>5. CASE LogoutReads(p) \/ LogoutSends(p) \/ LogoutClears(p)
  <2>1. PICK s \in InWork : Labours(p, s)
    BY <1>1, <1>3, <1>5, LogoutWorks
  <2> QED
    BY <1>1, <1>2, <1>5, <2>1, LogoutWorks, LabourCore
<1>6. CASE AliveWork(p)
  <2>1. PICK s \in InWork : Labours(p, s)
    BY <1>1, <1>3, <1>6, AliveWorks
  <2>2. at'[p] = s
    BY <1>1, <2>1 DEF Labours, TypeOK, ThreadTypeOK
  <2> QED
    BY <1>1, <1>2, <1>6, <2>1, <2>2, AliveWorks, LabourCore
<1>7. CASE ThreadProc(p) /\ UNCHANGED <<authVars, clientVars>>
  BY <1>7, ProcWorks
<1> QED
  BY <1>4, <1>5, <1>6, <1>7 DEF Work, AliveWork

-----------------------------------------------------------------------------
(* The other steps: what they make of the objects.                         *)

(* A step that only moves an agenda and the dialogs on.                    *)
LEMMA AgendaCore ==
  ASSUME Core, todo' \in [Thread -> Seq(Op)], LoggedIn' \in BOOLEAN,
         screen' \in Screen, screen = "closed" => screen' = "closed",
         logins' \in Nat, begun' \in Nat, ended' \in Nat,
         UNCHANGED <<handle, running, term, job, at, list, AliveThread, SessionData,
                     loginResult, failed, read, created, deleted>>
  PROVE  Core'
<1>1. TypeOK /\ Backed /\ Objects /\ Handles /\ Failures
  BY DEF Core
<1>2. TypeOK'
  BY <1>1 DEF TypeOK, ThreadTypeOK
<1>3. Backed'
  BY <1>1, BackedFrame
<1>4. Objects' /\ Handles' /\ Failures'
  BY <1>1 DEF Objects, Handles, Failures
<1> QED
  BY <1>2, <1>3, <1>4 DEF Core

(* Run creates a thread for an object that has none in its Work.           *)
LEMMA CreateCore ==
  ASSUME Core, NEW t \in Thread, todo[t] # <<>>, NEW op, NEW w,
         w \in {"LoginThread", "LogoutThread"} \cup created,
         w \in AliveObject => failed[w] < MaxFailed,
         \A q \in OSThread : ~(at[q] \in InWork /\ job[q] = w),
         RunCreate(t, op, w), UNCHANGED <<authVars, clientVars>>
  PROVE  /\ Core'
         /\ \E p \in OSThread :
              /\ at[p] = "free" /\ at'[p] = "work" /\ job'[p] = w
              /\ \A q \in OSThread \ {p} : at'[q] = at[q] /\ job'[q] = job[q]
<1>1. /\ LoggedIn' = LoggedIn /\ AliveThread' = AliveThread /\ SessionData' = SessionData
      /\ loginResult' = loginResult /\ failed' = failed /\ read' = read
      /\ created' = created /\ deleted' = deleted
      /\ screen' = screen /\ logins' = logins /\ begun' = begun /\ ended' = ended
  BY DEF authVars, clientVars
<1>2. TypeOK /\ Backed /\ Objects /\ Handles /\ Failures
  BY DEF Core
<1>3. PICK p \in OSThread : p = FreeThread /\ at[p] = "free"
  BY DEF RunCreate, FreeThread
<1>4. /\ at' = [at EXCEPT ![p] = "work"] /\ job' = [job EXCEPT ![p] = w]
      /\ handle' = [handle EXCEPT ![w] = TRUE] /\ term' = term /\ list' = list
      /\ Call(t, <<>>)
  BY <1>3 DEF RunCreate, Return
<1>5. w \in Worker /\ created \subseteq AliveObject
  BY <1>2, AuthAssumption DEF TypeOK
<1>6. at \in [OSThread -> Stage] /\ job \in [OSThread -> Worker] /\ handle \in [Worker -> BOOLEAN]
  BY <1>2 DEF TypeOK, ThreadTypeOK
<1>7. /\ at'[p] = "work" /\ job'[p] = w
      /\ \A q \in OSThread \ {p} : at'[q] = at[q] /\ job'[q] = job[q]
      /\ handle'[w] /\ \A v \in Worker \ {w} : handle'[v] = handle[v]
  BY <1>4, <1>5, <1>6
<1>8. Backed'
  BY <1>2, <1>5, BackedRunCreate
<1>9. TypeOK'
  <2>1. todo' \in [Thread -> Seq(Op)]
    <3>1. <<>> \in Seq(Op) /\ todo \in [Thread -> Seq(Op)]
      BY <1>2 DEF TypeOK, ThreadTypeOK
    <3> QED
      BY <1>4, <3>1, CallType
  <2>2. /\ handle' \in [Worker -> BOOLEAN] /\ running' \in [Worker -> BOOLEAN]
        /\ job' \in [OSThread -> Worker] /\ at' \in [OSThread -> Stage]
    BY <1>8 DEF Backed, ThreadCore
  <2> QED
    BY <1>1, <1>2, <1>4, <2>1, <2>2 DEF TypeOK, ThreadTypeOK
<1>10. Objects'
  BY <1>1, <1>2, <1>4, <1>7 DEF Objects
<1>11. Handles'
  BY <1>2, <1>6, <1>7 DEF Handles
<1>12. Failures'
  BY <1>1, <1>2, <1>7 DEF Failures
<1> QED
  BY <1>3, <1>7, <1>8, <1>9, <1>10, <1>11, <1>12 DEF Core

(* A login that is accepted takes an object not used before.               *)
LEMMA AcceptCore ==
  ASSUME Core, NEW t \in Thread, onLoginThreadComplete(t)
  PROVE  /\ Core'
         /\ UNCHANGED <<term, job, at, screen, begun, ended>>
         /\ LoggedIn' = loginResult
         /\ ~loginResult => /\ Call(t, <<"onLoginComplete">>)
                            /\ UNCHANGED <<AliveThread, list>>
         /\ loginResult => /\ Call(t, <<"RunAlive", "onLoginComplete">>)
                           /\ AliveThread' \in created' \ created
                           /\ list'[AliveThread'] = <<"onAliveThreadComplete">>
                           /\ ~term[AliveThread'] /\ failed'[AliveThread'] = 0
                           /\ \A d \in Delegate \ {AliveThread'} : list'[d] = list[d]
<1>1. TypeOK /\ Backed /\ Objects /\ Handles /\ Failures
  BY DEF Core
<1>2. /\ handle' = handle /\ running' = running /\ term' = term /\ job' = job /\ at' = at
      /\ SessionData' = SessionData /\ loginResult' = loginResult /\ failed' = failed
      /\ read' = read /\ deleted' = deleted
      /\ screen' = screen /\ logins' = logins /\ begun' = begun /\ ended' = ended
      /\ LoggedIn' = loginResult /\ todo[t] # <<>>
  BY DEF onLoginThreadComplete, clientVars, At
<1>3. /\ todo \in [Thread -> Seq(Op)] /\ list \in [Delegate -> Seq(Handler)]
      /\ loginResult \in BOOLEAN /\ created \subseteq AliveObject
  BY <1>1 DEF TypeOK, ThreadTypeOK
<1>4. <<"onLoginComplete">> \in Seq(Op) /\ <<"RunAlive", "onLoginComplete">> \in Seq(Op)
  BY AuthOpsAssumption DEF AuthOp
<1>5. Backed' /\ Handles' /\ Failures'
  BY <1>1, <1>2, BackedFrame DEF Handles, Failures
<1>6. CASE ~loginResult
  <2>1. Call(t, <<"onLoginComplete">>) /\ AliveThread' = AliveThread /\ created' = created /\ list' = list
    BY <1>6 DEF onLoginThreadComplete
  <2>2. todo' \in [Thread -> Seq(Op)]
    BY <1>2, <1>3, <1>4, <2>1, CallType
  <2>3. TypeOK'
    BY <1>1, <1>2, <1>3, <2>1, <2>2 DEF TypeOK, ThreadTypeOK
  <2>4. Objects'
    BY <1>1, <1>2, <2>1 DEF Objects
  <2> QED
    BY <1>2, <1>5, <1>6, <2>1, <2>3, <2>4 DEF Core
<1>7. CASE loginResult
  <2>1. PICK w : w = NextObject
    OBVIOUS
  <2>2. /\ Call(t, <<"RunAlive", "onLoginComplete">>) /\ AliveThread' = w
        /\ created' = created \cup {w} /\ AddHandler(w, "onAliveThreadComplete")
        /\ w \in AliveObject \ created
    BY <1>7, <2>1 DEF onLoginThreadComplete, NextObject
  <2>3. w \in Delegate /\ "onAliveThreadComplete" \in Handler
    BY <2>2, AuthAssumption, AuthOpsAssumption DEF Delegate, AuthHandler
  <2>4. list' \in [Delegate -> Seq(Handler)]
    BY <1>3, <2>2, <2>3, AddHandlerType
  <2>5. /\ list'[w] = <<"onAliveThreadComplete">>
        /\ \A d \in Delegate \ {w} : list'[d] = list[d]
    <3>1. list[w] = <<>>
      BY <1>1, <2>2 DEF Objects
    <3> QED
      BY <1>3, <2>2, <2>3, <3>1 DEF AddHandler
  <2>6. todo' \in [Thread -> Seq(Op)]
    BY <1>2, <1>3, <1>4, <2>2, CallType
  <2>7. TypeOK'
    BY <1>1, <1>2, <1>3, <2>2, <2>4, <2>6 DEF TypeOK, ThreadTypeOK
  <2>8. AliveObject \subseteq Delegate /\ {"LoginThread", "LogoutThread"} \subseteq Delegate
        /\ {"LoginThread", "LogoutThread"} \cap AliveObject = {}
    BY AuthAssumption DEF Delegate
  <2>9. Objects'
    BY <1>1, <1>2, <2>2, <2>5, <2>8 DEF Objects
  <2>10. ~term[w] /\ failed'[w] = 0
    BY <1>1, <1>2, <2>2 DEF Objects
  <2> QED
    BY <1>2, <1>5, <1>7, <2>2, <2>5, <2>7, <2>9, <2>10 DEF Core
<1> QED
  BY <1>3, <1>6, <1>7

(* The session's object is deleted, or its handler or its thread told off. *)
LEMMA DeleteCore ==
  ASSUME Core, todo' \in [Thread -> Seq(Op)], LoggedIn' \in BOOLEAN,
         deleted' = deleted \cup ({AliveThread} \ {"NULL"}), AliveThread' = "NULL",
         AliveThread \in created,
         UNCHANGED <<handle, running, term, job, at, list, SessionData,
                     loginResult, failed, read, created, clientVars>>
  PROVE  Core'
<1>1. TypeOK /\ Backed /\ Objects /\ Handles /\ Failures
  BY DEF Core
<1>2. screen' = screen /\ logins' = logins /\ begun' = begun /\ ended' = ended
  BY DEF clientVars
<1>3. /\ created \subseteq AliveObject /\ AliveObject \subseteq Worker
      /\ {"LoginThread", "LogoutThread", "NULL"} \cap AliveObject = {}
  BY <1>1, AuthAssumption DEF TypeOK
<1>4. TypeOK'
  BY <1>1, <1>2, <1>3 DEF TypeOK, ThreadTypeOK
<1>5. Backed'
  BY <1>1, BackedFrame
<1>6. "NULL" \notin deleted'
  BY <1>1, <1>3 DEF Objects
<1>7. Objects'
  BY <1>1, <1>2, <1>3, <1>6 DEF Objects
<1>8. Handles' /\ Failures'
  BY <1>1 DEF Handles, Failures
<1> QED
  BY <1>4, <1>5, <1>7, <1>8 DEF Core

(* Logout removes the handler, then sets the stop signal.                  *)
LEMMA DismissCore ==
  ASSUME Core, NEW t \in Thread, RemoveAlive(t) \/ SignalAlive(t), AliveThread \in created
  PROVE  Core'
<1>1. TypeOK /\ Backed /\ Objects /\ Handles /\ Failures
  BY DEF Core
<1>2. /\ handle' = handle /\ running' = running /\ job' = job /\ at' = at
      /\ UNCHANGED <<authVars, clientVars>> /\ Call(t, <<>>) /\ todo[t] # <<>>
  BY DEF RemoveAlive, SignalAlive, RemoveHandler, Return, At
<1>3. /\ LoggedIn' = LoggedIn /\ AliveThread' = AliveThread /\ SessionData' = SessionData
      /\ loginResult' = loginResult /\ failed' = failed /\ read' = read
      /\ created' = created /\ deleted' = deleted
      /\ screen' = screen /\ logins' = logins /\ begun' = begun /\ ended' = ended
  BY <1>2 DEF authVars, clientVars
<1>4. /\ AliveThread \in AliveObject /\ AliveThread \in Worker /\ AliveThread \in Delegate
      /\ {"LoginThread", "LogoutThread"} \cap AliveObject = {}
  BY <1>1, AuthAssumption DEF TypeOK, Delegate
<1>5. /\ todo \in [Thread -> Seq(Op)] /\ list \in [Delegate -> Seq(Handler)]
      /\ term \in [Worker -> BOOLEAN]
  BY <1>1 DEF TypeOK, ThreadTypeOK
<1>6. todo' \in [Thread -> Seq(Op)]
  <2>1. <<>> \in Seq(Op)
    OBVIOUS
  <2> QED
    BY <1>2, <1>5, <2>1, CallType
<1>7. /\ list' \in [Delegate -> Seq(Handler)] /\ term' \in [Worker -> BOOLEAN]
      /\ \A w \in Delegate \ {AliveThread} : list'[w] = list[w]
      /\ \A w \in Worker \ {AliveThread} : term'[w] = term[w]
  <2>1. CASE RemoveAlive(t)
    <3>1. RemoveHandler(AliveThread, "onAliveThreadComplete") /\ term' = term
      BY <2>1 DEF RemoveAlive
    <3>2. list' \in [Delegate -> Seq(Handler)]
      BY <1>4, <1>5, <3>1, RemoveHandlerType
    <3> QED
      BY <1>5, <3>1, <3>2 DEF RemoveHandler
  <2>2. CASE SignalAlive(t)
    BY <1>4, <1>5, <2>2 DEF SignalAlive
  <2> QED
    BY <2>1, <2>2
<1>8. TypeOK'
  BY <1>1, <1>2, <1>3, <1>6, <1>7 DEF TypeOK, ThreadTypeOK
<1>9. Backed'
  BY <1>1, <1>2, BackedFrame
<1>10. \A w \in AliveObject : w \in Worker /\ w \in Delegate
  BY AuthAssumption DEF Delegate
<1>11. {"LoginThread", "LogoutThread"} \subseteq Delegate
  BY AuthAssumption DEF Delegate
<1>12. Objects'
  BY <1>1, <1>2, <1>3, <1>4, <1>7, <1>10, <1>11 DEF Objects
<1>13. Handles' /\ Failures'
  BY <1>1, <1>2, <1>3 DEF Handles, Failures
<1> QED
  BY <1>8, <1>9, <1>12, <1>13 DEF Core

-----------------------------------------------------------------------------
(* Whose turn it is.                                                       *)

(* The agendas there are, and what is left of them.                        *)
LEMMA Agendas ==
  /\ \A a : <<a>> # <<>> /\ Head(<<a>>) = a /\ Tail(<<a>>) = <<>>
  /\ \A a, b : <<a, b>> # <<>> /\ Head(<<a, b>>) = a /\ Tail(<<a, b>>) = <<b>>
  /\ \A a, b, c :
       <<a, b, c>> # <<>> /\ Head(<<a, b, c>>) = a /\ Tail(<<a, b, c>>) = <<b, c>>
OBVIOUS

(* The thread whose agenda is not empty is in one of these places.         *)
LEMMA Turn ==
  ASSUME Somewhere, NEW t \in Thread, todo[t] # <<>>
  PROVE  \/ t = "ui" /\ LoginAsked
         \/ t = "ui" /\ \E q \in OSThread : LogoutAsked(q)
         \/ t = "ui" /\ Dismissed
         \/ t = "main" /\ Outside
         \/ /\ t \in OSThread
            /\ \/ LogsIn(t) /\ at[t] = "callbacks"
               \/ Enters(t)
               \/ \E q \in OSThread \ {t} : Entered(t, q)
               \/ Loses(t) /\ at[t] = "callbacks"
               \/ Lost(t)
               \/ LogsOut(t) /\ at[t] = "callbacks"
               \/ Deletes(t)
               \/ LoggedOut(t)
<1>1. t \in OSThread \/ t \in Caller
  BY DEF Thread
<1>2. ASSUME t \in OSThread, AllSpent PROVE FALSE
  BY <1>2 DEF AllSpent, Spent
<1>3. ASSUME t \in OSThread, NEW p \in OSThread, OthersSpent(p) PROVE t = p
  BY <1>3 DEF OthersSpent, Spent
<1>4. ASSUME t \in OSThread, NEW p \in OSThread, OthersLeave(p) PROVE t = p
  BY <1>4 DEF OthersLeave, Leaves, Spent
<1>5. ASSUME t \in Caller, CallersIdle PROVE t = "ui"
  BY <1>5 DEF CallersIdle
<1>6. ASSUME t \in Caller, CallersIdle, UiHas({<<>>}) PROVE FALSE
  BY <1>5, <1>6 DEF UiHas
<1>7. CASE Outside
  <2>1. t \in Caller
    BY <1>1, <1>2, <1>7 DEF Outside
  <2> QED
    BY <1>7, <2>1 DEF Outside, UiHas
<1>8. CASE LoginAsked
  BY <1>1, <1>2, <1>5, <1>8 DEF LoginAsked
<1>9. CASE Dismissed
  <2>1. t \notin OSThread
    BY <1>9 DEF Dismissed, Leaves, Spent
  <2> QED
    BY <1>1, <1>5, <1>9, <2>1 DEF Dismissed
<1>10. ASSUME NEW p \in OSThread, LogsIn(p) PROVE t = p /\ at[t] = "callbacks"
  BY <1>1, <1>3, <1>6, <1>10 DEF LogsIn, Works, Reports
<1>11. ASSUME NEW p \in OSThread, Enters(p) PROVE t = p
  BY <1>1, <1>3, <1>6, <1>11 DEF Enters
<1>12. ASSUME NEW p \in OSThread, NEW q \in OSThread \ {p}, Entered(p, q) PROVE t = p
  BY <1>1, <1>6, <1>12 DEF Entered, KeepsAlive, Spent
<1>13. ASSUME NEW p \in OSThread, Inside(p) PROVE FALSE
  BY <1>1, <1>3, <1>6, <1>13 DEF Inside, KeepsAlive
<1>14. ASSUME NEW p \in OSThread, Loses(p) PROVE t = p /\ at[t] = "callbacks"
  BY <1>1, <1>3, <1>6, <1>14 DEF Loses, Works, Reports
<1>15. ASSUME NEW p \in OSThread, Lost(p) PROVE t = p
  BY <1>1, <1>3, <1>6, <1>15 DEF Lost
<1>16. ASSUME NEW p \in OSThread, LogoutAsked(p) PROVE t = "ui"
  BY <1>1, <1>3, <1>5, <1>16 DEF LogoutAsked, KeepsAlive
<1>17. ASSUME NEW p \in OSThread, LogsOut(p) PROVE t = p /\ at[t] = "callbacks"
  BY <1>1, <1>4, <1>6, <1>17 DEF LogsOut, Works, Reports
<1>18. ASSUME NEW p \in OSThread, Deletes(p) \/ LoggedOut(p) PROVE t = p
  BY <1>1, <1>3, <1>6, <1>18 DEF Deletes, LoggedOut
<1> QED
  BY <1>7, <1>8, <1>9, <1>10, <1>11, <1>12, <1>13, <1>14, <1>15, <1>16, <1>17, <1>18
     DEF Somewhere

(* Whose Work it is.                                                       *)
LEMMA WorkTurn ==
  ASSUME Somewhere, Objects, NEW p \in OSThread, ~Spent(p)
  PROVE  \/ LogsIn(p) \/ Enters(p) \/ Inside(p) \/ Loses(p) \/ Lost(p)
         \/ LogoutAsked(p) \/ LogsOut(p) \/ Deletes(p) \/ LoggedOut(p)
         \/ \E q \in OSThread \ {p} : Entered(p, q) \/ Entered(q, p)
         \/ Dismissed /\ Leaves(p)
         \/ \E r \in OSThread \ {p} : LogsOut(r) /\ Leaves(p)
<1>1. ~AllSpent
  BY DEF AllSpent
<1>2. \A q \in OSThread : OthersSpent(q) => q = p
  BY DEF OthersSpent
<1>3. Dismissed => Leaves(p)
  BY DEF Dismissed
<1>4. \A r \in OSThread \ {p} : LogsOut(r) => Leaves(p)
  BY DEF LogsOut, OthersLeave
<1>5. ~Outside /\ ~LoginAsked
  BY <1>1 DEF Outside, LoginAsked
<1>6. ASSUME NEW q \in OSThread,
             LogsIn(q) \/ Enters(q) \/ Inside(q) \/ Loses(q) \/ Lost(q)
               \/ LogoutAsked(q) \/ Deletes(q) \/ LoggedOut(q)
      PROVE  q = p
  BY <1>2, <1>6 DEF LogsIn, Enters, Inside, Loses, Lost, LogoutAsked, Deletes, LoggedOut
<1>7. ASSUME NEW q \in OSThread, NEW r \in OSThread \ {q}, Entered(q, r) PROVE p \in {q, r}
  BY <1>7 DEF Entered
<1> QED
  BY <1>3, <1>4, <1>5, <1>6, <1>7 DEF Somewhere

-----------------------------------------------------------------------------
(* The steps of ThreadProc: where they lead.                               *)

(* Thread p has moved, and nothing else has.                               *)
Only(p) ==
  /\ \A q \in OSThread \ {p} : at'[q] = at[q] /\ job'[q] = job[q]
  /\ \A t \in Thread \ {p} : todo'[t] = todo[t]
  /\ list' = list /\ term' = term /\ LoggedIn' = LoggedIn /\ AliveThread' = AliveThread
  /\ created' = created /\ screen' = screen /\ begun' = begun /\ ended' = ended

LEMMA OnlyLabours ==
  ASSUME TypeOK, NEW p \in OSThread, NEW s, Labours(p, s)
  PROVE  Only(p) /\ at'[p] = s /\ job'[p] = job[p] /\ todo'[p] = todo[p]
BY DEF TypeOK, ThreadTypeOK, Labours, Only

LEMMA OnlyProc ==
  ASSUME Core, NEW p \in OSThread, ThreadProc(p), UNCHANGED <<authVars, clientVars>>
  PROVE  Only(p)
BY ProcWorks DEF Only

(* What the others were about they still are.                              *)
LEMMA OthersKept ==
  ASSUME NEW p \in OSThread, Only(p)
  PROVE  /\ \A q \in OSThread \ {p} : /\ Spent(q) => Spent(q)'
                                      /\ Leaves(q) => Leaves(q)'
                                      /\ KeepsAlive(q) => KeepsAlive(q)'
         /\ OthersSpent(p) => OthersSpent(p)'
         /\ OthersLeave(p) => OthersLeave(p)'
         /\ CallersIdle => CallersIdle'
         /\ todo'["ui"] = todo["ui"] /\ todo'["main"] = todo["main"]
         /\ NoSession => NoSession'
         /\ (Heard => Heard') /\ (Unheard => Unheard')
<1>1. p \notin Caller /\ {"ui", "main"} \subseteq Caller /\ Caller \subseteq Thread /\ OSThread \subseteq Thread
  BY ThreadAssumption, AuthAssumption DEF Thread
<1>2. /\ \A c \in Caller : todo'[c] = todo[c]
      /\ \A q \in OSThread \ {p} : at'[q] = at[q] /\ job'[q] = job[q] /\ todo'[q] = todo[q]
      /\ list' = list /\ term' = term /\ LoggedIn' = LoggedIn /\ AliveThread' = AliveThread
      /\ created' = created /\ begun' = begun /\ ended' = ended
  BY <1>1 DEF Only
<1>3. NoSession => NoSession'
  BY <1>2 DEF NoSession
<1>4. (Heard => Heard') /\ (Unheard => Unheard')
  BY <1>2 DEF Heard, Unheard, AliveSet
<1>5. \A q \in OSThread \ {p} : /\ Spent(q) => Spent(q)'
                                /\ Leaves(q) => Leaves(q)'
                                /\ KeepsAlive(q) => KeepsAlive(q)'
  BY <1>2, <1>4 DEF Spent, Leaves, KeepsAlive
<1>6. (OthersSpent(p) => OthersSpent(p)') /\ (OthersLeave(p) => OthersLeave(p)')
  BY <1>5 DEF OthersSpent, OthersLeave
<1>7. CallersIdle => CallersIdle'
  BY <1>2 DEF CallersIdle
<1> QED
  BY <1>1, <1>2, <1>3, <1>4, <1>5, <1>6, <1>7

(* A thread with nothing more to do moves on to its end.                   *)
LEMMA SpentMoves ==
  ASSUME Core, Somewhere, NEW p \in OSThread, Spent(p), Work(p)
  PROVE  Somewhere'
<1>1. TypeOK /\ Objects
  BY DEF Core
<1>2. ThreadProc(p) /\ UNCHANGED <<authVars, clientVars>>
  BY DEF Spent, Work, LoginWork, AliveStarts, AliveChecks, AliveReads, AliveSends,
         AliveAnswered, AliveFails, LogoutReads, LogoutSends, LogoutClears
<1>3. Only(p) /\ failed' = failed
  BY <1>2, OnlyProc DEF authVars
<1>4. Spent(p)'
  BY <1>2, <1>3, ProcWorks DEF Spent, Only
<1>5. todo'[p] = todo[p]
  BY <1>4 DEF Spent
<1>6. /\ \A q \in OSThread : (Spent(q) => Spent(q)') /\ (Leaves(q) => Leaves(q)')
      /\ AllSpent => AllSpent'
      /\ \A q \in OSThread : OthersSpent(q) => OthersSpent(q)'
      /\ \A q \in OSThread : OthersLeave(q) => OthersLeave(q)'
  <2>1. \A q \in OSThread : (Spent(q) => Spent(q)') /\ (Leaves(q) => Leaves(q)')
    BY <1>3, <1>4, OthersKept DEF Leaves
  <2> QED
    BY <2>1 DEF AllSpent, OthersSpent, OthersLeave
<1>7. /\ CallersIdle => CallersIdle'
      /\ todo'["ui"] = todo["ui"] /\ todo'["main"] = todo["main"]
      /\ NoSession => NoSession'
      /\ (Heard => Heard') /\ (Unheard => Unheard')
      /\ \A q \in OSThread \ {p} : KeepsAlive(q) => KeepsAlive(q)'
  BY <1>3, OthersKept
<1>8. \A q \in OSThread \ {p} : at'[q] = at[q] /\ job'[q] = job[q] /\ todo'[q] = todo[q]
  BY <1>3 DEF Only, Thread
<1>9. /\ term' = term /\ LoggedIn' = LoggedIn /\ AliveThread' = AliveThread
      /\ screen' = screen /\ begun' = begun /\ ended' = ended /\ list' = list
      /\ \A c \in Caller : todo'[c] = todo[c]
  BY <1>3, ThreadAssumption DEF Only, Thread
<1>10. CASE Outside
  BY <1>6, <1>7, <1>9, <1>10 DEF Outside, Somewhere, UiHas
<1>11. CASE LoginAsked
  BY <1>6, <1>7, <1>9, <1>11 DEF LoginAsked, Somewhere, UiHas
<1>12. CASE Dismissed
  BY <1>6, <1>7, <1>9, <1>12 DEF Dismissed, Somewhere, UiHas
<1>13. ASSUME NEW q \in OSThread, LogsIn(q) PROVE Somewhere'
  <2>1. q # p
    BY <1>1, <1>13 DEF LogsIn, Spent, Works, Reports, Objects
  <2>2. LogsIn(q)'
    BY <1>6, <1>7, <1>8, <1>9, <1>13, <2>1 DEF LogsIn, UiHas, Works, Reports
  <2> QED
    BY <2>2 DEF Somewhere
<1>14. ASSUME NEW q \in OSThread, Enters(q) PROVE Somewhere'
  <2>1. q # p
    BY <1>14 DEF Enters, Spent, Reports
  <2>2. Enters(q)'
    BY <1>3, <1>6, <1>7, <1>8, <1>9, <1>14, <2>1 DEF Enters, UiHas, Reports
  <2> QED
    BY <2>2 DEF Somewhere
<1>15. ASSUME NEW q \in OSThread, NEW r \in OSThread \ {q}, Entered(q, r) PROVE Somewhere'
  <2>1. q # p
    BY <1>15 DEF Entered, Spent, Reports
  <2>2. r # p
    BY <1>15 DEF Entered, Spent, KeepsAlive, Round
  <2>3. \A o \in OSThread \ {q, r} : Spent(o)'
    BY <1>6, <1>15 DEF Entered
  <2>4. KeepsAlive(r)'
    BY <1>7, <1>15, <2>2 DEF Entered
  <2>5. UiHas({<<>>})' /\ CallersIdle' /\ Reports(q, "LoginThread", {<<"onLoginComplete">>})'
    BY <1>7, <1>8, <1>15, <2>1 DEF Entered, UiHas, Reports
  <2>6. screen' = "busy" /\ begun' = ended' /\ LoggedIn'
    BY <1>9, <1>15 DEF Entered
  <2>7. Entered(q, r)'
    BY <2>3, <2>4, <2>5, <2>6 DEF Entered
  <2> QED
    BY <2>7 DEF Somewhere
<1>16. ASSUME NEW q \in OSThread, Inside(q) \/ LogoutAsked(q) PROVE Somewhere'
  <2>1. q # p
    BY <1>16 DEF Inside, LogoutAsked, Spent, KeepsAlive, Round
  <2>2. Inside(q)' \/ LogoutAsked(q)'
    BY <1>6, <1>7, <1>9, <1>16, <2>1 DEF Inside, LogoutAsked, UiHas
  <2> QED
    BY <2>2 DEF Somewhere
<1>17. ASSUME NEW q \in OSThread, Loses(q) PROVE Somewhere'
  <2>1. q # p
    BY <1>17 DEF Loses, Heard, Spent, Works, Reports
  <2>2. Loses(q)'
    BY <1>6, <1>7, <1>8, <1>9, <1>17, <2>1 DEF Loses, UiHas, Works, Reports
  <2> QED
    BY <2>2 DEF Somewhere
<1>18. ASSUME NEW q \in OSThread, Lost(q) PROVE Somewhere'
  <2>1. q # p
    BY <1>18 DEF Lost, Spent
  <2>2. Lost(q)'
    BY <1>6, <1>7, <1>8, <1>9, <1>18, <2>1 DEF Lost, UiHas
  <2> QED
    BY <2>2 DEF Somewhere
<1>19. ASSUME NEW q \in OSThread, LogsOut(q) PROVE Somewhere'
  <2>1. q # p
    BY <1>1, <1>19 DEF LogsOut, Spent, Works, Reports, Objects
  <2>2. LogsOut(q)'
    BY <1>6, <1>7, <1>8, <1>9, <1>19, <2>1 DEF LogsOut, UiHas, Works, Reports
  <2> QED
    BY <2>2 DEF Somewhere
<1>20. ASSUME NEW q \in OSThread, Deletes(q) \/ LoggedOut(q) PROVE Somewhere'
  <2>1. q # p
    BY <1>20 DEF Deletes, LoggedOut, Spent, Reports
  <2>2. Deletes(q)' \/ LoggedOut(q)'
    BY <1>6, <1>7, <1>8, <1>9, <1>20, <2>1 DEF Deletes, LoggedOut, UiHas, Reports
  <2> QED
    BY <2>2 DEF Somewhere
<1> QED
  BY <1>10, <1>11, <1>12, <1>13, <1>14, <1>15, <1>16, <1>17, <1>18, <1>19, <1>20
     DEF Somewhere

(* The login thread works, and then reports.                               *)
LEMMA LoginMoves ==
  ASSUME Core, NEW p \in OSThread, LogsIn(p), Work(p)
  PROVE  LogsIn(p)'
<1>1. TypeOK /\ Objects
  BY DEF Core
<1>2. /\ job[p] = "LoginThread" /\ OthersSpent(p) /\ CallersIdle /\ NoSession
      /\ UiHas({<<>>}) /\ screen = "busy"
      /\ \/ todo[p] = <<>> /\ at[p] \in {"work", "left", "unhandled", "invoke"}
         \/ todo[p] # <<>> /\ at[p] = "callbacks"
  BY DEF LogsIn, Works, Reports
<1>3. job[p] \notin AliveObject /\ job[p] # "LogoutThread"
  BY <1>2, AuthAssumption
<1>4. LoginWork(p) \/ (ThreadProc(p) /\ UNCHANGED <<authVars, clientVars>>)
  BY <1>3 DEF Work, AliveStarts, AliveChecks, AliveReads, AliveSends,
              AliveAnswered, AliveFails, LogoutReads, LogoutSends, LogoutClears
<1>5. /\ Only(p) /\ job'[p] = job[p]
      /\ \/ at'[p] \in {"left", "unhandled", "invoke"} /\ todo'[p] = <<>>
         \/ at'[p] = "callbacks" /\ todo'[p] = <<"onLoginThreadComplete">>
  <2>1. CASE LoginWork(p)
    BY <1>1, <1>2, <2>1, LoginWorks, OnlyLabours
  <2>2. CASE ThreadProc(p) /\ UNCHANGED <<authVars, clientVars>>
    <3>1. Only(p)
      BY <2>2, OnlyProc
    <3> QED
      BY <1>1, <1>2, <2>2, <3>1, ProcWorks DEF Objects
  <2> QED
    BY <1>4, <2>1, <2>2
<1>6. OthersSpent(p)' /\ CallersIdle' /\ NoSession' /\ todo'["ui"] = todo["ui"]
  BY <1>2, <1>5, OthersKept
<1>7. screen' = "busy"
  BY <1>2, <1>5 DEF Only
<1> QED
  BY <1>2, <1>5, <1>6, <1>7 DEF LogsIn, Works, Reports, UiHas

(* A round of the alive thread ends in another, or ends the session, which *)
(* it does not in the middle of a login or a logout.                       *)
LEMMA AliveMoves ==
  ASSUME Core, NEW q \in OSThread, KeepsAlive(q), Work(q)
  PROVE  /\ Only(q)
         /\ \/ KeepsAlive(q)'
            \/ /\ Calm => Established
               /\ Works(q, AliveThread, {"left", "unhandled", "invoke"})' /\ Heard'
<1>1. TypeOK /\ Objects /\ Failures
  BY DEF Core
<1>2. job[q] = AliveThread /\ todo[q] = <<>> /\ at[q] \in Round /\ Heard /\ ~term[AliveThread]
  BY DEF KeepsAlive
<1>3. job[q] \in AliveObject
  BY <1>1, <1>2 DEF Heard, AliveSet, TypeOK
<1>4. AliveWork(q)
  <2>1. job[q] # "LoginThread" /\ job[q] # "LogoutThread"
    BY <1>3, AuthAssumption
  <2>2. ~ThreadProc(q)
    BY <1>2 DEF ThreadProc, DropHandle, ClearRunning, InvokeComplete, ExitThread, Round
  <2> QED
    BY <2>1, <2>2 DEF Work, AliveWork, LoginWork, LogoutReads, LogoutSends, LogoutClears
<1>5. PICK s : /\ Labours(q, s)
               /\ s \in Round \/ (s = "left" /\ (Calm => Established))
  BY <1>1, <1>2, <1>4, AliveWorks
<1>6. Only(q) /\ at'[q] = s /\ job'[q] = job[q] /\ todo'[q] = todo[q]
  BY <1>1, <1>5, OnlyLabours
<1>7. Heard' /\ AliveThread' = AliveThread /\ term' = term
  BY <1>2, <1>6, OthersKept DEF Only
<1>8. job'[q] = AliveThread' /\ todo'[q] = <<>> /\ ~term'[AliveThread']
  BY <1>2, <1>6, <1>7
<1>9. CASE s \in Round
  <2>1. KeepsAlive(q)'
    BY <1>6, <1>7, <1>8, <1>9 DEF KeepsAlive
  <2> QED
    BY <1>6, <2>1
<1>10. CASE s = "left" /\ (Calm => Established)
  <2>1. Works(q, AliveThread, {"left", "unhandled", "invoke"})'
    BY <1>6, <1>8, <1>10 DEF Works
  <2> QED
    BY <1>6, <1>7, <1>10, <2>1
<1> QED
  BY <1>5, <1>9, <1>10

(* The alive thread of a session that is being ended moves on.             *)
LEMMA LeavingMoves ==
  ASSUME Core, Unheard, NEW q \in OSThread, Leaves(q), ~Spent(q), Work(q)
  PROVE  Only(q) /\ Leaves(q)'
<1>1. TypeOK /\ Objects /\ Failures
  BY DEF Core
<1>2. job[q] = AliveThread /\ todo[q] = <<>> /\ at[q] \in InWork
  BY DEF Leaves
<1>3. job[q] \in AliveObject
  BY <1>1, <1>2 DEF Unheard, AliveSet, TypeOK
<1>4. AliveWork(q) \/ (ThreadProc(q) /\ UNCHANGED <<authVars, clientVars>>)
  <2>1. job[q] # "LoginThread" /\ job[q] # "LogoutThread"
    BY <1>3, AuthAssumption
  <2> QED
    BY <2>1 DEF Work, AliveWork, LoginWork, LogoutReads, LogoutSends, LogoutClears
<1>5. CASE AliveWork(q)
  <2>1. PICK s \in InWork : Labours(q, s)
    BY <1>1, <1>5, AliveWorks DEF Round, InWork
  <2>2. Only(q) /\ at'[q] = s /\ job'[q] = job[q] /\ todo'[q] = todo[q]
    BY <1>1, <2>1, OnlyLabours
  <2> QED
    BY <1>2, <2>2 DEF Leaves, Only
<1>6. CASE ThreadProc(q) /\ UNCHANGED <<authVars, clientVars>>
  <2>1. Only(q) /\ at'[q] = "unhandled" /\ job'[q] = job[q] /\ todo'[q] = todo[q]
    BY <1>2, <1>6, OnlyProc, ProcWorks DEF InWork
  <2>2. list'[job'[q]] = <<>>
    BY <1>2, <2>1 DEF Unheard, Only
  <2> QED
    BY <1>2, <2>1, <2>2 DEF Leaves, Spent
<1> QED
  BY <1>4, <1>5, <1>6

(* The alive thread that has lost the session reports it.                  *)
LEMMA LosesMoves ==
  ASSUME Core, NEW q \in OSThread, Loses(q), Work(q)
  PROVE  Loses(q)'
<1>1. TypeOK
  BY DEF Core
<1>2. /\ job[q] = AliveThread /\ OthersSpent(q) /\ CallersIdle /\ LoggedIn /\ Heard
      /\ UiHas({<<>>}) /\ screen = "main" /\ begun = ended + 1
      /\ \/ todo[q] = <<>> /\ at[q] \in {"left", "unhandled", "invoke"}
         \/ todo[q] # <<>> /\ at[q] = "callbacks"
  BY DEF Loses, Works, Reports
<1>3. ThreadProc(q) /\ UNCHANGED <<authVars, clientVars>>
  BY <1>2 DEF Work, LoginWork, AliveStarts, AliveChecks, AliveReads, AliveSends,
              AliveAnswered, AliveFails, LogoutReads, LogoutSends, LogoutClears
<1>4. Only(q)
  BY <1>3, OnlyProc
<1>5. /\ job'[q] = job[q]
      /\ \/ at'[q] \in {"unhandled", "invoke"} /\ todo'[q] = <<>>
         \/ at'[q] = "callbacks" /\ todo'[q] = <<"onAliveThreadComplete">>
  BY <1>2, <1>3, ProcWorks DEF Heard
<1>6. OthersSpent(q)' /\ CallersIdle' /\ Heard' /\ todo'["ui"] = todo["ui"]
  BY <1>2, <1>4, OthersKept
<1>7. /\ screen' = screen /\ LoggedIn' = LoggedIn /\ begun' = begun /\ ended' = ended
      /\ AliveThread' = AliveThread
  BY <1>4 DEF Only
<1> QED
  BY <1>2, <1>5, <1>6, <1>7 DEF Loses, Works, Reports, UiHas

(* The logout thread works, and then reports.                              *)
LEMMA LogoutMoves ==
  ASSUME Core, NEW r \in OSThread, LogsOut(r), Work(r)
  PROVE  LogsOut(r)'
<1>1. TypeOK /\ Objects
  BY DEF Core
<1>2. /\ job[r] = "LogoutThread" /\ OthersLeave(r) /\ CallersIdle /\ Unheard
      /\ UiHas({<<>>}) /\ screen = "leaving" /\ begun = ended + 1
      /\ \/ /\ todo[r] = <<>>
            /\ at[r] \in {"work", "listen", "request", "left", "unhandled", "invoke"}
         \/ todo[r] # <<>> /\ at[r] = "callbacks"
  BY DEF LogsOut, Works, Reports
<1>3. job[r] \notin AliveObject /\ job[r] # "LoginThread"
  BY <1>2, AuthAssumption
<1>4. \/ LogoutReads(r) \/ LogoutSends(r) \/ LogoutClears(r)
      \/ (ThreadProc(r) /\ UNCHANGED <<authVars, clientVars>>)
  BY <1>3 DEF Work, LoginWork, AliveStarts, AliveChecks, AliveReads, AliveSends,
              AliveAnswered, AliveFails
<1>5. /\ Only(r) /\ job'[r] = job[r]
      /\ \/ at'[r] \in {"listen", "request", "left", "unhandled", "invoke"} /\ todo'[r] = <<>>
         \/ at'[r] = "callbacks" /\ todo'[r] = <<"onLogoutThreadComplete">>
  <2>1. CASE LogoutReads(r) \/ LogoutSends(r) \/ LogoutClears(r)
    <3>1. /\ at[r] \in {"work", "listen", "request"}
          /\ Labours(r, "listen") \/ Labours(r, "request") \/ Labours(r, "left")
      BY <1>1, <2>1, LogoutWorks
    <3> QED
      BY <1>1, <1>2, <3>1, OnlyLabours
  <2>2. CASE ThreadProc(r) /\ UNCHANGED <<authVars, clientVars>>
    <3>1. Only(r)
      BY <2>2, OnlyProc
    <3> QED
      BY <1>1, <1>2, <2>2, <3>1, ProcWorks DEF Objects
  <2> QED
    BY <1>4, <2>1, <2>2
<1>6. OthersLeave(r)' /\ CallersIdle' /\ Unheard' /\ todo'["ui"] = todo["ui"]
  BY <1>2, <1>5, OthersKept
<1>7. screen' = screen /\ begun' = begun /\ ended' = ended
  BY <1>5 DEF Only
<1> QED
  BY <1>2, <1>5, <1>6, <1>7 DEF LogsOut, Works, Reports, UiHas

(* Whatever thread moves, Auth is somewhere.                               *)
LEMMA WorkSomewhere ==
  ASSUME Calm, Core, Somewhere, NEW p \in OSThread, Work(p)
  PROVE  Somewhere'
<1>1. TypeOK /\ Objects
  BY DEF Core
<1>2. CASE Spent(p)
  BY <1>2, SpentMoves
<1>3. CASE LogsIn(p)
  BY <1>3, LoginMoves DEF Somewhere
<1>4. CASE Loses(p)
  BY <1>4, LosesMoves DEF Somewhere
<1>5. CASE LogsOut(p)
  BY <1>5, LogoutMoves DEF Somewhere
<1>6. ASSUME at[p] = "callbacks", todo[p] # <<>> PROVE FALSE
  BY <1>6 DEF Work, LoginWork, AliveStarts, AliveChecks, AliveReads, AliveSends, AliveAnswered,
         AliveFails, LogoutReads, LogoutSends, LogoutClears,
         ThreadProc, DropHandle, ClearRunning, InvokeComplete, ExitThread
<1>7. ~Enters(p) /\ ~Lost(p) /\ ~Deletes(p) /\ ~LoggedOut(p) /\ \A q \in OSThread \ {p} : ~Entered(p, q)
  BY <1>6 DEF Enters, Lost, Deletes, LoggedOut, Entered, Reports
<1>8. CASE Inside(p)
  <2>1. /\ KeepsAlive(p) /\ OthersSpent(p) /\ CallersIdle /\ LoggedIn /\ UiHas({<<>>})
        /\ screen = "main" /\ begun = ended + 1
    BY <1>8 DEF Inside
  <2>2. /\ Only(p)
        /\ KeepsAlive(p)' \/ (Works(p, AliveThread, {"left", "unhandled", "invoke"})' /\ Heard')
    BY <2>1, AliveMoves
  <2>3. OthersSpent(p)' /\ CallersIdle' /\ todo'["ui"] = todo["ui"]
    BY <2>1, <2>2, OthersKept
  <2>4. screen' = screen /\ LoggedIn' = LoggedIn /\ begun' = begun /\ ended' = ended
    BY <2>2 DEF Only
  <2>5. Inside(p)' \/ Loses(p)'
    BY <2>1, <2>2, <2>3, <2>4 DEF Inside, Loses, UiHas
  <2> QED
    BY <2>5 DEF Somewhere
<1>9. CASE LogoutAsked(p)
  <2>1. /\ KeepsAlive(p) /\ OthersSpent(p) /\ CallersIdle /\ LoggedIn
        /\ todo["ui"] = <<"RemoveAlive", "SignalAlive", "RunLogout">>
        /\ screen = "leaving" /\ begun = ended + 1
    BY <1>9 DEF LogoutAsked, UiHas
  <2>2. ~Established
    BY <2>1 DEF Established
  <2>3. Only(p) /\ KeepsAlive(p)'
    BY <2>1, <2>2, AliveMoves
  <2>4. OthersSpent(p)' /\ CallersIdle' /\ todo'["ui"] = todo["ui"]
    BY <2>1, <2>3, OthersKept
  <2>5. screen' = screen /\ LoggedIn' = LoggedIn /\ begun' = begun /\ ended' = ended
    BY <2>3 DEF Only
  <2>6. LogoutAsked(p)'
    BY <2>1, <2>3, <2>4, <2>5 DEF LogoutAsked, UiHas
  <2> QED
    BY <2>6 DEF Somewhere
<1>10. ASSUME NEW q \in OSThread \ {p}, Entered(q, p) PROVE Somewhere'
  <2>1. /\ KeepsAlive(p) /\ CallersIdle /\ LoggedIn /\ UiHas({<<>>})
        /\ Reports(q, "LoginThread", {<<"onLoginComplete">>})
        /\ \A o \in OSThread \ {p, q} : Spent(o)
        /\ screen = "busy" /\ begun = ended
    BY <1>10 DEF Entered
  <2>2. ~Established
    <3>1. todo[q] = <<"onLoginComplete">> /\ q \in Thread
      BY <2>1 DEF Reports, Thread
    <3>2. "onLoginComplete" \in Range(todo[q])
      BY <3>1 DEF Range
    <3> QED
      BY <3>1, <3>2 DEF Established
  <2>3. Only(p) /\ KeepsAlive(p)'
    BY <2>1, <2>2, AliveMoves
  <2>4. /\ CallersIdle' /\ todo'["ui"] = todo["ui"]
        /\ \A o \in OSThread \ {p, q} : Spent(o)'
    BY <2>1, <2>3, OthersKept
  <2>5. screen' = screen /\ LoggedIn' = LoggedIn /\ begun' = begun /\ ended' = ended
    BY <2>3 DEF Only
  <2>6. at'[q] = at[q] /\ job'[q] = job[q] /\ todo'[q] = todo[q]
    BY <2>3 DEF Only, Thread
  <2>7. Entered(q, p)'
    BY <2>1, <2>3, <2>4, <2>5, <2>6 DEF Entered, UiHas, Reports
  <2> QED
    BY <2>7 DEF Somewhere
<1>11. CASE Dismissed /\ Leaves(p) /\ ~Spent(p)
  <2>1. /\ screen = "leaving" /\ begun = ended + 1 /\ LoggedIn /\ CallersIdle /\ Unheard
        /\ todo["ui"] \in {<<"SignalAlive", "RunLogout">>, <<"RunLogout">>, <<"CreateLogout">>}
        /\ \A q \in OSThread : Leaves(q)
    BY <1>11 DEF Dismissed, UiHas
  <2>2. Only(p) /\ Leaves(p)'
    BY <1>11, <2>1, LeavingMoves
  <2>3. /\ CallersIdle' /\ Unheard' /\ todo'["ui"] = todo["ui"]
        /\ \A q \in OSThread : Leaves(q)'
    BY <2>1, <2>2, OthersKept
  <2>4. screen' = screen /\ LoggedIn' = LoggedIn /\ begun' = begun /\ ended' = ended
    BY <2>2 DEF Only
  <2>5. Dismissed'
    BY <2>1, <2>3, <2>4 DEF Dismissed, UiHas
  <2> QED
    BY <2>5 DEF Somewhere
<1>12. ASSUME NEW r \in OSThread \ {p}, LogsOut(r), Leaves(p), ~Spent(p) PROVE Somewhere'
  <2>1. /\ screen = "leaving" /\ begun = ended + 1 /\ CallersIdle /\ Unheard
        /\ UiHas({<<>>}) /\ \A q \in OSThread \ {r} : Leaves(q)
    BY <1>12 DEF LogsOut, OthersLeave
  <2>2. Only(p) /\ Leaves(p)'
    BY <1>12, <2>1, LeavingMoves
  <2>3. /\ CallersIdle' /\ Unheard' /\ todo'["ui"] = todo["ui"]
        /\ OthersLeave(r)'
    BY <2>1, <2>2, OthersKept DEF OthersLeave
  <2>4. screen' = screen /\ LoggedIn' = LoggedIn /\ begun' = begun /\ ended' = ended
    BY <2>2 DEF Only
  <2>5. at'[r] = at[r] /\ job'[r] = job[r] /\ todo'[r] = todo[r]
    BY <2>2 DEF Only, Thread
  <2>6. LogsOut(r)'
    BY <1>12, <2>1, <2>3, <2>4, <2>5 DEF LogsOut, UiHas, Works, Reports
  <2> QED
    BY <2>6 DEF Somewhere
<1> QED
  BY <1>1, <1>2, <1>3, <1>4, <1>5, <1>7, <1>8, <1>9, <1>10, <1>11, <1>12, WorkTurn

-----------------------------------------------------------------------------
(* The steps of Auth and of its client: where they lead.                   *)

(* An agenda is a sequence of one to three operations.                     *)
LEMMA Calls ==
  ASSUME TypeOK, NEW t \in Thread, NEW ops \in Seq(AuthOp), Call(t, ops), todo[t] # <<>>
  PROVE  /\ todo' \in [Thread -> Seq(Op)]
         /\ \A u \in Thread \ {t} : todo'[u] = todo[u]
         /\ \A a : todo[t] = <<a>> => todo'[t] = ops
         /\ \A a, b, c \in AuthOp :
              todo[t] = <<a, b>> => /\ ops = <<>> => todo'[t] = <<b>>
                                    /\ ops = <<c>> => todo'[t] = <<c, b>>
         /\ \A a, b, c, d \in AuthOp :
              todo[t] = <<a, b, c>> => /\ ops = <<>> => todo'[t] = <<b, c>>
                                       /\ ops = <<d>> => todo'[t] = <<d, b, c>>
<1>1. todo \in [Thread -> Seq(Op)]
  BY DEF TypeOK, ThreadTypeOK
<1>2. ops \in Seq(Op)
  BY AuthOpsAssumption
<1>3. todo' \in [Thread -> Seq(Op)]
  BY <1>1, <1>2, CallType
<1>4. todo'[t] = ops \o Tail(todo[t]) /\ \A u \in Thread \ {t} : todo'[u] = todo[u]
  BY <1>1 DEF Call
<1>5. ASSUME NEW a, todo[t] = <<a>> PROVE todo'[t] = ops
  <2>1. Tail(todo[t]) = <<>>
    BY <1>5, Agendas
  <2> QED
    BY <1>4, <2>1, Concats
<1>6. ASSUME NEW a \in AuthOp, NEW b \in AuthOp, NEW c \in AuthOp, todo[t] = <<a, b>>
      PROVE  /\ ops = <<>> => todo'[t] = <<b>>
             /\ ops = <<c>> => todo'[t] = <<c, b>>
  <2>1. Tail(todo[t]) = <<b>> /\ <<b>> \in Seq(AuthOp)
    BY <1>6, Agendas
  <2>2. <<>> \o <<b>> = <<b>> /\ <<c>> \o <<b>> = <<c, b>>
    BY <2>1, Concats
  <2> QED
    BY <1>4, <2>1, <2>2
<1>7. ASSUME NEW a \in AuthOp, NEW b \in AuthOp, NEW c \in AuthOp, NEW d \in AuthOp,
             todo[t] = <<a, b, c>>
      PROVE  /\ ops = <<>> => todo'[t] = <<b, c>>
             /\ ops = <<d>> => todo'[t] = <<d, b, c>>
  <2>1. Tail(todo[t]) = <<b, c>> /\ <<b, c>> \in Seq(AuthOp)
    BY <1>7, Agendas
  <2>2. <<>> \o <<b, c>> = <<b, c>> /\ <<d>> \o <<b, c>> = <<d, b, c>>
    BY <2>1, Concats
  <2> QED
    BY <1>4, <2>1, <2>2
<1> QED
  BY <1>3, <1>4, <1>5, <1>6, <1>7

(* What thread t does with its agenda leaves the others as they are.       *)
LEMMA AgendaKept ==
  ASSUME NEW t \in Thread, \A u \in Thread \ {t} : todo'[u] = todo[u],
         at' = at, job' = job,
         \A q \in OSThread : at[q] = "free" \/ list'[job[q]] \in {list[job[q]], <<>>}
  PROVE  /\ \A q \in OSThread \ {t} : Spent(q) => Spent(q)'
         /\ OthersSpent(t) => OthersSpent(t)'
         /\ t \in Caller /\ AllSpent => AllSpent'
         /\ OthersLeave(t) /\ AliveThread' = AliveThread => OthersLeave(t)'
         /\ t \in OSThread \cup {"ui"} /\ CallersIdle => CallersIdle'
         /\ t \in OSThread => todo'["ui"] = todo["ui"] /\ todo'["main"] = todo["main"]
<1>1. /\ OSThread \subseteq Thread /\ Caller \subseteq Thread /\ OSThread \cap Caller = {}
      /\ {"ui", "main"} \subseteq Caller
  BY ThreadAssumption, AuthAssumption DEF Thread
<1>2. \A q \in OSThread \ {t} : Spent(q) => Spent(q)'
  BY <1>1 DEF Spent
<1>3. AliveThread' = AliveThread => \A q \in OSThread \ {t} : Leaves(q) => Leaves(q)'
  BY <1>1, <1>2 DEF Leaves
<1>4. t \in OSThread \cup {"ui"} /\ CallersIdle => CallersIdle'
  BY <1>1 DEF CallersIdle
<1> QED
  BY <1>1, <1>2, <1>3, <1>4 DEF OthersSpent, AllSpent, OthersLeave

(* A handle stands for a thread in Work.                                   *)
LEMMA NoHandle ==
  ASSUME Core, NEW w \in Worker, \A q \in OSThread : ~(at[q] \in InWork /\ job[q] = w)
  PROVE  handle[w] = FALSE
BY DEF Core, Backed, ThreadCore, ThreadBacked

(* The only operation of an agenda is done and calls ops.                  *)
LEMMA Replaces ==
  ASSUME TypeOK, NEW t \in Thread, NEW ops \in Seq(AuthOp), Call(t, ops),
         NEW a, todo[t] = <<a>>
  PROVE  /\ todo' \in [Thread -> Seq(Op)] /\ todo'[t] = ops
         /\ \A u \in Thread \ {t} : todo'[u] = todo[u]
<1>1. todo[t] # <<>> /\ Tail(todo[t]) = <<>>
  BY Agendas
<1>2. todo'[t] = ops \o <<>> /\ \A u \in Thread \ {t} : todo'[u] = todo[u]
  BY <1>1 DEF Call, TypeOK, ThreadTypeOK
<1>3. ops \o <<>> = ops
  BY Concats
<1>4. todo' \in [Thread -> Seq(Op)]
  BY <1>1, Calls
<1> QED
  BY <1>2, <1>3, <1>4

LEMMA SpentIdle == \A q \in OSThread : Spent(q) => at[q] \notin InWork
BY DEF Spent, InWork

-----------------------------------------------------------------------------
(* Login.                                                                  *)

LEMMA RunLoginInv ==
  ASSUME AuthInv, NEW t \in Thread, RunLogin(t)
  PROVE  AuthInv'
<1>1. Core /\ TypeOK /\ Somewhere
  BY DEF AuthInv, Core
<1>2. /\ todo[t] # <<>> /\ Head(todo[t]) = "RunLogin"
      /\ Call(t, IF handle["LoginThread"] THEN <<>> ELSE <<"CreateLogin">>)
      /\ UNCHANGED <<handle, running, term, job, at, list, authVars, clientVars>>
  BY DEF RunLogin, RunCheck, At
<1>3. t = "ui" /\ LoginAsked /\ todo[t] = <<"RunLogin">>
  BY <1>1, <1>2, Turn, Agendas
     DEF LoginAsked, LogoutAsked, Dismissed, Outside, LogsIn, Enters, Entered, Loses, Lost,
         LogsOut, Deletes, LoggedOut, UiHas, Works, Reports
<1>4. /\ screen = "busy" /\ NoSession /\ CallersIdle /\ AllSpent
  BY <1>3 DEF LoginAsked
<1>5. ~handle["LoginThread"]
  BY <1>1, <1>4, NoHandle, SpentIdle, AuthAssumption DEF AllSpent
<1>6. Call(t, <<"CreateLogin">>) /\ <<"CreateLogin">> \in Seq(AuthOp)
  BY <1>2, <1>5 DEF AuthOp
<1>7. /\ todo' \in [Thread -> Seq(Op)] /\ todo'[t] = <<"CreateLogin">>
      /\ \A u \in Thread \ {t} : todo'[u] = todo[u]
  BY <1>1, <1>3, <1>6, Replaces
<1>8. /\ UNCHANGED <<LoggedIn, AliveThread, SessionData, loginResult, failed, read, created, deleted>>
      /\ UNCHANGED <<screen, logins, begun, ended>>
  BY <1>2 DEF authVars, clientVars
<1>9. Core'
  BY <1>1, <1>2, <1>7, <1>8, AgendaCore DEF TypeOK
<1>10. AllSpent' /\ CallersIdle'
  BY <1>2, <1>3, <1>4, <1>7, AgendaKept, AuthAssumption
<1>11. NoSession' /\ screen' = "busy"
  BY <1>4, <1>8 DEF NoSession
<1>12. LoginAsked'
  BY <1>3, <1>7, <1>10, <1>11 DEF LoginAsked, UiHas
<1> QED
  BY <1>9, <1>12 DEF AuthInv, Somewhere

-----------------------------------------------------------------------------
(* Which operation is executed where.                                      *)
LEMMA Places ==
  ASSUME Somewhere, NEW t \in Thread
  PROVE  /\ At(t, "CreateLogin") => t = "ui" /\ LoginAsked /\ todo[t] = <<"CreateLogin">>
         /\ At(t, "onLoginThreadComplete") =>
              t \in OSThread /\ LogsIn(t) /\ Reports(t, "LoginThread", {<<"onLoginThreadComplete">>})
         /\ At(t, "RunAlive") =>
              t \in OSThread /\ Enters(t) /\ todo[t] = <<"RunAlive", "onLoginComplete">>
         /\ At(t, "CreateAlive") =>
              t \in OSThread /\ Enters(t) /\ todo[t] = <<"CreateAlive", "onLoginComplete">>
         /\ At(t, "onLoginComplete") =>
              /\ t \in OSThread /\ Reports(t, "LoginThread", {<<"onLoginComplete">>})
              /\ LogsIn(t) \/ \E q \in OSThread \ {t} : Entered(t, q)
         /\ At(t, "onAliveThreadComplete") =>
              t \in OSThread /\ Loses(t) /\ todo[t] = <<"onAliveThreadComplete">>
         /\ At(t, "onDisconnect") => t \in OSThread /\ Lost(t)
         /\ At(t, "onLogoutComplete") => t \in OSThread /\ LoggedOut(t)
         /\ At(t, "RemoveAlive") => t = "ui" /\ \E q \in OSThread : LogoutAsked(q)
         /\ At(t, "SignalAlive") =>
              t = "ui" /\ Dismissed /\ todo[t] = <<"SignalAlive", "RunLogout">>
         /\ At(t, "RunLogout") => t = "ui" /\ Dismissed /\ todo[t] = <<"RunLogout">>
         /\ At(t, "CreateLogout") => t = "ui" /\ Dismissed /\ todo[t] = <<"CreateLogout">>
         /\ At(t, "onLogoutThreadComplete") =>
              t \in OSThread /\ LogsOut(t) /\ Reports(t, "LogoutThread", {<<"onLogoutThreadComplete">>})
         /\ At(t, "WaitAlive") =>
              /\ t \in OSThread /\ LogsOut(t) /\ ~LoggedIn
              /\ Reports(t, "LogoutThread", {<<"WaitAlive", "DeleteAlive", "onLogoutComplete">>})
         /\ At(t, "JoinAlive") =>
              /\ t \in OSThread /\ LogsOut(t) /\ ~LoggedIn
              /\ Reports(t, "LogoutThread", {<<"JoinAlive", "DeleteAlive", "onLogoutComplete">>})
         /\ At(t, "DeleteAlive") => t \in OSThread /\ Deletes(t)
         /\ At(t, "WaitLogin") =>
              t = "main" /\ Outside /\ todo[t] = <<"WaitLogin", "WaitLogout", "DeleteThreads">>
         /\ At(t, "WaitLogout") =>
              t = "main" /\ Outside /\ todo[t] = <<"WaitLogout", "DeleteThreads">>
         /\ At(t, "DeleteThreads") => t = "main" /\ Outside /\ todo[t] = <<"DeleteThreads">>
         /\ ~At(t, "JoinLogin") /\ ~At(t, "JoinLogout")
<1>1. CASE t = "ui" /\ LoginAsked
  <2>1. todo[t] \in {<<"RunLogin">>, <<"CreateLogin">>}
    BY <1>1 DEF LoginAsked, UiHas
  <2> QED
    BY <1>1, <2>1, Agendas DEF At
<1>2. CASE t = "ui" /\ \E q \in OSThread : LogoutAsked(q)
  <2>1. todo[t] = <<"RemoveAlive", "SignalAlive", "RunLogout">>
    BY <1>2 DEF LogoutAsked, UiHas
  <2> QED
    BY <1>2, <2>1, Agendas DEF At
<1>3. CASE t = "ui" /\ Dismissed
  <2>1. todo[t] \in {<<"SignalAlive", "RunLogout">>, <<"RunLogout">>, <<"CreateLogout">>}
    BY <1>3 DEF Dismissed, UiHas
  <2> QED
    BY <1>3, <2>1, Agendas DEF At
<1>4. CASE t = "main" /\ Outside /\ todo[t] # <<>>
  <2>1. todo[t] \in {<<"WaitLogin", "WaitLogout", "DeleteThreads">>,
                     <<"WaitLogout", "DeleteThreads">>, <<"DeleteThreads">>}
    BY <1>4 DEF Outside
  <2> QED
    BY <1>4, <2>1, Agendas DEF At
<1>5. CASE t \in OSThread /\ LogsIn(t) /\ at[t] = "callbacks"
  <2>1. /\ job[t] = "LoginThread"
        /\ todo[t] \in {<<"onLoginThreadComplete">>, <<"onLoginComplete">>}
    BY <1>5 DEF LogsIn, Works, Reports
  <2> QED
    BY <1>5, <2>1, Agendas DEF At, Reports
<1>6. CASE t \in OSThread /\ Enters(t)
  <2>1. todo[t] \in {<<"RunAlive", "onLoginComplete">>, <<"CreateAlive", "onLoginComplete">>}
    BY <1>6 DEF Enters, Reports
  <2> QED
    BY <1>6, <2>1, Agendas DEF At
<1>7. CASE t \in OSThread /\ \E q \in OSThread \ {t} : Entered(t, q)
  <2>1. at[t] = "callbacks" /\ job[t] = "LoginThread" /\ todo[t] = <<"onLoginComplete">>
    BY <1>7 DEF Entered, Reports
  <2> QED
    BY <1>7, <2>1, Agendas DEF At, Reports
<1>8. CASE t \in OSThread /\ Loses(t) /\ at[t] = "callbacks"
  <2>1. todo[t] = <<"onAliveThreadComplete">>
    BY <1>8 DEF Loses, Works, Reports
  <2> QED
    BY <1>8, <2>1, Agendas DEF At
<1>9. CASE t \in OSThread /\ Lost(t)
  <2>1. todo[t] = <<"onDisconnect">>
    BY <1>9 DEF Lost
  <2> QED
    BY <1>9, <2>1, Agendas DEF At
<1>10. CASE t \in OSThread /\ LogsOut(t) /\ at[t] = "callbacks"
  <2>1. /\ job[t] = "LogoutThread"
        /\ \/ todo[t] = <<"onLogoutThreadComplete">>
           \/ /\ todo[t] \in {<<"WaitAlive", "DeleteAlive", "onLogoutComplete">>,
                              <<"JoinAlive", "DeleteAlive", "onLogoutComplete">>}
              /\ ~LoggedIn
    BY <1>10 DEF LogsOut, Works, Reports
  <2>2. CASE todo[t] = <<"onLogoutThreadComplete">>
    BY <1>10, <2>1, <2>2, Agendas DEF At, Reports
  <2>3. CASE todo[t] = <<"WaitAlive", "DeleteAlive", "onLogoutComplete">> /\ ~LoggedIn
    BY <1>10, <2>1, <2>3, Agendas DEF At, Reports
  <2>4. CASE todo[t] = <<"JoinAlive", "DeleteAlive", "onLogoutComplete">> /\ ~LoggedIn
    BY <1>10, <2>1, <2>4, Agendas DEF At, Reports
  <2> QED
    BY <2>1, <2>2, <2>3, <2>4
<1>11. CASE t \in OSThread /\ Deletes(t)
  <2>1. todo[t] = <<"DeleteAlive", "onLogoutComplete">>
    BY <1>11 DEF Deletes, Reports
  <2> QED
    BY <1>11, <2>1, Agendas DEF At
<1>12. CASE t \in OSThread /\ LoggedOut(t)
  <2>1. todo[t] = <<"onLogoutComplete">>
    BY <1>12 DEF LoggedOut, Reports
  <2> QED
    BY <1>12, <2>1, Agendas DEF At
<1>13. CASE todo[t] = <<>>
  BY <1>13 DEF At
<1> QED
  BY <1>1, <1>2, <1>3, <1>4, <1>5, <1>6, <1>7, <1>8, <1>9, <1>10, <1>11, <1>12, <1>13, Turn

(* A step that does no more than to move the agenda of thread t on.        *)
Moves(t, ops) ==
  /\ todo[t] # <<>> /\ Call(t, ops)
  /\ UNCHANGED <<handle, running, term, job, at, list, authVars, clientVars>>

LEMMA MovesOn ==
  ASSUME Core, NEW t \in Thread, NEW ops \in Seq(AuthOp), Moves(t, ops)
  PROVE  /\ Core'
         /\ UNCHANGED <<handle, term, job, at, list, LoggedIn, AliveThread, failed, created,
                        screen, begun, ended>>
         /\ \A u \in Thread \ {t} : todo'[u] = todo[u]
         /\ NoSession => NoSession'
         /\ (Heard => Heard') /\ (Unheard => Unheard')
         /\ \A q \in OSThread \ {t} : KeepsAlive(q) => KeepsAlive(q)'
<1>1. /\ UNCHANGED <<LoggedIn, AliveThread, SessionData, loginResult, failed, read, created, deleted>>
      /\ UNCHANGED <<screen, logins, begun, ended>>
      /\ UNCHANGED <<handle, running, term, job, at, list>>
      /\ todo[t] # <<>> /\ Call(t, ops)
  BY DEF authVars, clientVars, Moves
<1>2. TypeOK
  BY DEF Core
<1>3. todo' \in [Thread -> Seq(Op)] /\ \A u \in Thread \ {t} : todo'[u] = todo[u]
  BY <1>1, <1>2, Calls
<1>4. Core'
  BY <1>1, <1>2, <1>3, AgendaCore DEF TypeOK
<1>5. /\ NoSession => NoSession'
      /\ (Heard => Heard') /\ (Unheard => Unheard')
  BY <1>1 DEF NoSession, Heard, Unheard, AliveSet
<1>6. \A q \in OSThread \ {t} : KeepsAlive(q) => KeepsAlive(q)'
  BY <1>1, <1>3, <1>5 DEF KeepsAlive, Thread
<1> QED
  BY <1>1, <1>3, <1>4, <1>5, <1>6

LEMMA NoOps == <<>> \in Seq(AuthOp)
OBVIOUS

LEMMA Returns ==
  ASSUME TypeOK, NEW t \in Thread, Call(t, <<>>), todo[t] # <<>>
  PROVE  /\ todo' \in [Thread -> Seq(Op)]
         /\ \A u \in Thread \ {t} : todo'[u] = todo[u]
         /\ \A a : todo[t] = <<a>> => todo'[t] = <<>>
         /\ \A a, b \in AuthOp : todo[t] = <<a, b>> => todo'[t] = <<b>>
         /\ \A a, b, c \in AuthOp : todo[t] = <<a, b, c>> => todo'[t] = <<b, c>>
<1> DEFINE ops == <<>>
<1>1. ops \in Seq(AuthOp) /\ Call(t, ops) /\ ops = <<>>
  OBVIOUS
<1> HIDE DEF ops
<1> DEFINE rest == Tail(todo[t])
<1>6. todo'[t] = <<>> \o rest
  BY DEF Call, TypeOK, ThreadTypeOK
<1>7. rest \in Seq(AuthOp) => todo'[t] = rest
  <2> HIDE DEF rest
  <2> QED
    BY <1>6, Concats
<1>2. ASSUME NEW a \in AuthOp, NEW b \in AuthOp, todo[t] = <<a, b>> PROVE todo'[t] = <<b>>
  <2>1. rest = <<b>> /\ <<b>> \in Seq(AuthOp)
    BY <1>2, Agendas
  <2> QED
    BY <1>7, <2>1
<1>3. ASSUME NEW a \in AuthOp, NEW b \in AuthOp, NEW c \in AuthOp, todo[t] = <<a, b, c>>
      PROVE  todo'[t] = <<b, c>>
  <2>1. rest = <<b, c>> /\ <<b, c>> \in Seq(AuthOp)
    BY <1>3, Agendas
  <2> QED
    BY <1>7, <2>1
<1>4. \A a : todo[t] = <<a>> => todo'[t] = <<>>
  BY <1>1, Calls
<1>5. todo' \in [Thread -> Seq(Op)] /\ \A u \in Thread \ {t} : todo'[u] = todo[u]
  BY <1>1, Calls
<1> QED
  BY <1>2, <1>3, <1>4, <1>5

(* Run has created thread p.                                               *)
LEMMA RunsOn ==
  ASSUME Core, NEW t \in Thread, NEW op, NEW w,
         w \in {"LoginThread", "LogoutThread"} \cup created,
         w \in AliveObject => failed[w] < MaxFailed,
         \A q \in OSThread : ~(at[q] \in InWork /\ job[q] = w),
         RunCreate(t, op, w), UNCHANGED <<authVars, clientVars>>
  PROVE  /\ Core'
         /\ UNCHANGED <<term, list, LoggedIn, AliveThread, failed, created, screen, begun, ended>>
         /\ todo[t] # <<>> /\ Call(t, <<>>)
         /\ \A u \in Thread \ {t} : todo'[u] = todo[u]
         /\ \E p \in OSThread :
              /\ at[p] = "free" /\ at'[p] = "work" /\ job'[p] = w
              /\ \A q \in OSThread \ {p} : at'[q] = at[q] /\ job'[q] = job[q]
              /\ \A q \in OSThread \ {p, t} : /\ Spent(q) => Spent(q)'
                                              /\ Leaves(q) => Leaves(q)'
<1>1. /\ UNCHANGED <<LoggedIn, AliveThread, failed, created, screen, begun, ended, term, list>>
      /\ todo[t] # <<>> /\ Call(t, <<>>)
  BY DEF authVars, clientVars, RunCreate, At, Return
<1>2. todo \in [Thread -> Seq(Op)]
  BY DEF Core, TypeOK, ThreadTypeOK
<1>3. \A u \in Thread \ {t} : todo'[u] = todo[u]
  BY <1>1, <1>2 DEF Call
<1>4. PICK p \in OSThread :
         /\ at[p] = "free" /\ at'[p] = "work" /\ job'[p] = w
         /\ \A q \in OSThread \ {p} : at'[q] = at[q] /\ job'[q] = job[q]
  BY <1>1, CreateCore
<1>5. \A q \in OSThread \ {p, t} : todo'[q] = todo[q]
  BY <1>3 DEF Thread
<1>6. \A q \in OSThread \ {p, t} : Spent(q) => Spent(q)'
  BY <1>1, <1>4, <1>5 DEF Spent
<1>7. \A q \in OSThread \ {p, t} : Leaves(q) => Leaves(q)'
  BY <1>1, <1>4, <1>5, <1>6 DEF Leaves
<1>8. Core'
  BY <1>1, CreateCore
<1> QED
  BY <1>1, <1>3, <1>4, <1>6, <1>7, <1>8

LEMMA CreateLoginInv ==
  ASSUME AuthInv, NEW t \in Thread, CreateLogin(t)
  PROVE  AuthInv'
<1>1. Core /\ TypeOK /\ Somewhere
  BY DEF AuthInv, Core
<1>2. RunCreate(t, "CreateLogin", "LoginThread") /\ UNCHANGED <<authVars, clientVars>>
  BY DEF CreateLogin
<1>3. t = "ui" /\ LoginAsked /\ todo[t] = <<"CreateLogin">>
  BY <1>1, <1>2, Places DEF RunCreate
<1>4. screen = "busy" /\ NoSession /\ CallersIdle /\ AllSpent
  BY <1>3 DEF LoginAsked
<1>5. \A q \in OSThread : at[q] \notin InWork
  BY <1>4, SpentIdle DEF AllSpent
<1>6. /\ Core'
      /\ UNCHANGED <<term, list, LoggedIn, AliveThread, failed, created, screen, begun, ended>>
      /\ todo[t] # <<>> /\ Call(t, <<>>)
      /\ \A u \in Thread \ {t} : todo'[u] = todo[u]
      /\ \E p \in OSThread :
           /\ at[p] = "free" /\ at'[p] = "work" /\ job'[p] = "LoginThread"
           /\ \A q \in OSThread \ {p, t} : Spent(q) => Spent(q)'
  BY <1>1, <1>2, <1>5, RunsOn, AuthAssumption
<1>7. PICK p \in OSThread : /\ at[p] = "free" /\ at'[p] = "work" /\ job'[p] = "LoginThread"
                            /\ \A q \in OSThread \ {p, t} : Spent(q) => Spent(q)'
  BY <1>6
<1>8. t \in Caller /\ t \notin OSThread /\ Caller \subseteq Thread /\ p \in Thread
  BY <1>3, ThreadAssumption, AuthAssumption DEF Thread
<1>9. todo'[t] = <<>>
  BY <1>1, <1>3, <1>6, Returns
<1>10. todo'[p] = <<>> /\ CallersIdle'
  BY <1>3, <1>4, <1>6, <1>8 DEF CallersIdle, AllSpent, Spent
<1>11. OthersSpent(p)'
  BY <1>4, <1>7, <1>8 DEF OthersSpent, AllSpent
<1>12. NoSession' /\ screen' = "busy"
  BY <1>4, <1>6 DEF NoSession
<1>13. LogsIn(p)'
  BY <1>3, <1>7, <1>9, <1>10, <1>11, <1>12 DEF LogsIn, Works, UiHas
<1> QED
  BY <1>6, <1>13 DEF AuthInv, Somewhere

LEMMA LoginThreadCompleteInv ==
  ASSUME AuthInv, NEW t \in Thread, onLoginThreadComplete(t)
  PROVE  AuthInv'
<1>1. Core /\ TypeOK /\ Objects /\ Somewhere
  BY DEF AuthInv, Core
<1>2. At(t, "onLoginThreadComplete") /\ todo[t] # <<>>
  BY DEF onLoginThreadComplete, At
<1>3. t \in OSThread /\ LogsIn(t) /\ Reports(t, "LoginThread", {<<"onLoginThreadComplete">>})
  BY <1>1, <1>2, Places
<1>4. /\ screen = "busy" /\ NoSession /\ CallersIdle /\ UiHas({<<>>}) /\ OthersSpent(t)
      /\ at[t] = "callbacks" /\ job[t] = "LoginThread" /\ todo[t] = <<"onLoginThreadComplete">>
  BY <1>3 DEF LogsIn, Reports
<1>5. /\ Core'
      /\ UNCHANGED <<term, job, at, screen, begun, ended>>
      /\ LoggedIn' = loginResult
      /\ ~loginResult => Call(t, <<"onLoginComplete">>) /\ UNCHANGED <<AliveThread, list>>
      /\ loginResult => /\ Call(t, <<"RunAlive", "onLoginComplete">>)
                        /\ AliveThread' \in created' \ created
                        /\ list'[AliveThread'] = <<"onAliveThreadComplete">>
                        /\ ~term[AliveThread'] /\ failed'[AliveThread'] = 0
                        /\ \A d \in Delegate \ {AliveThread'} : list'[d] = list[d]
  BY <1>1, AcceptCore
<1>6. \A q \in OSThread : at[q] = "free" \/ list'[job[q]] = list[job[q]]
  <2>1. CASE ~loginResult
    BY <1>5, <2>1
  <2>2. CASE loginResult
    <3>1. AliveThread' \in AliveObject
      BY <1>5, <2>2 DEF Core, TypeOK
    <3>2. \A q \in OSThread : at[q] = "free" \/ job[q] \in {"LoginThread", "LogoutThread"} \cup created
      BY <1>1 DEF Objects
    <3>3. \A q \in OSThread : at[q] = "free" \/ job[q] # AliveThread'
      BY <1>5, <2>2, <3>1, <3>2, AuthAssumption
    <3>4. \A q \in OSThread : job[q] \in Delegate
      BY <1>1 DEF TypeOK, ThreadTypeOK, Delegate
    <3> QED
      BY <1>5, <2>2, <3>3, <3>4
  <2> QED
    BY <2>1, <2>2
<1>7. /\ <<"onLoginComplete">> \in Seq(AuthOp) /\ <<"RunAlive", "onLoginComplete">> \in Seq(AuthOp)
      /\ \A ops \in Seq(AuthOp) :
           Call(t, ops) => todo'[t] = ops /\ \A u \in Thread \ {t} : todo'[u] = todo[u]
  BY <1>1, <1>2, <1>4, Calls DEF AuthOp
<1>8. \A u \in Thread \ {t} : todo'[u] = todo[u]
  BY <1>5, <1>7
<1>9. OthersSpent(t)' /\ CallersIdle' /\ todo'["ui"] = todo["ui"]
  BY <1>3, <1>4, <1>5, <1>6, <1>8, AgendaKept
<1>10. CASE ~loginResult
  <2>1. todo'[t] = <<"onLoginComplete">> /\ NoSession'
    BY <1>4, <1>5, <1>7, <1>10 DEF NoSession
  <2>2. LogsIn(t)'
    BY <1>4, <1>5, <1>9, <2>1 DEF LogsIn, Reports, UiHas
  <2> QED
    BY <1>3, <1>5, <2>2 DEF AuthInv, Somewhere
<1>11. CASE loginResult
  <2>1. todo'[t] = <<"RunAlive", "onLoginComplete">> /\ Heard'
    BY <1>5, <1>7, <1>11 DEF Heard, AliveSet
  <2>2. LoggedIn' /\ begun' = ended' /\ ~term'[AliveThread'] /\ failed'[AliveThread'] = 0
    BY <1>4, <1>5, <1>11 DEF NoSession
  <2>3. Enters(t)'
    BY <1>4, <1>5, <1>9, <2>1, <2>2 DEF Enters, Reports, UiHas
  <2> QED
    BY <1>3, <1>5, <2>3 DEF AuthInv, Somewhere
<1> QED
  BY <1>10, <1>11

LEMMA RunAliveInv ==
  ASSUME AuthInv, NEW t \in Thread, RunAlive(t)
  PROVE  AuthInv'
<1>1. Core /\ TypeOK /\ Somewhere
  BY DEF AuthInv, Core
<1>2. /\ todo[t] # <<>> /\ At(t, "RunAlive") /\ AliveThread # "NULL"
      /\ Moves(t, IF handle[AliveThread] THEN <<>> ELSE <<"CreateAlive">>)
  BY DEF RunAlive, RunCheck, At, Moves
<1>3. t \in OSThread /\ Enters(t) /\ todo[t] = <<"RunAlive", "onLoginComplete">>
  BY <1>1, <1>2, Places
<1>4. /\ screen = "busy" /\ begun = ended /\ LoggedIn /\ CallersIdle /\ UiHas({<<>>})
      /\ Heard /\ ~term[AliveThread] /\ failed[AliveThread] = 0
      /\ at[t] = "callbacks" /\ job[t] = "LoginThread" /\ OthersSpent(t)
  BY <1>3 DEF Enters, Reports
<1>5. AliveThread \in Worker /\ \A q \in OSThread : ~(at[q] \in InWork /\ job[q] = AliveThread)
  BY <1>1, <1>2, <1>4, SpentIdle, AuthAssumption DEF OthersSpent, TypeOK, InWork
<1>6. ~handle[AliveThread] /\ <<"CreateAlive">> \in Seq(AuthOp)
  <2>1. handle[AliveThread] = FALSE
    BY <1>1, <1>5, NoHandle
  <2> QED
    BY <2>1 DEF AuthOp
<1>7. Moves(t, <<"CreateAlive">>) /\ Call(t, <<"CreateAlive">>)
  BY <1>2, <1>6 DEF Moves
<1>8. /\ Core'
      /\ UNCHANGED <<handle, term, job, at, list, LoggedIn, AliveThread, failed, created,
                     screen, begun, ended>>
      /\ \A u \in Thread \ {t} : todo'[u] = todo[u]
      /\ Heard'
  BY <1>1, <1>4, <1>6, <1>7, MovesOn
<1>9. todo'[t] = <<"CreateAlive", "onLoginComplete">>
  <2>1. {"RunAlive", "onLoginComplete", "CreateAlive"} \subseteq AuthOp
    BY DEF AuthOp
  <2> QED
    BY <1>1, <1>2, <1>3, <1>6, <1>7, <2>1, Calls
<1>10. OthersSpent(t)' /\ CallersIdle' /\ todo'["ui"] = todo["ui"]
  BY <1>3, <1>4, <1>8, AgendaKept
<1>11. Enters(t)'
  BY <1>4, <1>8, <1>9, <1>10 DEF Enters, Reports, UiHas
<1> QED
  BY <1>3, <1>8, <1>11 DEF AuthInv, Somewhere

LEMMA CreateAliveInv ==
  ASSUME AuthInv, NEW t \in Thread, CreateAlive(t)
  PROVE  AuthInv'
<1>1. Core /\ TypeOK /\ Somewhere
  BY DEF AuthInv, Core
<1>2. RunCreate(t, "CreateAlive", AliveThread) /\ UNCHANGED <<authVars, clientVars>>
  BY DEF CreateAlive
<1>3. t \in OSThread /\ Enters(t) /\ todo[t] = <<"CreateAlive", "onLoginComplete">>
  BY <1>1, <1>2, Places DEF RunCreate
<1>4. /\ screen = "busy" /\ begun = ended /\ LoggedIn /\ CallersIdle /\ UiHas({<<>>})
      /\ Heard /\ ~term[AliveThread] /\ failed[AliveThread] = 0 /\ AliveThread \in created
      /\ at[t] = "callbacks" /\ job[t] = "LoginThread" /\ OthersSpent(t)
  BY <1>3 DEF Enters, Reports, Heard, AliveSet
<1>5. /\ \A q \in OSThread : ~(at[q] \in InWork /\ job[q] = AliveThread)
      /\ AliveThread \in {"LoginThread", "LogoutThread"} \cup created
      /\ AliveThread \in AliveObject => failed[AliveThread] < MaxFailed
  BY <1>4, SpentIdle, AuthAssumption DEF OthersSpent, InWork
<1>6. /\ Core'
      /\ UNCHANGED <<term, list, LoggedIn, AliveThread, failed, created, screen, begun, ended>>
      /\ todo[t] # <<>> /\ Call(t, <<>>)
      /\ \A u \in Thread \ {t} : todo'[u] = todo[u]
      /\ \E p \in OSThread :
           /\ at[p] = "free" /\ at'[p] = "work" /\ job'[p] = AliveThread
           /\ \A q \in OSThread \ {p} : at'[q] = at[q] /\ job'[q] = job[q]
           /\ \A q \in OSThread \ {p, t} : /\ Spent(q) => Spent(q)'
                                           /\ Leaves(q) => Leaves(q)'
  BY <1>1, <1>2, <1>5, RunsOn
<1>7. PICK p \in OSThread : /\ at[p] = "free" /\ at'[p] = "work" /\ job'[p] = AliveThread
                            /\ \A q \in OSThread \ {p} : at'[q] = at[q] /\ job'[q] = job[q]
                            /\ \A q \in OSThread \ {p, t} : Spent(q) => Spent(q)'
  BY <1>6
<1>8. p # t /\ p \in Thread /\ Caller \subseteq Thread \ {t} /\ "ui" \in Caller
  BY <1>3, <1>4, <1>7, ThreadAssumption, AuthAssumption DEF Thread
<1>9. todo'[t] = <<"onLoginComplete">>
  <2>1. {"CreateAlive", "onLoginComplete"} \subseteq AuthOp
    BY DEF AuthOp
  <2> QED
    BY <1>1, <1>3, <1>6, <2>1, Returns
<1>10. todo'[p] = <<>> /\ CallersIdle' /\ todo'["ui"] = todo["ui"]
  BY <1>3, <1>4, <1>6, <1>8 DEF CallersIdle, OthersSpent, Spent
<1>11. Heard' /\ KeepsAlive(p)'
  BY <1>4, <1>6, <1>7, <1>10 DEF Heard, AliveSet, KeepsAlive, Round
<1>12. at'[t] = "callbacks" /\ job'[t] = "LoginThread" /\ t \in OSThread
  BY <1>3, <1>4, <1>7, <1>8
<1>13. \A o \in OSThread \ {t, p} : Spent(o)'
  BY <1>4, <1>7 DEF OthersSpent
<1>14. Entered(t, p)'
  BY <1>4, <1>6, <1>9, <1>10, <1>11, <1>12, <1>13 DEF Entered, Reports, UiHas
<1> QED
  BY <1>6, <1>8, <1>12, <1>14 DEF AuthInv, Somewhere

LEMMA LoginCompleteInv ==
  ASSUME AuthInv, NEW t \in Thread, onLoginComplete(t)
  PROVE  AuthInv'
<1>1. Core /\ TypeOK /\ Somewhere
  BY DEF AuthInv, Core
<1>2. /\ At(t, "onLoginComplete") /\ todo[t] # <<>> /\ Call(t, <<>>)
      /\ UNCHANGED <<handle, running, term, job, at, list>>
      /\ UNCHANGED <<LoggedIn, AliveThread, SessionData, loginResult, failed, read,
                     created, deleted>>
      /\ logins' = logins /\ ended' = ended
      /\ begun' = IF LoggedIn THEN begun + 1 ELSE begun
  BY DEF onLoginComplete, At, Return, authVars
<1>3. /\ screen = "busy" /\ LoggedIn => screen' = "main"
      /\ screen = "busy" /\ ~LoggedIn => screen' = "login"
  BY DEF onLoginComplete
<1>4. /\ t \in OSThread /\ Reports(t, "LoginThread", {<<"onLoginComplete">>})
      /\ LogsIn(t) \/ \E q \in OSThread \ {t} : Entered(t, q)
  BY <1>1, <1>2, Places
<1>5. /\ screen = "busy" /\ CallersIdle /\ UiHas({<<>>})
      /\ at[t] = "callbacks" /\ todo[t] = <<"onLoginComplete">>
  BY <1>4 DEF Reports, LogsIn, Entered
<1>6. /\ todo' \in [Thread -> Seq(Op)] /\ todo'[t] = <<>>
      /\ \A u \in Thread \ {t} : todo'[u] = todo[u]
  BY <1>1, <1>2, <1>5, Returns
<1>7. Core'
  <2>1. begun' \in Nat /\ screen' \in Screen
    BY <1>1, <1>2, <1>3, <1>5 DEF TypeOK, Screen
  <2> QED
    BY <1>1, <1>2, <1>5, <1>6, <2>1, AgendaCore DEF TypeOK
<1>8. CallersIdle' /\ todo'["ui"] = todo["ui"] /\ Spent(t)'
      /\ \A o \in OSThread \ {t} : Spent(o) => Spent(o)'
  BY <1>2, <1>4, <1>5, <1>6, AgendaKept DEF Spent
<1>9. CASE LogsIn(t)
  <2>1. NoSession /\ OthersSpent(t)
    BY <1>9 DEF LogsIn
  <2>2. AllSpent'
    BY <1>8, <2>1 DEF AllSpent, OthersSpent
  <2>3. NoSession' /\ screen' = "login"
    BY <1>2, <1>3, <1>5, <2>1 DEF NoSession
  <2>4. /\ todo'["main"] = <<>> /\ todo'["ui"] = <<>>
        /\ \A c \in Caller \ {"ui", "main"} : todo'[c] = <<>>
    BY <1>5, <1>8, AuthAssumption DEF CallersIdle, UiHas
  <2>5. Outside'
    BY <2>2, <2>3, <2>4 DEF Outside, UiHas
  <2> QED
    BY <1>7, <2>5 DEF AuthInv, Somewhere
<1>10. ASSUME NEW q \in OSThread \ {t}, Entered(t, q) PROVE AuthInv'
  <2>1. begun = ended /\ LoggedIn /\ KeepsAlive(q) /\ \A o \in OSThread \ {t, q} : Spent(o)
    BY <1>10 DEF Entered
  <2>2. OthersSpent(q)'
    BY <1>8, <2>1 DEF OthersSpent
  <2>3. begun' = ended' + 1 /\ LoggedIn' /\ screen' = "main"
    BY <1>2, <1>3, <1>5, <2>1
  <2>4. todo'[q] = todo[q]
    BY <1>6 DEF Thread
  <2>5. KeepsAlive(q)'
    BY <1>2, <2>1, <2>4 DEF KeepsAlive, Heard, AliveSet
  <2>6. Inside(q)'
    BY <1>5, <1>8, <2>2, <2>3, <2>5 DEF Inside, UiHas
  <2> QED
    BY <1>7, <2>6 DEF AuthInv, Somewhere
<1> QED
  BY <1>4, <1>9, <1>10

-----------------------------------------------------------------------------
(* Disconnection, and the end of a session.                                *)

LEMMA AliveThreadCompleteInv ==
  ASSUME AuthInv, NEW t \in Thread, onAliveThreadComplete(t)
  PROVE  AuthInv'
<1>1. Core /\ TypeOK /\ Somewhere
  BY DEF AuthInv, Core
<1>2. /\ At(t, "onAliveThreadComplete") /\ todo[t] # <<>> /\ Call(t, <<"onDisconnect">>)
      /\ UNCHANGED <<handle, running, term, job, at, list, SessionData, loginResult, failed,
                     read, created, clientVars>>
      /\ UNCHANGED <<screen, begun, ended>>
      /\ ~LoggedIn' /\ LoggedIn' \in BOOLEAN /\ AliveThread' = "NULL"
      /\ deleted' = deleted \cup ({AliveThread} \ {"NULL"})
  BY DEF onAliveThreadComplete, At, clientVars
<1>3. t \in OSThread /\ Loses(t) /\ todo[t] = <<"onAliveThreadComplete">>
  BY <1>1, <1>2, Places
<1>4. /\ screen = "main" /\ begun = ended + 1 /\ CallersIdle /\ UiHas({<<>>})
      /\ AliveThread \in created /\ OthersSpent(t) /\ at[t] = "callbacks"
  BY <1>3, Agendas DEF Loses, Works, Reports, Heard, AliveSet
<1>5. <<"onDisconnect">> \in Seq(AuthOp)
  BY DEF AuthOp
<1>6. /\ todo' \in [Thread -> Seq(Op)] /\ todo'[t] = <<"onDisconnect">>
      /\ \A u \in Thread \ {t} : todo'[u] = todo[u]
  BY <1>1, <1>2, <1>3, <1>5, Calls
<1>7. Core'
  BY <1>1, <1>2, <1>4, <1>6, DeleteCore
<1>8. OthersSpent(t)' /\ CallersIdle' /\ todo'["ui"] = todo["ui"]
  BY <1>2, <1>3, <1>4, <1>6, AgendaKept
<1>9. Lost(t)'
  BY <1>2, <1>4, <1>6, <1>8 DEF Lost, UiHas
<1> QED
  BY <1>3, <1>7, <1>9 DEF AuthInv, Somewhere

LEMMA SessionEndsInv ==
  ASSUME AuthInv, NEW t \in Thread, SessionEnds(t)
  PROVE  AuthInv'
<1>1. Core /\ TypeOK /\ Somewhere
  BY DEF AuthInv, Core
<1>2. /\ At(t, "onLogoutComplete") \/ At(t, "onDisconnect")
      /\ todo[t] # <<>> /\ Call(t, <<>>)
      /\ UNCHANGED <<handle, running, term, job, at, list>>
      /\ UNCHANGED <<LoggedIn, AliveThread, SessionData, loginResult, failed, read,
                     created, deleted>>
      /\ logins' = logins /\ begun' = begun /\ ended' = ended + 1
      /\ screen' = IF screen = "closed" THEN "closed" ELSE "stopping"
  BY DEF SessionEnds, At, Return, authVars
<1>3. t \in OSThread /\ (LoggedOut(t) \/ Lost(t))
  BY <1>1, <1>2, Places
<1>4. /\ screen # "closed" /\ begun = ended + 1 /\ ~LoggedIn /\ AliveThread = "NULL"
      /\ CallersIdle /\ UiHas({<<>>}) /\ OthersSpent(t) /\ at[t] = "callbacks"
      /\ todo[t] \in {<<"onLogoutComplete">>, <<"onDisconnect">>}
  BY <1>3 DEF LoggedOut, Lost, Reports
<1>5. /\ todo' \in [Thread -> Seq(Op)] /\ todo'[t] = <<>>
      /\ \A u \in Thread \ {t} : todo'[u] = todo[u]
  BY <1>1, <1>2, <1>4, Returns
<1>6. Core'
  <2>1. ended' \in Nat /\ screen' \in Screen
    BY <1>1, <1>2, <1>4 DEF TypeOK, Screen
  <2> QED
    BY <1>1, <1>2, <1>4, <1>5, <2>1, AgendaCore DEF TypeOK
<1>7. /\ CallersIdle' /\ todo'["ui"] = todo["ui"] /\ Spent(t)'
      /\ OthersSpent(t)'
  BY <1>2, <1>3, <1>4, <1>5, AgendaKept DEF Spent
<1>8. AllSpent' /\ NoSession' /\ screen' = "stopping"
  BY <1>2, <1>4, <1>7 DEF AllSpent, OthersSpent, NoSession
<1>9. /\ todo'["main"] = <<>> /\ todo'["ui"] = <<>>
      /\ \A c \in Caller \ {"ui", "main"} : todo'[c] = <<>>
  BY <1>4, <1>7, AuthAssumption DEF CallersIdle, UiHas
<1>10. Outside'
  BY <1>8, <1>9 DEF Outside, UiHas
<1> QED
  BY <1>6, <1>10 DEF AuthInv, Somewhere

-----------------------------------------------------------------------------
(* Logout.                                                                 *)

(* Removing the only handler leaves none.                                  *)
LEMMA RemoveOnly ==
  ASSUME NEW e
  PROVE  RemoveFirst(<<e>>, e) = <<>>
<1> DEFINE s == <<e>>
           I == {i \in 1..Len(s) : s[i] = e}
           m == SelectInSeq(s, LAMBDA v : v = e)
<1>1. Len(s) = 1 /\ s[1] = e /\ s \in Seq({e})
  OBVIOUS
<1>2. I = {1}
  BY <1>1
<1>3. \E i \in 1..Len(s) : s[i] = e
  BY <1>1
<1>4. m = Min(I)
  BY <1>2 DEF SelectInSeq
<1> HIDE DEF m, I
<1>5. m = 1
  BY <1>2, <1>4, MinType
<1>6. SubSeq(s, 1, m - 1) = <<>> /\ SubSeq(s, m + 1, Len(s)) = <<>>
  BY <1>1, <1>5
<1>7. RemoveAt(s, m) = <<>>
  BY <1>6, NoOps, Concats DEF RemoveAt
<1> QED
  BY <1>3, <1>7 DEF RemoveFirst, m

LEMMA RemoveAliveInv ==
  ASSUME AuthInv, NEW t \in Thread, RemoveAlive(t)
  PROVE  AuthInv'
<1>1. Core /\ TypeOK /\ Objects /\ Somewhere
  BY DEF AuthInv, Core
<1>2. /\ At(t, "RemoveAlive") /\ todo[t] # <<>> /\ Call(t, <<>>)
      /\ RemoveHandler(AliveThread, "onAliveThreadComplete")
      /\ UNCHANGED <<handle, running, term, job, at>>
      /\ UNCHANGED <<LoggedIn, AliveThread, created, screen, begun, ended>>
  BY DEF RemoveAlive, At, Return, authVars, clientVars
<1>3. t = "ui" /\ \E q \in OSThread : LogoutAsked(q)
  BY <1>1, <1>2, Places
<1>4. PICK q \in OSThread : LogoutAsked(q)
  BY <1>3
<1>5. /\ screen = "leaving" /\ begun = ended + 1 /\ LoggedIn /\ CallersIdle
      /\ todo[t] = <<"RemoveAlive", "SignalAlive", "RunLogout">>
      /\ Heard /\ AliveThread \in created /\ OthersSpent(q)
      /\ job[q] = AliveThread /\ todo[q] = <<>> /\ at[q] \in InWork
  BY <1>3, <1>4 DEF LogoutAsked, UiHas, KeepsAlive, Heard, AliveSet, Round, InWork
<1>6. t \in Caller /\ t \notin OSThread /\ AliveThread \in Delegate /\ OSThread \subseteq Thread
  BY <1>1, <1>3, <1>5, ThreadAssumption, AuthAssumption DEF Thread, TypeOK, Delegate
<1>7. list'[AliveThread] = <<>> /\ \A d \in Delegate \ {AliveThread} : list'[d] = list[d]
  BY <1>1, <1>2, <1>5, <1>6, RemoveOnly DEF RemoveHandler, Heard, TypeOK, ThreadTypeOK
<1>8. /\ todo'[t] = <<"SignalAlive", "RunLogout">>
      /\ \A u \in Thread \ {t} : todo'[u] = todo[u]
  <2>1. {"RemoveAlive", "SignalAlive", "RunLogout"} \subseteq AuthOp
    BY DEF AuthOp
  <2> QED
    BY <1>1, <1>2, <1>5, <2>1, Returns
<1>9. Core'
  BY <1>1, <1>5, DismissCore
<1>10. \A o \in OSThread : list'[job[o]] \in {list[job[o]], <<>>}
  BY <1>1, <1>7 DEF TypeOK, ThreadTypeOK, Delegate
<1>11. CallersIdle' /\ \A o \in OSThread \ {t} : Spent(o) => Spent(o)'
  BY <1>2, <1>3, <1>5, <1>8, <1>10, AgendaKept
<1>12. Unheard' /\ Leaves(q)'
  BY <1>2, <1>5, <1>6, <1>7, <1>8 DEF Unheard, AliveSet, Leaves
<1>13. \A o \in OSThread : Leaves(o)'
  BY <1>5, <1>6, <1>11, <1>12 DEF OthersSpent, Leaves
<1>14. Dismissed'
  BY <1>2, <1>3, <1>5, <1>8, <1>11, <1>12, <1>13 DEF Dismissed, UiHas
<1> QED
  BY <1>9, <1>14 DEF AuthInv, Somewhere

LEMMA SignalAliveInv ==
  ASSUME AuthInv, NEW t \in Thread, SignalAlive(t)
  PROVE  AuthInv'
<1>1. Core /\ TypeOK /\ Somewhere
  BY DEF AuthInv, Core
<1>2. /\ At(t, "SignalAlive") /\ todo[t] # <<>> /\ Call(t, <<>>)
      /\ UNCHANGED <<handle, running, job, at, list>>
      /\ UNCHANGED <<LoggedIn, AliveThread, created, screen, begun, ended>>
  BY DEF SignalAlive, At, Return, authVars, clientVars
<1>3. t = "ui" /\ Dismissed /\ todo[t] = <<"SignalAlive", "RunLogout">>
  BY <1>1, <1>2, Places
<1>4. /\ screen = "leaving" /\ begun = ended + 1 /\ LoggedIn /\ CallersIdle
      /\ Unheard /\ AliveThread \in created /\ \A q \in OSThread : Leaves(q)
  BY <1>3 DEF Dismissed, Unheard, AliveSet
<1>5. todo'[t] = <<"RunLogout">> /\ \A u \in Thread \ {t} : todo'[u] = todo[u]
  <2>1. {"SignalAlive", "RunLogout"} \subseteq AuthOp
    BY DEF AuthOp
  <2> QED
    BY <1>1, <1>2, <1>3, <2>1, Returns
<1>6. Core'
  BY <1>1, <1>4, DismissCore
<1>7. t \notin OSThread
  BY <1>3, ThreadAssumption, AuthAssumption
<1>8. CallersIdle' /\ OthersLeave(t)'
  BY <1>2, <1>3, <1>4, <1>5, AgendaKept DEF OthersLeave
<1>9. Unheard'
  BY <1>2, <1>4 DEF Unheard, AliveSet
<1>10. Dismissed'
  BY <1>2, <1>3, <1>4, <1>5, <1>7, <1>8, <1>9 DEF Dismissed, UiHas, OthersLeave
<1> QED
  BY <1>6, <1>10 DEF AuthInv, Somewhere

(* A logout that is asked for finds no thread at work for LogoutThread.    *)
LEMMA LogoutReady ==
  ASSUME Core, Dismissed
  PROVE  \A q \in OSThread : ~(at[q] \in InWork /\ job[q] = "LogoutThread")
<1>1. AliveThread # "LogoutThread" /\ \A q \in OSThread : Leaves(q)
  BY AuthAssumption DEF Core, TypeOK, Dismissed, Unheard, AliveSet
<1> QED
  BY <1>1, SpentIdle DEF Leaves

LEMMA RunLogoutInv ==
  ASSUME AuthInv, NEW t \in Thread, RunLogout(t)
  PROVE  AuthInv'
<1>1. Core /\ TypeOK /\ Somewhere
  BY DEF AuthInv, Core
<1>2. /\ todo[t] # <<>> /\ At(t, "RunLogout")
      /\ Moves(t, IF handle["LogoutThread"] THEN <<>> ELSE <<"CreateLogout">>)
  BY DEF RunLogout, RunCheck, At, Moves
<1>3. t = "ui" /\ Dismissed /\ todo[t] = <<"RunLogout">>
  BY <1>1, <1>2, Places
<1>4. /\ screen = "leaving" /\ begun = ended + 1 /\ LoggedIn /\ CallersIdle
      /\ Unheard /\ \A q \in OSThread : Leaves(q)
  BY <1>3 DEF Dismissed
<1>5. handle["LogoutThread"] = FALSE
  BY <1>1, <1>3, LogoutReady, NoHandle, AuthAssumption
<1>6. Moves(t, <<"CreateLogout">>) /\ Call(t, <<"CreateLogout">>) /\ <<"CreateLogout">> \in Seq(AuthOp)
  BY <1>2, <1>5 DEF Moves, AuthOp
<1>7. /\ Core'
      /\ UNCHANGED <<handle, term, job, at, list, LoggedIn, AliveThread, failed, created,
                     screen, begun, ended>>
      /\ \A u \in Thread \ {t} : todo'[u] = todo[u]
      /\ Unheard'
  BY <1>1, <1>4, <1>6, MovesOn
<1>8. todo'[t] = <<"CreateLogout">>
  BY <1>1, <1>3, <1>6, Replaces
<1>9. t \notin OSThread
  BY <1>3, ThreadAssumption, AuthAssumption
<1>10. CallersIdle' /\ OthersLeave(t)'
  BY <1>3, <1>4, <1>7, AgendaKept DEF OthersLeave
<1>11. Dismissed'
  BY <1>3, <1>4, <1>7, <1>8, <1>9, <1>10 DEF Dismissed, UiHas, OthersLeave
<1> QED
  BY <1>7, <1>11 DEF AuthInv, Somewhere

LEMMA CreateLogoutInv ==
  ASSUME AuthInv, NEW t \in Thread, CreateLogout(t)
  PROVE  AuthInv'
<1>1. Core /\ TypeOK /\ Somewhere
  BY DEF AuthInv, Core
<1>2. RunCreate(t, "CreateLogout", "LogoutThread") /\ UNCHANGED <<authVars, clientVars>>
  BY DEF CreateLogout
<1>3. t = "ui" /\ Dismissed /\ todo[t] = <<"CreateLogout">>
  BY <1>1, <1>2, Places DEF RunCreate
<1>4. /\ screen = "leaving" /\ begun = ended + 1 /\ LoggedIn /\ CallersIdle
      /\ Unheard /\ \A q \in OSThread : Leaves(q)
  BY <1>3 DEF Dismissed
<1>5. \A q \in OSThread : ~(at[q] \in InWork /\ job[q] = "LogoutThread")
  BY <1>1, <1>3, LogoutReady
<1>6. /\ Core'
      /\ UNCHANGED <<term, list, LoggedIn, AliveThread, failed, created, screen, begun, ended>>
      /\ todo[t] # <<>> /\ Call(t, <<>>)
      /\ \A u \in Thread \ {t} : todo'[u] = todo[u]
      /\ \E p \in OSThread :
           /\ at[p] = "free" /\ at'[p] = "work" /\ job'[p] = "LogoutThread"
           /\ \A q \in OSThread \ {p} : at'[q] = at[q] /\ job'[q] = job[q]
           /\ \A q \in OSThread \ {p, t} : /\ Spent(q) => Spent(q)'
                                           /\ Leaves(q) => Leaves(q)'
  BY <1>1, <1>2, <1>5, RunsOn, AuthAssumption
<1>7. PICK p \in OSThread : /\ at[p] = "free" /\ at'[p] = "work" /\ job'[p] = "LogoutThread"
                            /\ \A q \in OSThread \ {p, t} : Leaves(q) => Leaves(q)'
  BY <1>6
<1>8. t \in Caller /\ t \notin OSThread /\ Caller \subseteq Thread /\ p \in Thread
  BY <1>3, ThreadAssumption, AuthAssumption DEF Thread
<1>9. todo'[t] = <<>>
  BY <1>1, <1>3, <1>6, Returns
<1>10. todo'[p] = <<>> /\ CallersIdle'
  BY <1>3, <1>4, <1>6, <1>7, <1>8 DEF CallersIdle, Leaves, Spent
<1>11. OthersLeave(p)' /\ Unheard'
  BY <1>4, <1>6, <1>7, <1>8 DEF OthersLeave, Unheard, AliveSet
<1>12. LogsOut(p)'
  BY <1>3, <1>4, <1>6, <1>7, <1>9, <1>10, <1>11 DEF LogsOut, Works, UiHas
<1> QED
  BY <1>6, <1>12 DEF AuthInv, Somewhere

LEMMA LogoutThreadCompleteInv ==
  ASSUME AuthInv, NEW t \in Thread, onLogoutThreadComplete(t)
  PROVE  AuthInv'
<1>1. Core /\ TypeOK /\ Somewhere
  BY DEF AuthInv, Core
<1>2. /\ At(t, "onLogoutThreadComplete") /\ todo[t] # <<>>
      /\ Call(t, <<"WaitAlive", "DeleteAlive", "onLogoutComplete">>)
      /\ UNCHANGED <<handle, running, term, job, at, list>>
      /\ UNCHANGED <<AliveThread, SessionData, loginResult, failed, read, created, deleted>>
      /\ UNCHANGED <<screen, logins, begun, ended>>
      /\ ~LoggedIn' /\ LoggedIn' \in BOOLEAN
  BY DEF onLogoutThreadComplete, At, clientVars
<1>3. t \in OSThread /\ LogsOut(t) /\ Reports(t, "LogoutThread", {<<"onLogoutThreadComplete">>})
  BY <1>1, <1>2, Places
<1>4. /\ screen = "leaving" /\ begun = ended + 1 /\ CallersIdle /\ UiHas({<<>>})
      /\ Unheard /\ OthersLeave(t)
      /\ at[t] = "callbacks" /\ job[t] = "LogoutThread" /\ todo[t] = <<"onLogoutThreadComplete">>
  BY <1>3 DEF LogsOut, Reports
<1>5. <<"WaitAlive", "DeleteAlive", "onLogoutComplete">> \in Seq(AuthOp)
  BY DEF AuthOp
<1>6. /\ todo' \in [Thread -> Seq(Op)]
      /\ todo'[t] = <<"WaitAlive", "DeleteAlive", "onLogoutComplete">>
      /\ \A u \in Thread \ {t} : todo'[u] = todo[u]
  BY <1>1, <1>2, <1>4, <1>5, Calls
<1>7. Core'
  BY <1>1, <1>2, <1>6, AgendaCore DEF TypeOK
<1>8. OthersLeave(t)' /\ CallersIdle' /\ todo'["ui"] = todo["ui"]
  BY <1>2, <1>3, <1>4, <1>6, AgendaKept
<1>9. Unheard'
  BY <1>2, <1>4 DEF Unheard, AliveSet
<1>10. LogsOut(t)'
  BY <1>2, <1>4, <1>6, <1>8, <1>9 DEF LogsOut, Reports, UiHas
<1> QED
  BY <1>3, <1>7, <1>10 DEF AuthInv, Somewhere

LEMMA WaitAliveInv ==
  ASSUME AuthInv, NEW t \in Thread, WaitAlive(t)
  PROVE  AuthInv'
<1>1. Core /\ TypeOK /\ Handles /\ Somewhere
  BY DEF AuthInv, Core
<1>2. /\ todo[t] # <<>> /\ At(t, "WaitAlive")
      /\ Moves(t, IF handle[AliveThread] THEN <<"JoinAlive">> ELSE <<>>)
  BY DEF WaitAlive, At, Moves
<1>3. /\ t \in OSThread /\ LogsOut(t) /\ ~LoggedIn
      /\ Reports(t, "LogoutThread", {<<"WaitAlive", "DeleteAlive", "onLogoutComplete">>})
  BY <1>1, <1>2, Places
<1>4. /\ screen = "leaving" /\ begun = ended + 1 /\ ~LoggedIn /\ CallersIdle /\ UiHas({<<>>})
      /\ Unheard /\ OthersLeave(t) /\ at[t] = "callbacks" /\ job[t] = "LogoutThread"
      /\ todo[t] = <<"WaitAlive", "DeleteAlive", "onLogoutComplete">>
  BY <1>3 DEF LogsOut, Reports
<1>5. {"WaitAlive", "JoinAlive", "DeleteAlive", "onLogoutComplete"} \subseteq AuthOp
  BY DEF AuthOp
<1>6. PICK ops : ops = IF handle[AliveThread] THEN <<"JoinAlive">> ELSE <<>>
  OBVIOUS
<1>7. ops \in Seq(AuthOp) /\ Moves(t, ops) /\ Call(t, ops)
  BY <1>2, <1>5, <1>6 DEF Moves
<1>8. /\ Core'
      /\ UNCHANGED <<handle, term, job, at, list, LoggedIn, AliveThread, failed, created,
                     screen, begun, ended>>
      /\ \A u \in Thread \ {t} : todo'[u] = todo[u]
      /\ Unheard'
  BY <1>1, <1>4, <1>7, MovesOn
<1>9. /\ CallersIdle' /\ OthersLeave(t)' /\ todo'["ui"] = todo["ui"]
      /\ OthersSpent(t) => OthersSpent(t)'
  BY <1>3, <1>4, <1>8, AgendaKept
<1>10. CASE handle[AliveThread]
  <2>1. ops = <<"JoinAlive">>
    BY <1>6, <1>10
  <2>2. todo'[t] = <<"JoinAlive", "DeleteAlive", "onLogoutComplete">>
    <3>1. Tail(todo[t]) = <<"DeleteAlive", "onLogoutComplete">>
      BY <1>4, Agendas
    <3>2. todo'[t] = <<"JoinAlive">> \o Tail(todo[t])
      BY <1>1, <1>7, <2>1 DEF Call, TypeOK, ThreadTypeOK
    <3>3. <<"JoinAlive">> \o <<"DeleteAlive", "onLogoutComplete">>
            = <<"JoinAlive", "DeleteAlive", "onLogoutComplete">>
      BY <1>5, Concats
    <3> QED
      BY <3>1, <3>2, <3>3
  <2>3. LogsOut(t)'
    BY <1>4, <1>8, <1>9, <2>2 DEF LogsOut, Reports, UiHas
  <2> QED
    BY <1>3, <1>8, <2>3 DEF AuthInv, Somewhere
<1>11. CASE ~handle[AliveThread]
  <2>1. Call(t, <<>>)
    BY <1>6, <1>7, <1>11
  <2>2. todo'[t] = <<"DeleteAlive", "onLogoutComplete">>
    BY <1>1, <1>2, <1>4, <1>5, <2>1, Returns
  <2>3. OthersSpent(t)
    BY <1>1, <1>4, <1>11 DEF OthersLeave, OthersSpent, Leaves, Handles
  <2>4. Deletes(t)'
    BY <1>4, <1>8, <1>9, <2>2, <2>3 DEF Deletes, Reports, UiHas
  <2> QED
    BY <1>3, <1>8, <2>4 DEF AuthInv, Somewhere
<1> QED
  BY <1>10, <1>11

LEMMA JoinInv ==
  ASSUME AuthInv, NEW t \in Thread, Join(t)
  PROVE  AuthInv'
<1>1. Core /\ TypeOK /\ Somewhere
  BY DEF AuthInv, Core
<1>2. /\ At(t, "JoinAlive") /\ Exited(AliveThread)
      /\ todo[t] # <<>> /\ Moves(t, <<>>) /\ Call(t, <<>>)
  BY <1>1, Places DEF Join, At, Moves, Return
<1>3. /\ t \in OSThread /\ LogsOut(t) /\ ~LoggedIn
      /\ Reports(t, "LogoutThread", {<<"JoinAlive", "DeleteAlive", "onLogoutComplete">>})
  BY <1>1, <1>2, Places
<1>4. /\ screen = "leaving" /\ begun = ended + 1 /\ ~LoggedIn /\ CallersIdle /\ UiHas({<<>>})
      /\ Unheard /\ OthersLeave(t) /\ at[t] = "callbacks" /\ job[t] = "LogoutThread"
      /\ todo[t] = <<"JoinAlive", "DeleteAlive", "onLogoutComplete">>
  BY <1>3 DEF LogsOut, Reports
<1>5. OthersSpent(t)
  BY <1>2, <1>4 DEF OthersLeave, OthersSpent, Leaves, Exited, InWork
<1>6. /\ Core'
      /\ UNCHANGED <<handle, term, job, at, list, LoggedIn, AliveThread, failed, created,
                     screen, begun, ended>>
      /\ \A u \in Thread \ {t} : todo'[u] = todo[u]
      /\ Unheard'
  BY <1>1, <1>2, <1>4, NoOps, MovesOn
<1>7. CallersIdle' /\ OthersSpent(t)' /\ todo'["ui"] = todo["ui"]
  BY <1>3, <1>4, <1>5, <1>6, AgendaKept
<1>8. todo'[t] = <<"DeleteAlive", "onLogoutComplete">>
  <2>1. {"JoinAlive", "DeleteAlive", "onLogoutComplete"} \subseteq AuthOp
    BY DEF AuthOp
  <2> QED
    BY <1>1, <1>2, <1>4, <2>1, Returns
<1>9. Deletes(t)'
  BY <1>4, <1>6, <1>7, <1>8 DEF Deletes, Reports, UiHas
<1> QED
  BY <1>3, <1>6, <1>9 DEF AuthInv, Somewhere

LEMMA DeleteAliveInv ==
  ASSUME AuthInv, NEW t \in Thread, DeleteAlive(t)
  PROVE  AuthInv'
<1>1. Core /\ TypeOK /\ Somewhere
  BY DEF AuthInv, Core
<1>2. /\ At(t, "DeleteAlive") /\ todo[t] # <<>> /\ Call(t, <<>>)
      /\ UNCHANGED <<handle, running, term, job, at, list, SessionData, loginResult, failed,
                     read, created, clientVars>>
      /\ UNCHANGED <<screen, begun, ended>>
      /\ LoggedIn' = LoggedIn /\ AliveThread' = "NULL"
      /\ deleted' = deleted \cup ({AliveThread} \ {"NULL"})
  BY DEF DeleteAlive, At, Return, clientVars
<1>3. t \in OSThread /\ Deletes(t)
  BY <1>1, <1>2, Places
<1>4. /\ screen = "leaving" /\ begun = ended + 1 /\ ~LoggedIn /\ CallersIdle /\ UiHas({<<>>})
      /\ AliveThread \in created /\ OthersSpent(t) /\ at[t] = "callbacks"
      /\ job[t] = "LogoutThread" /\ todo[t] = <<"DeleteAlive", "onLogoutComplete">>
  BY <1>3 DEF Deletes, Reports, Unheard, AliveSet
<1>5. /\ todo' \in [Thread -> Seq(Op)] /\ todo'[t] = <<"onLogoutComplete">>
      /\ \A u \in Thread \ {t} : todo'[u] = todo[u]
  <2>1. {"DeleteAlive", "onLogoutComplete"} \subseteq AuthOp
    BY DEF AuthOp
  <2> QED
    BY <1>1, <1>2, <1>4, <2>1, Returns
<1>6. Core'
  BY <1>1, <1>2, <1>4, <1>5, DeleteCore DEF TypeOK
<1>7. OthersSpent(t)' /\ CallersIdle' /\ todo'["ui"] = todo["ui"]
  BY <1>2, <1>3, <1>4, <1>5, AgendaKept
<1>8. LoggedOut(t)'
  BY <1>2, <1>4, <1>5, <1>7 DEF LoggedOut, Reports, UiHas
<1> QED
  BY <1>3, <1>6, <1>8 DEF AuthInv, Somewhere

-----------------------------------------------------------------------------
(* Cleanup.                                                                *)

LEMMA WaitThreadInv ==
  ASSUME AuthInv, NEW t \in Thread, WaitThread(t)
  PROVE  AuthInv'
<1>1. Core /\ TypeOK /\ Somewhere
  BY DEF AuthInv, Core
<1>2. /\ At(t, "WaitLogin") \/ At(t, "WaitLogout")
      /\ t = "main" /\ Outside
      /\ todo[t] \in {<<"WaitLogin", "WaitLogout", "DeleteThreads">>,
                      <<"WaitLogout", "DeleteThreads">>}
  BY <1>1, Places DEF WaitThread
<1>3. NoSession /\ UiHas({<<>>}) /\ AllSpent /\ screen = "closed" /\ todo[t] # <<>>
      /\ \A c \in Caller \ {"ui", "main"} : todo[c] = <<>>
  BY <1>2, Agendas DEF Outside
<1>4. handle["LoginThread"] = FALSE /\ handle["LogoutThread"] = FALSE
  BY <1>1, <1>3, SpentIdle, NoHandle, AuthAssumption DEF AllSpent
<1>5. Moves(t, <<>>) /\ Call(t, <<>>)
  BY <1>3, <1>4 DEF WaitThread, Moves
<1>6. /\ Core'
      /\ UNCHANGED <<handle, term, job, at, list, LoggedIn, AliveThread, failed, created,
                     screen, begun, ended>>
      /\ \A u \in Thread \ {t} : todo'[u] = todo[u]
      /\ NoSession'
  BY <1>1, <1>3, <1>5, NoOps, MovesOn
<1>7. todo'[t] \in {<<"WaitLogout", "DeleteThreads">>, <<"DeleteThreads">>}
  <2>1. {"WaitLogin", "WaitLogout", "DeleteThreads"} \subseteq AuthOp
    BY DEF AuthOp
  <2> QED
    BY <1>1, <1>2, <1>3, <1>5, <2>1, Returns
<1>8. t \in Caller /\ "ui" \in Caller /\ Caller \subseteq Thread
  BY <1>2, AuthAssumption DEF Thread
<1>9. AllSpent'
  BY <1>3, <1>6, <1>8, AgendaKept
<1>10. Outside'
  BY <1>2, <1>3, <1>6, <1>7, <1>8, <1>9 DEF Outside, UiHas
<1> QED
  BY <1>6, <1>10 DEF AuthInv, Somewhere

LEMMA DeleteThreadsInv ==
  ASSUME AuthInv, NEW t \in Thread, DeleteThreads(t)
  PROVE  AuthInv'
<1>1. Core /\ TypeOK /\ Backed /\ Objects /\ Handles /\ Failures /\ Somewhere
  BY DEF AuthInv, Core
<1>2. /\ At(t, "DeleteThreads") /\ todo[t] # <<>> /\ Call(t, <<>>)
      /\ UNCHANGED <<handle, running, term, job, at, list>>
      /\ UNCHANGED <<LoggedIn, AliveThread, SessionData, loginResult, failed, read, created>>
      /\ UNCHANGED <<screen, logins, begun, ended>>
      /\ deleted' = deleted \cup {"LoginThread", "LogoutThread"} \cup ({AliveThread} \ {"NULL"})
  BY DEF DeleteThreads, At, Return, clientVars
<1>3. t = "main" /\ Outside /\ todo[t] = <<"DeleteThreads">>
  BY <1>1, <1>2, Places
<1>4. NoSession /\ UiHas({<<>>}) /\ AllSpent /\ screen = "closed" /\ AliveThread = "NULL"
      /\ \A c \in Caller \ {"ui", "main"} : todo[c] = <<>>
  BY <1>2, <1>3 DEF Outside, NoSession
<1>5. /\ todo' \in [Thread -> Seq(Op)] /\ todo'[t] = <<>>
      /\ \A u \in Thread \ {t} : todo'[u] = todo[u]
  BY <1>1, <1>2, <1>3, Returns
<1>6. deleted' = deleted \cup {"LoginThread", "LogoutThread"}
  BY <1>2, <1>4
<1>7. TypeOK'
  BY <1>1, <1>2, <1>5, <1>6, AuthAssumption DEF TypeOK, ThreadTypeOK
<1>8. Objects'
  BY <1>1, <1>2, <1>4, <1>6 DEF Objects
<1>9. Backed' /\ Handles' /\ Failures'
  BY <1>1, <1>2, BackedFrame DEF Handles, Failures
<1>10. t \in Caller /\ "ui" \in Caller /\ Caller \subseteq Thread
  BY <1>3, AuthAssumption DEF Thread
<1>11. AllSpent'
  BY <1>2, <1>4, <1>5, <1>10, AgendaKept
<1>12. NoSession'
  BY <1>2, <1>4 DEF NoSession
<1>13. Outside'
  BY <1>2, <1>3, <1>4, <1>5, <1>10, <1>11, <1>12 DEF Outside, UiHas
<1> QED
  BY <1>7, <1>8, <1>9, <1>13 DEF AuthInv, Core, Somewhere

(* The login dialog is shown when there is no session.                     *)
LEMMA Screens ==
  ASSUME Somewhere
  PROVE  /\ screen \in {"login", "stopping", "closed"} => Outside
         /\ screen = "main" => \E q \in OSThread : Inside(q) \/ Loses(q) \/ Lost(q)
BY DEF Somewhere, Outside, LoginAsked, Dismissed, LogsIn, Enters, Entered, Inside, Loses, Lost,
       LogoutAsked, LogsOut, Deletes, LoggedOut

LEMMA CleanupInv ==
  ASSUME AuthInv, Cleanup
  PROVE  AuthInv'
<1>1. Core /\ TypeOK /\ Somewhere
  BY DEF AuthInv, Core
<1>2. /\ screen = "closed"
      /\ todo' = [todo EXCEPT !["main"] = <<"WaitLogin", "WaitLogout", "DeleteThreads">>]
      /\ UNCHANGED <<handle, running, term, job, at, list>>
      /\ UNCHANGED <<LoggedIn, AliveThread, SessionData, loginResult, failed, read,
                     created, deleted>>
      /\ UNCHANGED <<screen, logins, begun, ended>>
  BY DEF Cleanup, authVars, clientVars
<1>3. Outside
  BY <1>1, <1>2, Screens
<1>4. NoSession /\ UiHas({<<>>}) /\ AllSpent
      /\ \A c \in Caller \ {"ui", "main"} : todo[c] = <<>>
  BY <1>3 DEF Outside
<1>5. {"main", "ui"} \subseteq Caller /\ Caller \subseteq Thread /\ OSThread \cap Caller = {}
  BY ThreadAssumption, AuthAssumption DEF Thread
<1>6. <<"WaitLogin", "WaitLogout", "DeleteThreads">> \in Seq(Op)
  <2>1. {"WaitLogin", "WaitLogout", "DeleteThreads"} \subseteq AuthOp
    BY DEF AuthOp
  <2> QED
    BY <2>1, AuthOpsAssumption
<1>7. /\ todo' \in [Thread -> Seq(Op)]
      /\ todo'["main"] = <<"WaitLogin", "WaitLogout", "DeleteThreads">>
      /\ \A u \in Thread \ {"main"} : todo'[u] = todo[u]
  BY <1>1, <1>2, <1>5, <1>6 DEF TypeOK, ThreadTypeOK
<1>8. Core'
  BY <1>1, <1>2, <1>7, AgendaCore DEF TypeOK
<1>9. AllSpent'
  BY <1>2, <1>4, <1>5, <1>7, AgendaKept
<1>10. NoSession'
  BY <1>2, <1>4 DEF NoSession
<1>11. Outside'
  BY <1>2, <1>4, <1>5, <1>7, <1>9, <1>10 DEF Outside, UiHas
<1> QED
  BY <1>8, <1>11 DEF AuthInv, Somewhere

-----------------------------------------------------------------------------
(* The client.                                                             *)

LEMMA LoginInv ==
  ASSUME AuthInv, Login
  PROVE  AuthInv'
<1>1. Core /\ TypeOK /\ Somewhere
  BY DEF AuthInv, Core
<1>2. /\ screen = "login" /\ screen' = "busy" /\ logins' = logins + 1
      /\ todo' = [todo EXCEPT !["ui"] = IF LoggedIn THEN <<>> ELSE <<"RunLogin">>]
      /\ UNCHANGED <<handle, running, term, job, at, list>>
      /\ UNCHANGED <<LoggedIn, AliveThread, SessionData, loginResult, failed, read,
                     created, deleted>>
      /\ begun' = begun /\ ended' = ended
  BY DEF Login, authVars
<1>3. Outside
  BY <1>1, <1>2, Screens
<1>4. NoSession /\ AllSpent /\ \A c \in Caller \ {"ui"} : todo[c] = <<>>
  BY <1>2, <1>3 DEF Outside
<1>5. "ui" \in Caller /\ Caller \subseteq Thread /\ OSThread \cap Caller = {}
  BY ThreadAssumption, AuthAssumption DEF Thread
<1>6. <<"RunLogin">> \in Seq(Op)
  BY AuthOpsAssumption DEF AuthOp
<1>7. /\ todo' \in [Thread -> Seq(Op)] /\ todo'["ui"] = <<"RunLogin">>
      /\ \A u \in Thread \ {"ui"} : todo'[u] = todo[u]
  BY <1>1, <1>2, <1>4, <1>5, <1>6 DEF TypeOK, ThreadTypeOK, NoSession
<1>8. Core'
  BY <1>1, <1>2, <1>7, AgendaCore DEF TypeOK, Screen
<1>9. AllSpent' /\ CallersIdle'
  BY <1>2, <1>4, <1>5, <1>7, AgendaKept DEF CallersIdle
<1>10. NoSession'
  BY <1>2, <1>4 DEF NoSession
<1>11. LoginAsked'
  BY <1>2, <1>7, <1>9, <1>10 DEF LoginAsked, UiHas
<1> QED
  BY <1>8, <1>11 DEF AuthInv, Somewhere

LEMMA LogoutInv ==
  ASSUME Calm, AuthInv, Logout
  PROVE  AuthInv'
<1>1. Core /\ TypeOK /\ Somewhere
  BY DEF AuthInv, Core
<1>2. /\ screen = "main" /\ screen' = "leaving" /\ Quiet
      /\ todo' = [todo EXCEPT !["ui"] =
                    IF LoggedIn THEN <<"RemoveAlive", "SignalAlive", "RunLogout">> ELSE <<>>]
      /\ UNCHANGED <<handle, running, term, job, at, list>>
      /\ UNCHANGED <<LoggedIn, AliveThread, SessionData, loginResult, failed, read,
                     created, deleted>>
      /\ UNCHANGED <<logins, begun, ended>>
  BY DEF Logout, authVars
<1>3. \A q \in OSThread : ~Loses(q) /\ ~Lost(q)
  BY <1>2 DEF Quiet, Loses, Lost, Works, Reports
<1>4. PICK q \in OSThread : Inside(q)
  BY <1>1, <1>2, <1>3, Screens
<1>5. begun = ended + 1 /\ LoggedIn /\ CallersIdle /\ KeepsAlive(q) /\ OthersSpent(q)
  BY <1>4 DEF Inside
<1>6. "ui" \in Caller /\ Caller \subseteq Thread /\ OSThread \cap Caller = {} /\ q \in Thread
  BY ThreadAssumption, AuthAssumption DEF Thread
<1>7. <<"RemoveAlive", "SignalAlive", "RunLogout">> \in Seq(Op)
  <2>1. {"RemoveAlive", "SignalAlive", "RunLogout"} \subseteq AuthOp
    BY DEF AuthOp
  <2> QED
    BY <2>1, AuthOpsAssumption
<1>8. /\ todo' \in [Thread -> Seq(Op)]
      /\ todo'["ui"] = <<"RemoveAlive", "SignalAlive", "RunLogout">>
      /\ \A u \in Thread \ {"ui"} : todo'[u] = todo[u]
  BY <1>1, <1>2, <1>5, <1>6, <1>7 DEF TypeOK, ThreadTypeOK
<1>9. Core'
  BY <1>1, <1>2, <1>8, AgendaCore DEF TypeOK, Screen
<1>10. CallersIdle' /\ \A o \in OSThread \ {"ui"} : Spent(o) => Spent(o)'
  BY <1>2, <1>5, <1>6, <1>8, AgendaKept
<1>11. OthersSpent(q)'
  BY <1>5, <1>6, <1>10 DEF OthersSpent
<1>12. todo'[q] = todo[q]
  BY <1>6, <1>8
<1>13. KeepsAlive(q)'
  BY <1>2, <1>5, <1>12 DEF KeepsAlive, Heard, AliveSet
<1>14. LogoutAsked(q)'
  BY <1>2, <1>5, <1>8, <1>10, <1>11, <1>13 DEF LogoutAsked, UiHas
<1> QED
  BY <1>9, <1>14 DEF AuthInv, Somewhere

LEMMA DialogInv ==
  ASSUME Calm, AuthInv, CloseLogin \/ Stopped
  PROVE  AuthInv'
<1>1. Core /\ TypeOK /\ Somewhere
  BY DEF AuthInv, Core
<1>2. /\ screen \in {"login", "stopping"} /\ screen' \in {"login", "closed"}
      /\ UNCHANGED <<handle, running, term, job, at, list, todo>>
      /\ UNCHANGED <<LoggedIn, AliveThread, SessionData, loginResult, failed, read,
                     created, deleted>>
      /\ UNCHANGED <<logins, begun, ended>>
  BY DEF CloseLogin, Stopped, workerVars, authVars
<1>3. Outside
  BY <1>1, <1>2, Screens
<1>4. Core'
  BY <1>1, <1>2, AgendaCore DEF TypeOK, ThreadTypeOK, Screen
<1>5. AllSpent => AllSpent'
  BY <1>2 DEF AllSpent, Spent
<1>6. Outside'
  BY <1>2, <1>3, <1>5 DEF Outside, NoSession, UiHas
<1> QED
  BY <1>4, <1>6 DEF AuthInv, Somewhere

-----------------------------------------------------------------------------
(* The invariant.                                                          *)

LEMMA InitInv == Init => AuthInv
<1> SUFFICES ASSUME Init PROVE AuthInv
  OBVIOUS
<1>1. /\ handle = [w \in Worker |-> FALSE] /\ running = [w \in Worker |-> FALSE]
      /\ term = [w \in Worker |-> FALSE] /\ job = [p \in OSThread |-> NoJob]
      /\ at = [p \in OSThread |-> "free"] /\ todo = [t \in Thread |-> <<>>]
      /\ ~LoggedIn /\ LoggedIn \in BOOLEAN /\ AliveThread = "NULL" /\ SessionData = 0
      /\ loginResult \in BOOLEAN
      /\ failed = [w \in AliveObject |-> 0] /\ read = [p \in OSThread |-> 0]
      /\ created = {} /\ deleted = {}
      /\ screen = "login" /\ logins = 0 /\ begun = 0 /\ ended = 0
  BY DEF Init
<1>2. list = [d \in Delegate |-> CASE d = "LoginThread"  -> <<"onLoginThreadComplete">>
                                   [] d = "LogoutThread" -> <<"onLogoutThreadComplete">>
                                   [] OTHER -> <<>>]
  BY DEF Init
<1>3. /\ {"onLoginThreadComplete", "onLogoutThreadComplete"} \subseteq Handler
      /\ {"LoginThread", "LogoutThread"} \subseteq Delegate /\ AliveObject \subseteq Delegate
      /\ {"LoginThread", "LogoutThread"} \cap AliveObject = {}
      /\ MaxFailed \in Nat \ {0} /\ NoJob \in Worker
  BY AuthAssumption, AuthOpsAssumption, ThreadAssumption DEF AuthHandler, Delegate, NoJob
<1>4. /\ list["LoginThread"] = <<"onLoginThreadComplete">>
      /\ list["LogoutThread"] = <<"onLogoutThreadComplete">>
      /\ \A d \in Delegate \ {"LoginThread", "LogoutThread"} : list[d] = <<>>
  BY <1>2, <1>3
<1>5. list \in [Delegate -> Seq(Handler)]
  <2>1. <<>> \in Seq(Handler)
    OBVIOUS
  <2>2. <<"onLoginThreadComplete">> \in Seq(Handler) /\ <<"onLogoutThreadComplete">> \in Seq(Handler)
    BY <1>3
  <2>3. \A d \in Delegate : list[d] \in Seq(Handler)
    BY <1>4, <2>1, <2>2
  <2>4. list = [d \in Delegate |-> list[d]]
    BY <1>2
  <2> QED
    BY <2>3, <2>4
<1>6. TypeOK
  <2>1. ThreadTypeOK
    <3>1. todo \in [Thread -> Seq(Op)]
      BY <1>1
    <3>2. at \in [OSThread -> Stage]
      BY <1>1 DEF Stage
    <3> QED
      BY <1>1, <1>3, <1>5, <3>1, <3>2 DEF ThreadTypeOK
  <2> QED
    BY <1>1, <1>3, <2>1 DEF TypeOK, Screen
<1>7. Objects
  BY <1>1, <1>3, <1>4, AuthAssumption DEF Objects
<1>8. Backed
  BY <1>1, BackedInit
<1>9. Handles /\ Failures
  BY <1>1 DEF Handles, Failures, InWork, Round
<1>10. Outside
  BY <1>1, AuthAssumption DEF Outside, NoSession, UiHas, AllSpent, Spent, Thread
<1> QED
  BY <1>6, <1>7, <1>8, <1>9, <1>10 DEF AuthInv, Core, Somewhere

LEMMA AuthStepInv ==
  ASSUME Calm, AuthInv, NEW t \in Thread, AuthStep(t)
  PROVE  AuthInv'
BY RunLoginInv, CreateLoginInv, LoginThreadCompleteInv, RunAliveInv, CreateAliveInv,
   LoginCompleteInv, AliveThreadCompleteInv, SessionEndsInv, RemoveAliveInv, SignalAliveInv,
   RunLogoutInv, CreateLogoutInv, LogoutThreadCompleteInv, WaitAliveInv, DeleteAliveInv,
   WaitThreadInv, JoinInv, DeleteThreadsInv
   DEF AuthStep

LEMMA StutterInv ==
  ASSUME AuthInv, UNCHANGED vars
  PROVE  AuthInv'
<1>1. Core /\ TypeOK /\ Backed /\ Objects /\ Handles /\ Failures /\ Somewhere
  BY DEF AuthInv, Core
<1>2. /\ UNCHANGED <<handle, running, term, job, at, list, todo>>
      /\ UNCHANGED <<LoggedIn, AliveThread, SessionData, loginResult, failed, read,
                     created, deleted>>
      /\ UNCHANGED <<screen, logins, begun, ended>>
  BY DEF vars, workerVars, authVars, clientVars
<1>3. Core'
  BY <1>1, <1>2, AgendaCore DEF TypeOK, ThreadTypeOK
<1>4. \A q \in OSThread : /\ Spent(q) => Spent(q)'
                          /\ Leaves(q) => Leaves(q)'
                          /\ KeepsAlive(q) => KeepsAlive(q)'
  BY <1>2 DEF Spent, Leaves, KeepsAlive, Heard, AliveSet
<1>5. /\ AllSpent => AllSpent'
      /\ \A q \in OSThread : OthersSpent(q) => OthersSpent(q)'
      /\ \A q \in OSThread : OthersLeave(q) => OthersLeave(q)'
  BY <1>4 DEF AllSpent, OthersSpent, OthersLeave
<1>6. /\ CallersIdle => CallersIdle'
      /\ NoSession => NoSession'
      /\ (Heard => Heard') /\ (Unheard => Unheard')
  BY <1>2 DEF CallersIdle, NoSession, Heard, Unheard, AliveSet
<1>7. /\ Outside => Outside'
      /\ LoginAsked => LoginAsked'
      /\ Dismissed => Dismissed'
  BY <1>2, <1>4, <1>5, <1>6 DEF Outside, LoginAsked, Dismissed, UiHas
<1>8. ASSUME NEW p \in OSThread
      PROVE  /\ LogsIn(p) => LogsIn(p)'
             /\ Enters(p) => Enters(p)'
             /\ Inside(p) => Inside(p)'
             /\ LogoutAsked(p) => LogoutAsked(p)'
             /\ Lost(p) => Lost(p)'
  BY <1>2, <1>4, <1>5, <1>6
     DEF LogsIn, Enters, Inside, LogoutAsked, Lost, UiHas, Works, Reports
<1>9. ASSUME NEW p \in OSThread
      PROVE  /\ Loses(p) => Loses(p)'
             /\ LogsOut(p) => LogsOut(p)'
             /\ Deletes(p) => Deletes(p)'
             /\ LoggedOut(p) => LoggedOut(p)'
  BY <1>2, <1>5, <1>6 DEF Loses, LogsOut, Deletes, LoggedOut, UiHas, Works, Reports
<1>10. ASSUME NEW p \in OSThread, NEW q \in OSThread \ {p}, Entered(p, q)
       PROVE  Entered(p, q)'
  BY <1>2, <1>4, <1>6, <1>10 DEF Entered, UiHas, Reports
<1>11. Somewhere'
  BY <1>1, <1>7, <1>8, <1>9, <1>10 DEF Somewhere
<1> QED
  BY <1>3, <1>11 DEF AuthInv

LEMMA NextInv ==
  ASSUME Calm, AuthInv, [Next]_vars
  PROVE  AuthInv'
<1>1. CASE \E p \in OSThread : Work(p)
  BY <1>1, WorkCore, WorkSomewhere DEF AuthInv
<1>2. CASE \E t \in Thread : AuthStep(t)
  BY <1>2, AuthStepInv
<1>3. CASE Login \/ Logout \/ CloseLogin \/ Stopped \/ Cleanup
  BY <1>3, LoginInv, LogoutInv, DialogInv, CleanupInv
<1>4. CASE UNCHANGED vars
  BY <1>4, StutterInv
<1> QED
  BY <1>1, <1>2, <1>3, <1>4 DEF Next

LEMMA SpecInv ==
  ASSUME Calm
  PROVE  Spec => []AuthInv
BY InitInv, NextInv, PTL DEF Spec

(* The types of Auth (Auth.cpp).                                           *)
THEOREM AuthTypes ==
  ASSUME Calm
  PROVE  Spec => []TypeOK
<1>1. AuthInv => TypeOK
  BY DEF AuthInv, Core
<1> QED
  BY <1>1, SpecInv, PTL

(***************************************************************************)
(* The ThreadAlive object in use is there, is not deleted under the thread *)
(* that executes it, and is the only one, through any number of sessions   *)
(* and however each of them ends (Auth.cpp 63-66, 97-127).                 *)
(***************************************************************************)
THEOREM AliveSafely ==
  ASSUME Calm
  PROVE  Spec => []AliveSafe
<1>1. ASSUME AuthInv PROVE AliveSafe
  <2>1. TypeOK /\ Objects /\ Somewhere
    BY <1>1 DEF AuthInv, Core
  <2>2. OneAlive
    <3> SUFFICES ASSUME NEW p \in OSThread, at[p] \in InWork, job[p] \in AliveObject,
                        job[p] # AliveThread
                 PROVE  FALSE
      BY DEF OneAlive
    <3>1. ~Spent(p) /\ ~Leaves(p) /\ ~KeepsAlive(p)
      BY SpentIdle DEF Leaves, KeepsAlive
    <3>2. job[p] \notin {"LoginThread", "LogoutThread"} /\ at[p] # "callbacks"
      BY AuthAssumption DEF InWork
    <3> QED
      BY <2>1, <3>1, <3>2, WorkTurn
         DEF LogsIn, Enters, Inside, Loses, Lost, LogoutAsked, LogsOut, Deletes, LoggedOut,
             Entered, Works, Reports
  <2>3. DeletedIdle
    <3> SUFFICES ASSUME NEW p \in OSThread, at[p] \in InWork, job[p] \in deleted
                 PROVE  FALSE
      BY DEF DeletedIdle
    <3>1. job[p] \in {"LoginThread", "LogoutThread"} \cup created
      BY <2>1 DEF Objects, InWork
    <3>2. CASE job[p] \in created
      <4>1. job[p] = AliveThread
        BY <2>1, <2>2, <3>2 DEF OneAlive, TypeOK
      <4> QED
        BY <2>1, <4>1 DEF Objects
    <3>3. CASE job[p] \in {"LoginThread", "LogoutThread"}
      <4>1. screen = "closed"
        BY <2>1, <3>3 DEF Objects
      <4>2. Spent(p)
        BY <2>1, <4>1, Screens DEF Outside, AllSpent
      <4> QED
        BY <4>2, SpentIdle
    <3> QED
      BY <3>1, <3>2, <3>3
  <2>4. AliveNotNull
    <3>1. AliveSet => AliveThread # "NULL"
      BY <2>1, AuthAssumption DEF AliveSet, TypeOK
    <3> QED
      BY <2>1, <3>1, Places
         DEF AliveNotNull, Enters, LogoutAsked, Dismissed, LogsOut, KeepsAlive, Heard, Unheard
  <2> QED
    BY <2>2, <2>3, <2>4 DEF AliveSafe
<1> QED
  BY <1>1, SpecInv, PTL

-----------------------------------------------------------------------------
(* Auth keeps its promise.                                                 *)

(* What the client can tell from where Auth is.                            *)
LEMMA Phases ==
  ASSUME AuthInv
  PROVE  /\ screen \in {"login", "stopping", "closed"} => phase = "out" /\ begun = ended
         /\ screen = "busy" => phase = "entering" /\ begun = ended
         /\ screen = "main" => phase = "in" /\ begun = ended + 1
         /\ screen = "leaving" => phase = "leaving" /\ begun = ended + 1
<1>1. begun \in Nat /\ ended \in Nat /\ Somewhere
  BY DEF AuthInv, Core, TypeOK
<1>2. /\ screen \in {"login", "stopping", "closed"} => begun = ended
      /\ screen = "busy" => begun = ended
      /\ screen = "main" => begun = ended + 1
      /\ screen = "leaving" => begun = ended + 1
  BY <1>1
     DEF Somewhere, Outside, LoginAsked, Dismissed, LogsIn, Enters, Entered, Inside, Loses, Lost,
         LogoutAsked, LogsOut, Deletes, LoggedOut, NoSession
<1> QED
  BY <1>1, <1>2 DEF phase

(* The steps the client cannot tell.                                       *)
LEMMA Stutters ==
  ASSUME UNCHANGED <<screen, begun, ended>>
  PROVE  UNCHANGED Promise!sessionVars
BY DEF phase, Promise!sessionVars

LEMMA PromiseLogin ==
  ASSUME Calm, AuthInv, Login
  PROVE  Promise!Login
<1>1. screen = "login" /\ screen' = "busy" /\ begun' = begun /\ ended' = ended
  BY DEF Login
<1>2. phase = "out"
  BY <1>1, Phases
<1>3. phase' = "entering"
  BY <1>1 DEF phase
<1> QED
  BY <1>1, <1>2, <1>3 DEF Promise!Login

LEMMA PromiseLogout ==
  ASSUME AuthInv, Logout
  PROVE  Promise!Logout
<1>1. screen = "main" /\ screen' = "leaving" /\ begun' = begun /\ ended' = ended
  BY DEF Logout
<1>2. phase = "in" /\ begun = ended + 1 /\ begun \in Nat /\ ended \in Nat
  BY <1>1, Phases DEF AuthInv, Core, TypeOK
<1>3. phase' = "leaving"
  BY <1>1, <1>2 DEF phase
<1> QED
  BY <1>1, <1>2, <1>3 DEF Promise!Logout

LEMMA PromiseAnswer ==
  ASSUME AuthInv, NEW t \in Thread, onLoginComplete(t)
  PROVE  Promise!Refused \/ Promise!Begin
<1>1. /\ At(t, "onLoginComplete") /\ ended' = ended
      /\ begun' = IF LoggedIn THEN begun + 1 ELSE begun
      /\ screen' = CASE screen = "closed" -> "closed"
                     [] LoggedIn -> "main"
                     [] OTHER -> "login"
  BY DEF onLoginComplete
<1>2. LogsIn(t) \/ \E q \in OSThread \ {t} : Entered(t, q)
  BY <1>1, Places DEF AuthInv
<1>3. screen = "busy"
  BY <1>2 DEF LogsIn, Entered
<1>4. phase = "entering" /\ begun = ended /\ begun \in Nat /\ ended \in Nat
  BY <1>3, Phases DEF AuthInv, Core, TypeOK
<1>5. CASE LoggedIn
  <2>1. screen' = "main" /\ begun' = begun + 1
    BY <1>1, <1>3, <1>5
  <2>2. phase' = "in"
    BY <1>1, <1>4, <2>1 DEF phase
  <2> QED
    BY <1>1, <1>4, <2>1, <2>2 DEF Promise!Begin
<1>6. CASE ~LoggedIn
  <2>1. screen' = "login" /\ begun' = begun
    BY <1>1, <1>3, <1>6
  <2>2. phase' = "out"
    BY <2>1 DEF phase
  <2> QED
    BY <1>1, <1>4, <2>1, <2>2 DEF Promise!Refused
<1> QED
  BY <1>5, <1>6

LEMMA PromiseEnd ==
  ASSUME AuthInv, NEW t \in Thread, SessionEnds(t)
  PROVE  Promise!End
<1>1. /\ At(t, "onLogoutComplete") \/ At(t, "onDisconnect")
      /\ begun' = begun /\ ended' = ended + 1
      /\ screen' = IF screen = "closed" THEN "closed" ELSE "stopping"
  BY DEF SessionEnds
<1>2. LoggedOut(t) \/ Lost(t)
  BY <1>1, Places DEF AuthInv
<1>3. screen \in {"leaving", "main"}
  BY <1>2 DEF LoggedOut, Lost
<1>4. phase \in {"in", "leaving"}
  BY <1>3, Phases
<1>5. phase' = "out"
  BY <1>1, <1>3 DEF phase
<1> QED
  BY <1>1, <1>4, <1>5 DEF Promise!End

(* A step of Auth, its threads or its client is a step of Session.         *)
LEMMA PromiseNext ==
  ASSUME Calm, AuthInv, [Next]_vars
  PROVE  [Promise!Next]_(Promise!sessionVars)
<1>1. CASE Login \/ Logout
  BY <1>1, PromiseLogin, PromiseLogout DEF Promise!Next
<1>2. CASE CloseLogin \/ Stopped
  <2>1. /\ screen \in {"login", "stopping"} /\ screen' \in {"login", "closed"}
        /\ begun' = begun /\ ended' = ended
    BY <1>2 DEF CloseLogin, Stopped
  <2>2. phase = "out" /\ phase' = "out"
    BY <2>1, Phases DEF phase
  <2> QED
    BY <2>1, <2>2 DEF Promise!sessionVars
<1>3. ASSUME NEW t \in Thread, AuthStep(t) PROVE [Promise!Next]_(Promise!sessionVars)
  <2>1. CASE onLoginComplete(t) \/ SessionEnds(t)
    BY <2>1, PromiseAnswer, PromiseEnd DEF Promise!Next
  <2>2. CASE ~(onLoginComplete(t) \/ SessionEnds(t))
    <3>1. UNCHANGED <<screen, begun, ended>>
      BY <1>3, <2>2
         DEF AuthStep, RunLogin, CreateLogin, onLoginThreadComplete, RunAlive, CreateAlive,
             onAliveThreadComplete, RemoveAlive, SignalAlive, RunLogout, CreateLogout,
             onLogoutThreadComplete, WaitAlive, DeleteAlive, WaitThread, Join, DeleteThreads,
             clientVars
    <3> QED
      BY <3>1, Stutters
  <2> QED
    BY <2>1, <2>2
<1>4. CASE \E p \in OSThread : Work(p)
  <2>1. UNCHANGED <<screen, begun, ended>>
    BY <1>4
       DEF Work, LoginWork, AliveStarts, AliveChecks, AliveReads, AliveSends, AliveAnswered,
           AliveFails, LogoutReads, LogoutSends, LogoutClears, clientVars
  <2> QED
    BY <2>1, Stutters
<1>5. CASE Cleanup \/ UNCHANGED vars
  <2>1. UNCHANGED <<screen, begun, ended>>
    BY <1>5 DEF Cleanup, vars, clientVars
  <2> QED
    BY <2>1, Stutters
<1> QED
  BY <1>1, <1>2, <1>3, <1>4, <1>5 DEF Next

(***************************************************************************)
(* Auth keeps the promise of Session: through any number of sessions every *)
(* Login is answered once and every session ends once, by a logout or by a *)
(* disconnection but never by both (Auth.cpp 47-127).                      *)
(***************************************************************************)
THEOREM PromiseKept ==
  ASSUME Calm
  PROVE  Spec => KeepsPromise
<1>1. Init => Promise!Init
  BY DEF Init, Promise!Init, phase
<1>2. ASSUME AuthInv, [Next]_vars PROVE [Promise!Next]_(Promise!sessionVars)
  BY <1>2, PromiseNext
<1> QED
  BY <1>1, <1>2, SpecInv, PTL DEF Spec, KeepsPromise, Promise!Spec

(* What Session promises holds of Auth (Loggedin.cpp 165-187, 221-242).    *)
THEOREM AuthBalanced ==
  ASSUME Calm
  PROVE  Spec => []Promise!Balanced
BY PromiseKept, SessionsBalanced, PTL DEF KeepsPromise

=============================================================================
