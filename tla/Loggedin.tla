------------------------------ MODULE Loggedin ------------------------------
(***************************************************************************)
(* DreamAuth2/Loggedin.cpp and the part of Main.cpp that drives it: the    *)
(* main dialog of a logged-in user, which starts the game module, changes  *)
(* the inject method, and stops the module on logout and on disconnection. *)
(*                                                                         *)
(* Threads: "ui" owns the main dialog, "main" is WinMain's thread (it      *)
(* waits for the login dialog to close and then cleans up); "login",       *)
(* "logout" and "alive" are the worker threads of Auth, which here promise *)
(* one completion per login and one end (logout or disconnection) of each  *)
(* session.                                                                *)
(***************************************************************************)
EXTENDS GameModule

CONSTANTS
  Pace,       (* when the user and the network act (see MayAct)            *)
  MaxLogins,  (* bound: logins in a behaviour                              *)
  MaxChanges  (* bound: clicks on the inject method in a behaviour         *)

ASSUME LoggedinAssumption ==
  /\ Pace \in {"any", "opened", "idle"}
  /\ MaxLogins \in Nat
  /\ MaxChanges \in Nat

VARIABLES
  front,    (* the dialog in front of the user                             *)
  lock,     (* the main dialog's controls are disabled (STATE_LOCK)        *)
  event,    (* Event: what the user asked the session to end with          *)
  session,  (* Auth: logging in, LoggedIn, logging out                     *)
  logins,   (* logins so far                                               *)
  changes   (* changes of the inject method so far                         *)

dialogVars == <<front, lock, event, session, logins, changes>>
vars == <<gameVars, dialogVars>>

DialogHandler == {"UpdateInjectMethodComplete", "onLogoutComplete2", "onDisconnectComplete"}
DialogOp == DialogHandler \cup {"MainDialog", "MainLock", "OnLogoutComplete", "OnDisconnect"}

AllHandlers == GameHandler \cup DialogHandler
AllOps == GameOp \cup DialogOp
Callers == {"ui", "main", "login", "logout", "alive"}
Events == {"onActionComplete"}

(* What the instance of WorkerThread has to offer this module.             *)
ASSUME DialogAssumption ==
  /\ Callers \subseteq Caller
  /\ Handler = AllHandlers
  /\ DialogOp \subseteq Op

FrontDialog == {"login", "main", "hidden", "closed"}
Session == {"out", "entering", "in", "leaving"}

Init ==
  /\ ThreadInit
  /\ GameInit
  /\ front = "login"
  /\ lock = FALSE
  /\ event = "LOGOUT"
  /\ session = "out"
  /\ logins = 0
  /\ changes = 0

(***************************************************************************)
(* When user, network and game act, relative to the client's threads.    *)
(* "opened": a click, a disconnection or the game may come at any moment   *)
(* after the login thread has opened the main dialog.  "idle": it comes    *)
(* after every thread has finished what it was doing, which takes the      *)
(* client microseconds (and the search thread, which sleeps between its    *)
(* polls, 50 milliseconds) where a click takes a second and a              *)
(* disconnection three missed keep-alives.  "any": no such assumption.     *)
(***************************************************************************)
Resting(p) ==
  \/ at[p] = "free"
  \/ at[p] = "loop" /\ job[p] = "search" /\ ~term["search"]
  \/ at[p] = "listen" /\ ~term["pipe"]
  \/ at[p] = "serve"

Idle == (\A t \in Thread : todo[t] = <<>>) /\ (\A p \in OSThread : Resting(p))

MayAct ==
  \/ Pace = "any"
  \/ Pace = "opened" /\ todo["login"] = <<>>
  \/ Pace = "idle" /\ Idle

(* No pace binds a game that a stop waits for.                             *)
GameTurn == MayAct \/ term["pipe"]

-----------------------------------------------------------------------------
(* The login dialog and the completion of a login.                         *)

Login ==
  /\ front = "login"
  /\ session = "out"
  /\ todo["login"] = <<>>
  /\ MayAct
  /\ logins < MaxLogins
  /\ session' = "entering"
  /\ logins' = logins + 1
  /\ UNCHANGED <<gameVars, front, lock, event, changes>>

LoginFails ==
  /\ session = "entering"
  /\ session' = "out"
  /\ UNCHANGED <<gameVars, front, lock, event, logins, changes>>

(* Main::OnLoginComplete hides the login dialog and opens the main one.    *)
LoginSucceeds ==
  /\ session = "entering"
  /\ MayAct
  /\ session' = "in"
  /\ front' = IF front = "login" THEN "hidden" ELSE front
  /\ todo' = [todo EXCEPT !["login"] = <<"MainDialog", "MainLock", "Start">>]
  /\ UNCHANGED <<handle, running, term, job, at, list, moduleVars,
                 lock, event, logins, changes>>

(* SetState(STATE_INITIAL) ... Show(true): the user can click from here on. *)
MainDialog(t) ==
  /\ At(t, "MainDialog")
  /\ Return(t)
  /\ lock' = FALSE
  /\ front' = IF front = "hidden" THEN "main" ELSE front
  /\ UNCHANGED <<handle, running, term, job, at, list, moduleVars,
                 event, session, logins, changes>>

MainLock(t) ==
  /\ At(t, "MainLock")
  /\ Return(t)
  /\ lock' = TRUE
  /\ AddHandler("onActionComplete", "UpdateInjectMethodComplete")
  /\ UNCHANGED <<handle, running, term, job, at, moduleVars,
                 front, event, session, logins, changes>>

-----------------------------------------------------------------------------
(* The user and the main dialog.                                           *)

Clickable ==
  /\ front = "main" /\ ~lock
  /\ todo["ui"] = <<>>
  /\ MayAct

UpdateInjectMethod(m) ==
  /\ Clickable
  /\ m = "auto" => Admin
  /\ m # InjectMethod
  /\ changes < MaxChanges
  /\ changes' = changes + 1
  /\ lock' = TRUE
  /\ AddHandler("onActionComplete", "UpdateInjectMethodComplete")
  /\ arg' = [arg EXCEPT !["ui"] = m]
  /\ todo' = [todo EXCEPT !["ui"] = <<"Change">>]
  /\ UNCHANGED <<handle, running, term, job, at,
                 State, InjectMethod, ToInjectMethod, profile, pipe, deleted,
                 front, event, session, logins>>

UpdateInjectMethodComplete(t) ==
  /\ At(t, "UpdateInjectMethodComplete")
  /\ Return(t)
  /\ RemoveHandler("onActionComplete", "UpdateInjectMethodComplete")
  /\ lock' = FALSE
  /\ UNCHANGED <<handle, running, term, job, at, moduleVars,
                 front, event, session, logins, changes>>

(* The logout button (LOGOUT) and WM_CLOSE (EXIT); Auth::Logout does       *)
(* nothing unless logged in.                                               *)
Leaving(e) ==
  /\ Clickable
  /\ lock' = TRUE
  /\ event' = e
  /\ session' = IF session = "in" THEN "leaving" ELSE session
  /\ UNCHANGED <<gameVars, front, logins, changes>>

-----------------------------------------------------------------------------
(* The end of a session.                                                   *)

LogoutDone ==
  /\ session = "leaving"
  /\ MayAct
  /\ todo["logout"] = <<>>
  /\ session' = "out"
  /\ todo' = [todo EXCEPT !["logout"] = <<"OnLogoutComplete">>]
  /\ UNCHANGED <<handle, running, term, job, at, list, moduleVars,
                 front, lock, event, logins, changes>>

Disconnected ==
  /\ session = "in"
  /\ todo["alive"] = <<>>
  /\ MayAct
  /\ session' = "out"
  /\ todo' = [todo EXCEPT !["alive"] = <<"OnDisconnect">>]
  /\ UNCHANGED <<handle, running, term, job, at, list, moduleVars,
                 front, lock, event, logins, changes>>

OnLogoutComplete(t) ==
  /\ At(t, "OnLogoutComplete")
  /\ Call(t, <<"Stop">>)
  /\ AddHandler("onActionComplete", "onLogoutComplete2")
  /\ UNCHANGED <<handle, running, term, job, at, moduleVars, dialogVars>>

OnDisconnectAddsItself(t) ==
  /\ At(t, "OnDisconnect")
  /\ Call(t, <<"Stop">>)
  /\ AddHandler("onActionComplete", "OnDisconnect")
  /\ lock' = TRUE
  /\ UNCHANGED <<handle, running, term, job, at, moduleVars,
                 front, event, session, logins, changes>>

OnDisconnect(t) ==
  /\ At(t, "OnDisconnect")
  /\ Call(t, <<"Stop">>)
  /\ AddHandler("onActionComplete", "onDisconnectComplete")
  /\ lock' = TRUE
  /\ UNCHANGED <<handle, running, term, job, at, moduleVars,
                 front, event, session, logins, changes>>

(* onEvent reaches Main::OnLoggedinEvent, which shows or closes the login  *)
(* dialog; a closed dialog stays closed.                                   *)
Back(f) == front' = IF front = "closed" THEN "closed" ELSE f

onLogoutComplete2(t) ==
  /\ At(t, "onLogoutComplete2")
  /\ Return(t)
  /\ RemoveHandler("onActionComplete", "onLogoutComplete2")
  /\ Back(IF event = "LOGOUT" THEN "login" ELSE "closed")
  /\ UNCHANGED <<handle, running, term, job, at, moduleVars,
                 lock, event, session, logins, changes>>

onDisconnectComplete(t) ==
  /\ At(t, "onDisconnectComplete")
  /\ Return(t)
  /\ RemoveHandler("onActionComplete", "onDisconnectComplete")
  /\ lock' = FALSE
  /\ Back("login")
  /\ UNCHANGED <<handle, running, term, job, at, moduleVars,
                 event, session, logins, changes>>

(* The user closes the login dialog.                                       *)
CloseLogin ==
  /\ front = "login"
  /\ MayAct
  /\ Pace = "idle" => session = "out"
  /\ front' = "closed"
  /\ UNCHANGED <<gameVars, lock, event, session, logins, changes>>

(* Dialog->WaitClose() returns in Main.                                    *)
WaitClose ==
  /\ front = "closed"
  /\ State # "UNINITED"
  /\ todo["main"] = <<>>
  /\ todo' = [todo EXCEPT !["main"] = <<"Cleanup">>]
  /\ UNCHANGED <<handle, running, term, job, at, list, moduleVars, dialogVars>>

-----------------------------------------------------------------------------
(* A process that failed an assertion is gone.                             *)
Running == \A t \in Thread : ~At(t, "Abort")

DialogStep(t) ==
  \/ MainDialog(t) \/ MainLock(t) \/ UpdateInjectMethodComplete(t)
  \/ OnLogoutComplete(t) \/ OnDisconnect(t)
  \/ onLogoutComplete2(t) \/ onDisconnectComplete(t)

User ==
  \/ Login \/ CloseLogin
  \/ \E m \in Method : UpdateInjectMethod(m)
  \/ \E e \in {"LOGOUT", "EXIT"} : Leaving(e)

AuthStep == LoginSucceeds \/ LoginFails \/ LogoutDone \/ Disconnected

Next ==
  /\ Running
  /\ \/ User
     \/ AuthStep
     \/ WaitClose
     \/ \E t \in Thread : DialogStep(t) \/ (GameStep(t) /\ UNCHANGED dialogVars)
     \/ \E p \in OSThread : (HandlerStep(p) \/ WorkStep(p)) /\ UNCHANGED dialogVars
     \/ \E p \in OSThread : GameTurn /\ GameAct(p) /\ UNCHANGED dialogVars

Spec == Init /\ [][Next]_vars

(***************************************************************************)
(* Every thread of the client is scheduled and every request of Auth ends  *)
(* (its socket has a timeout, however often the game comes and goes in the *)
(* meantime).  The user, the network and the game owe nothing: no click,   *)
(* disconnection, connection or departure need happen.                     *)
(***************************************************************************)
Fairness ==
  /\ \A t \in Thread :
       WF_vars(Running /\ (DialogStep(t) \/ (GameStep(t) /\ UNCHANGED dialogVars)))
  /\ \A p \in OSThread :
       WF_vars(Running /\ (HandlerStep(p) \/ WorkStep(p)) /\ UNCHANGED dialogVars)
  /\ SF_vars(Running /\ (LoginSucceeds \/ LoginFails))
  /\ SF_vars(Running /\ LogoutDone)
  /\ WF_vars(Running /\ WaitClose)

FairSpec == Spec /\ Fairness

-----------------------------------------------------------------------------
TypeOK ==
  /\ ThreadTypeOK
  /\ GameTypeOK
  /\ front \in FrontDialog
  /\ lock \in BOOLEAN
  /\ event \in {"LOGOUT", "EXIT"}
  /\ session \in Session
  /\ logins \in 0..MaxLogins
  /\ changes \in 0..MaxChanges

(* A module that reports STATE_INITED has no thread left running: the next *)
(* Start finds Run ready to start both (GameModule.cpp 124-135).           *)
InitedQuiet ==
  State = "INITED" => ~running["search"] /\ ~running["pipe"]

(* assert(State == STATE_INITED), GameModule.cpp line 104.                 *)
StartAssertion == \A t \in Thread : At(t, "Start") => State = "INITED"

(* assert(State == STATE_STARTED), GameModule.cpp line 138.                *)
StopAssertion == \A t \in Thread : At(t, "Stop") => State = "STARTED"

Assertions == StartAssertion /\ StopAssertion

Pending(op) == \E t \in Thread : op \in Range(todo[t])

(***************************************************************************)
(* While the main dialog takes a click, no change is in progress: no thread*)
(* is inside Change or DoChange and no search thread has been told to end  *)
(* for one.  The lock is taken by UpdateInjectMethod and released by a     *)
(* handler on whatever thread completes the change.                        *)
(***************************************************************************)
ChangeLocked ==
  front = "main" /\ ~lock /\ todo["ui"] = <<>> =>
    /\ ~Pending("Change") /\ ~Pending("ChangeWait") /\ ~Pending("DoChange")
    /\ "onThreadEndForCleanup" \notin Range(list["search"])

(***************************************************************************)
(* onActionComplete serves Start, Change and Stop alike, so whoever adds a *)
(* handler must have it removed before adding it again: each handler is in *)
(* the list at most once, or it runs twice for one completion.             *)
(***************************************************************************)
AddedOnce ==
  /\ IsInjective(list["onActionComplete"])
  /\ Cardinality({i \in DOMAIN list["search"] :
                   list["search"][i] = "onThreadEndForCleanup"}) <= 1

(* What is at rest is so on all threads: a module between two sessions, a  *)
(* dialog between two clicks and a delegate between two operations.        *)
AtRest == InitedQuiet /\ ChangeLocked /\ AddedOnce

(***************************************************************************)
(* The module goes around INITED, STARTING, STARTED, STOPPING, INITED and  *)
(* never jumps: the late second DoStop of a stop, executed by whichever of *)
(* the two threads ended last, must not reach into the next session, nor a *)
(* leftover StartChangeComplete revive a stopped module.  (Only a module   *)
(* that Cleanup has deleted can still be reached by that second DoStop.)   *)
(***************************************************************************)
StateCycle ==
  [][State' \in CASE State = "INITED"   -> {"STARTING", "UNINITED"}
                 [] State = "STARTING" -> {"STARTED"}
                 [] State = "STARTED"  -> {"STOPPING"}
                 [] State = "STOPPING" -> {"INITED"}
                 [] State = "UNINITED" -> {"INITED"}]_State

(* A stop waits for the game: its signal does not reach a pipe thread that *)
(* is reading from a connected one.                                        *)
Held == \E p \in OSThread : at[p] = "serve" /\ term["pipe"]

(***************************************************************************)
(* Unless a connected game holds it for ever, every stop completes: both   *)
(* threads see their stop signal, whatever the pipe thread is doing when   *)
(* it comes, and the last of them to end executes DoStop (GameModule.cpp   *)
(* 110-136).                                                               *)
(***************************************************************************)
StopCompletes == []<>~Held => (State = "STOPPING" ~> State = "INITED")

(* With the same proviso, a locked main dialog is unlocked or left: the    *)
(* user is never stuck behind a change, a logout or a disconnection whose  *)
(* completion went missing (Loggedin.cpp 105-118, 154-187).                *)
LockEnds ==
  []<>~Held => (front = "main" /\ lock ~> ~(front = "main" /\ lock))

=============================================================================
