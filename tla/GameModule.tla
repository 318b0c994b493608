----------------------------- MODULE GameModule -----------------------------
(***************************************************************************)
(* DreamAuth2/GameModule.cpp: the module that serves the game.  A search   *)
(* thread looks for the Warcraft III window (inject method "auto"), a pipe *)
(* thread answers the injected DLL.  Start, Change and Stop are called by  *)
(* the dialogs' and Auth's threads; their second halves run as completion  *)
(* handlers on the search and pipe threads themselves.                     *)
(*                                                                         *)
(* ThreadSearch.cpp and ThreadPipe.cpp supply the two Work functions.      *)
(***************************************************************************)
EXTENDS WorkerThread

CONSTANT Admin  (* IsAdminPrivilegeAvaliable()                             *)

VARIABLES
  State,           (* the module's state                                   *)
  InjectMethod,    (* the method in force                                  *)
  ToInjectMethod,  (* the method Change was last asked for                 *)
  profile,         (* [Auth] InjectMethod in the profile file              *)
  arg,             (* the argument of the Change a caller is executing     *)
  pipe,            (* ctx_.pipe is a valid handle                          *)
  deleted          (* WorkerThread objects Cleanup has deleted             *)

moduleVars == <<State, InjectMethod, ToInjectMethod, profile, arg, pipe, deleted>>
gameVars == <<workerVars, moduleVars>>

Method == {"auto", "passive"}
StateEnum == {"UNINITED", "INITED", "STARTED", "STARTING", "STOPPING"}

GameWorker == {"search", "pipe"}

(* Functions GameModule adds to delegates.                                 *)
GameHandler == {"onThreadEndForCleanup", "onThreadEndForModuleCleanup",
                "StartChangeComplete"}

GameOp == GameHandler \cup
  {"Start", "StartAdd", "RunPipe", "CreatePipe",
   "Change", "ChangeWait", "SetTo",
   "DoChange", "RunSearch", "CreateSearch", "SetMethod", "InvokeAction",
   "ModuleCleanupPipe", "DoStop",
   "Stop", "StopSearch", "SignalSearch", "StopPipe", "StopPipeWaiting", "SignalPipe", "ClosePipe",
   "Cleanup", "CleanupWait", "WaitSearch", "JoinSearch", "DeleteSearch",
   "WaitPipe", "JoinPipe", "DeletePipe", "Abort"}

(* What the instance of WorkerThread has to offer this module.             *)
ASSUME GameAssumption ==
  /\ GameWorker \subseteq Worker
  /\ "onActionComplete" \in Event
  /\ GameHandler \subseteq Handler
  /\ GameOp \subseteq Op
  /\ Admin \in BOOLEAN

GameInit ==
  /\ State = "INITED"
  /\ InjectMethod = "auto"
  /\ ToInjectMethod = "auto"
  /\ profile \in Method
  /\ arg = [t \in Caller |-> "auto"]
  /\ pipe = FALSE
  /\ deleted = {}

-----------------------------------------------------------------------------
(* Change and its second half.                                             *)

ChangeUnwaited(t) ==
  /\ At(t, "Change")
  /\ profile' = arg[t]
  /\ Call(t, <<"SetTo", "DoChange">>)
  /\ UNCHANGED <<handle, running, term, job, at, list,
                 State, InjectMethod, ToInjectMethod, arg, pipe, deleted>>

Change(t) ==
  /\ At(t, "Change")
  /\ profile' = arg[t]
  /\ Call(t, IF running["search"] THEN <<"ChangeWait", "SetTo">>
                                  ELSE <<"SetTo", "DoChange">>)
  /\ UNCHANGED <<handle, running, term, job, at, list,
                 State, InjectMethod, ToInjectMethod, arg, pipe, deleted>>

ChangeWaitUnhandled(t) ==
  /\ At(t, "ChangeWait")
  /\ Return(t)
  /\ term' = [term EXCEPT !["search"] = TRUE]
  /\ UNCHANGED <<handle, running, job, at, list, moduleVars>>

(* onThreadComplete += onThreadEndForCleanup; StopSignal().                *)
ChangeWait(t) ==
  /\ At(t, "ChangeWait")
  /\ Return(t)
  /\ AddHandler("search", "onThreadEndForCleanup")
  /\ term' = [term EXCEPT !["search"] = TRUE]
  /\ UNCHANGED <<handle, running, job, at, moduleVars>>

(* Assigned only after the stop signal: the search thread may be past its  *)
(* own DoChange already.                                                   *)
SetTo(t) ==
  /\ At(t, "SetTo")
  /\ Return(t)
  /\ ToInjectMethod' = arg[t]
  /\ UNCHANGED <<handle, running, term, job, at, list,
                 State, InjectMethod, profile, arg, pipe, deleted>>

DoChange(t) ==
  /\ At(t, "DoChange")
  /\ Call(t, IF ToInjectMethod = "auto"
             THEN <<"RunSearch", "SetMethod", "InvokeAction">>
             ELSE <<"SetMethod", "InvokeAction">>)
  /\ UNCHANGED <<handle, running, term, job, at, list, moduleVars>>

RunSearch(t) == RunCheck(t, "RunSearch", "search", "CreateSearch") /\ UNCHANGED moduleVars
CreateSearch(t) == RunCreate(t, "CreateSearch", "search") /\ UNCHANGED moduleVars

SetMethod(t) ==
  /\ At(t, "SetMethod")
  /\ Return(t)
  /\ InjectMethod' = ToInjectMethod
  /\ UNCHANGED <<handle, running, term, job, at, list,
                 State, ToInjectMethod, profile, arg, pipe, deleted>>

InvokeAction(t) ==
  /\ At(t, "InvokeAction")
  /\ Invoke(t, "onActionComplete")
  /\ UNCHANGED <<handle, running, term, job, at, list, moduleVars>>

onThreadEndForCleanup(t) ==
  /\ At(t, "onThreadEndForCleanup")
  /\ RemoveHandler(job[t], "onThreadEndForCleanup")
  /\ Call(t, IF running["search"] THEN <<>> ELSE <<"DoChange">>)
  /\ UNCHANGED <<handle, running, term, job, at, moduleVars>>

-----------------------------------------------------------------------------
(* Start.                                                                  *)

(* Line 104 asserts State == STATE_INITED; a failed assertion ends the     *)
(* process.                                                                *)
Start(t) ==
  /\ At(t, "Start")
  /\ IF State = "INITED"
     THEN /\ State' = "STARTING"
          /\ arg' = [arg EXCEPT ![t] = IF Admin THEN profile ELSE "passive"]
          /\ Call(t, <<"RunPipe", "StartAdd", "Change">>)
     ELSE /\ Call(t, <<"Abort">>)
          /\ UNCHANGED <<State, arg>>
  /\ UNCHANGED <<handle, running, term, job, at, list,
                 InjectMethod, ToInjectMethod, profile, pipe, deleted>>

RunPipe(t) == RunCheck(t, "RunPipe", "pipe", "CreatePipe") /\ UNCHANGED moduleVars
CreatePipe(t) == RunCreate(t, "CreatePipe", "pipe") /\ UNCHANGED moduleVars

StartAdd(t) ==
  /\ At(t, "StartAdd")
  /\ Return(t)
  /\ AddHandler("onActionComplete", "StartChangeComplete")
  /\ UNCHANGED <<handle, running, term, job, at, moduleVars>>

StartChangeCompleteKeeps(t) ==
  /\ At(t, "StartChangeComplete")
  /\ Return(t)
  /\ State' = "STARTED"
  /\ UNCHANGED <<handle, running, term, job, at, list,
                 InjectMethod, ToInjectMethod, profile, arg, pipe, deleted>>

StartChangeComplete(t) ==
  /\ At(t, "StartChangeComplete")
  /\ Return(t)
  /\ RemoveHandler("onActionComplete", "StartChangeComplete")
  /\ State' = "STARTED"
  /\ UNCHANGED <<handle, running, term, job, at,
                 InjectMethod, ToInjectMethod, profile, arg, pipe, deleted>>

-----------------------------------------------------------------------------
(* Stop and its second half.                                               *)

(* Line 138 asserts State == STATE_STARTED.                                *)
Stop(t) ==
  /\ At(t, "Stop")
  /\ IF State = "STARTED"
     THEN State' = "STOPPING" /\ Call(t, <<"StopSearch">>)
     ELSE Call(t, <<"Abort">>) /\ UNCHANGED State
  /\ UNCHANGED <<handle, running, term, job, at, list,
                 InjectMethod, ToInjectMethod, profile, arg, pipe, deleted>>

StopSearch(t) ==
  /\ At(t, "StopSearch")
  /\ Call(t, IF running["search"] THEN <<"SignalSearch", "StopPipeWaiting">>
                                  ELSE <<"StopPipe">>)
  /\ UNCHANGED <<handle, running, term, job, at, list, moduleVars>>

SignalSearch(t) ==
  /\ At(t, "SignalSearch")
  /\ Return(t)
  /\ AddHandler("search", "onThreadEndForModuleCleanup")
  /\ term' = [term EXCEPT !["search"] = TRUE]
  /\ UNCHANGED <<handle, running, job, at, moduleVars>>

(* need_wait is false when StopPipe executes, true for StopPipeWaiting.    *)
StopPipe(t) ==
  /\ \/ /\ At(t, "StopPipe")
        /\ Call(t, IF running["pipe"] THEN <<"SignalPipe">> ELSE <<"DoStop">>)
     \/ /\ At(t, "StopPipeWaiting")
        /\ Call(t, IF running["pipe"] THEN <<"SignalPipe">> ELSE <<>>)
  /\ UNCHANGED <<handle, running, term, job, at, list, moduleVars>>

(***************************************************************************)
(* ThreadPipe::StopSignal sets term_ and terminates the pipe.  Pipe_Term   *)
(* ends a pending ConnectNamedPipe by connecting itself, but cannot do so  *)
(* while a game holds the only instance, and its null message goes to a    *)
(* handle that is closed or was never opened.  What is left is the         *)
(* CloseHandle, which does not end the ReadFile of a thread that serves a  *)
(* game and which may itself wait for that ReadFile to end.                *)
(***************************************************************************)
ConnectedGame == \E p \in OSThread : at[p] = "serve"

PipeTerm(t, rest) ==
  \/ pipe' = FALSE /\ Call(t, rest)
  \/ ConnectedGame /\ Call(t, <<"ClosePipe">> \o rest) /\ UNCHANGED pipe

ClosePipe(t) ==
  /\ At(t, "ClosePipe")
  /\ ~ConnectedGame
  /\ pipe' = FALSE
  /\ Return(t)
  /\ UNCHANGED <<handle, running, term, job, at, list,
                 State, InjectMethod, ToInjectMethod, profile, arg, deleted>>

SignalPipeOpen(t) ==
  /\ At(t, "SignalPipe")
  /\ Return(t)
  /\ AddHandler("pipe", "onThreadEndForModuleCleanup")
  /\ term' = [term EXCEPT !["pipe"] = TRUE]
  /\ UNCHANGED <<handle, running, job, at, moduleVars>>

SignalPipe(t) ==
  /\ At(t, "SignalPipe")
  /\ AddHandler("pipe", "onThreadEndForModuleCleanup")
  /\ term' = [term EXCEPT !["pipe"] = TRUE]
  /\ PipeTerm(t, <<>>)
  /\ UNCHANGED <<handle, running, job, at,
                 State, InjectMethod, ToInjectMethod, profile, arg, deleted>>

DoStopForgets(t) ==
  /\ At(t, "DoStop")
  /\ Call(t, <<"InvokeAction">>)
  /\ UNCHANGED <<handle, running, term, job, at, list, moduleVars>>

DoStop(t) ==
  /\ At(t, "DoStop")
  /\ State' = "INITED"
  /\ Call(t, <<"InvokeAction">>)
  /\ UNCHANGED <<handle, running, term, job, at, list,
                 InjectMethod, ToInjectMethod, profile, arg, pipe, deleted>>

(* Line 131 removes onThreadEndForCleanup, so this handler stays in the    *)
(* list and the next session finds it there.                               *)
onThreadEndForModuleCleanup(t) ==
  /\ At(t, "onThreadEndForModuleCleanup")
  /\ RemoveHandler(job[t], "onThreadEndForCleanup")
  /\ Call(t, IF running["search"] THEN <<>> ELSE <<"ModuleCleanupPipe">>)
  /\ UNCHANGED <<handle, running, term, job, at, moduleVars>>

ModuleCleanupUnchecked(t) ==
  /\ At(t, "ModuleCleanupPipe")
  /\ Call(t, <<"DoStop">>)
  /\ UNCHANGED <<handle, running, term, job, at, list, moduleVars>>

ModuleCleanupPipe(t) ==
  /\ At(t, "ModuleCleanupPipe")
  /\ Call(t, IF running["pipe"] THEN <<>> ELSE <<"DoStop">>)
  /\ UNCHANGED <<handle, running, term, job, at, list, moduleVars>>

-----------------------------------------------------------------------------
(* Cleanup, executed when the login dialog has been closed.                *)

Cleanup(t) ==
  /\ At(t, "Cleanup")
  /\ Call(t, (IF State = "STARTED" THEN <<"Stop">> ELSE <<>>)
             \o <<"CleanupWait", "WaitSearch", "DeleteSearch", "WaitPipe", "DeletePipe">>)
  /\ UNCHANGED <<handle, running, term, job, at, list, moduleVars>>

(* while (State != STATE_INITED) Sleep(100);                               *)
CleanupWait(t) ==
  /\ At(t, "CleanupWait")
  /\ State = "INITED"
  /\ Return(t)
  /\ UNCHANGED <<handle, running, term, job, at, list, moduleVars>>

(* StopSignal, then Wait: without a thread_ Wait returns at once.          *)
WaitSearch(t) ==
  /\ At(t, "WaitSearch")
  /\ term' = [term EXCEPT !["search"] = TRUE]
  /\ Call(t, IF handle["search"] THEN <<"JoinSearch">> ELSE <<>>)
  /\ UNCHANGED <<handle, running, job, at, list, moduleVars>>

WaitPipe(t) ==
  /\ At(t, "WaitPipe")
  /\ term' = [term EXCEPT !["pipe"] = TRUE]
  /\ PipeTerm(t, IF handle["pipe"] THEN <<"JoinPipe">> ELSE <<>>)
  /\ UNCHANGED <<handle, running, job, at, list,
                 State, InjectMethod, ToInjectMethod, profile, arg, deleted>>

Join(t) ==
  /\ \/ At(t, "JoinSearch") /\ Exited("search")
     \/ At(t, "JoinPipe") /\ Exited("pipe")
  /\ Return(t)
  /\ UNCHANGED <<handle, running, term, job, at, list, moduleVars>>

Delete(t) ==
  /\ \/ At(t, "DeleteSearch") /\ deleted' = deleted \cup {"search"} /\ UNCHANGED State
     \/ At(t, "DeletePipe") /\ deleted' = deleted \cup {"pipe"} /\ State' = "UNINITED"
  /\ Return(t)
  /\ UNCHANGED <<handle, running, term, job, at, list,
                 InjectMethod, ToInjectMethod, profile, arg, pipe>>

-----------------------------------------------------------------------------
(***************************************************************************)
(* ThreadSearch::Work clears term_ first, then polls it.  Its search for   *)
(* the game window changes nothing GameModule's control depends on.        *)
(***************************************************************************)
ResetTerm(p, w, next) ==
  /\ at[p] = "work" /\ job[p] = w
  /\ term' = [term EXCEPT ![w] = FALSE]
  /\ at' = [at EXCEPT ![p] = next]
  /\ UNCHANGED <<handle, running, job, list, todo, moduleVars>>

Leave(p, w) ==
  /\ at[p] = "loop" /\ job[p] = w
  /\ term[w]
  /\ at' = [at EXCEPT ![p] = "left"]
  /\ UNCHANGED <<handle, running, term, job, list, todo, moduleVars>>

SearchWork(p) == ResetTerm(p, "search", "loop") \/ Leave(p, "search")

(***************************************************************************)
(* ThreadPipe::Work.  Between the check of term_ and Pipe_Create there is  *)
(* no pipe a StopSignal could terminate, and Pipe_Create starts afresh.    *)
(***************************************************************************)
PipeLoop(p) ==
  /\ at[p] = "loop" /\ job[p] = "pipe"
  /\ ~term["pipe"]
  /\ at' = [at EXCEPT ![p] = "create"]
  /\ UNCHANGED <<handle, running, term, job, list, todo, moduleVars>>

PipeCreate(p) ==
  /\ at[p] = "create"
  /\ pipe' = TRUE
  /\ at' = [at EXCEPT ![p] = "listen"]
  /\ UNCHANGED <<handle, running, term, job, list, todo,
                 State, InjectMethod, ToInjectMethod, profile, arg, deleted>>

(* Pipe_Listen fails when the pipe was terminated.  With term_ set Work    *)
(* still enters GameConnection_Loop, whose first ReadFile then fails: the  *)
(* client's end, or the handle itself, is closed.                          *)
PipeListenFails(p) ==
  /\ at[p] = "listen"
  /\ ~pipe
  /\ at' = [at EXCEPT ![p] = "loop"]
  /\ UNCHANGED <<handle, running, term, job, list, todo, moduleVars>>

(***************************************************************************)
(* What the game does, which nothing obliges it to do: the injected DLL    *)
(* connects, asks (which changes nothing here) and leaves.  At "serve" the *)
(* thread is in GameConnection_Loop, in a ReadFile only the game can end.  *)
(***************************************************************************)
PipeConnect(p) ==
  /\ at[p] = "listen"
  /\ pipe
  /\ at' = [at EXCEPT ![p] = "serve"]
  /\ UNCHANGED <<handle, running, term, job, list, todo, moduleVars>>

(* The game was there before ConnectNamedPipe, which then returns FALSE:   *)
(* Work drops the connection for a new pipe, unless it is to stop anyway.  *)
GameEarly(p) ==
  /\ at[p] = "listen"
  /\ pipe
  /\ at' = [at EXCEPT ![p] = IF term["pipe"] THEN "serve" ELSE "loop"]
  /\ UNCHANGED <<handle, running, term, job, list, todo, moduleVars>>

(* Its work done or the game gone, Work terminates the pipe itself.        *)
GameLeaves(p) ==
  /\ at[p] = "serve"
  /\ ~term["pipe"]
  /\ pipe' = FALSE
  /\ at' = [at EXCEPT ![p] = "loop"]
  /\ UNCHANGED <<handle, running, term, job, list, todo,
                 State, InjectMethod, ToInjectMethod, profile, arg, deleted>>

(* After a stop signal the game leaves, or asks a thread that cannot write *)
(* its answer.                                                             *)
PipeServed(p) ==
  /\ at[p] = "serve"
  /\ term["pipe"]
  /\ at' = [at EXCEPT ![p] = "loop"]
  /\ UNCHANGED <<handle, running, term, job, list, todo, moduleVars>>

GameAct(p) == PipeConnect(p) \/ GameEarly(p) \/ GameLeaves(p) \/ PipeServed(p)

PipeWork(p) ==
  \/ ResetTerm(p, "pipe", "loop") \/ Leave(p, "pipe")
  \/ PipeLoop(p) \/ PipeCreate(p) \/ PipeListenFails(p)

-----------------------------------------------------------------------------
(* One step of GameModule code on thread t.                                *)
GameStep(t) ==
  \/ Change(t) \/ ChangeWait(t) \/ SetTo(t)
  \/ DoChange(t) \/ RunSearch(t) \/ CreateSearch(t) \/ SetMethod(t) \/ InvokeAction(t)
  \/ Start(t) \/ RunPipe(t) \/ CreatePipe(t) \/ StartAdd(t) \/ StartChangeComplete(t)
  \/ Stop(t) \/ StopSearch(t) \/ SignalSearch(t) \/ StopPipe(t) \/ SignalPipe(t)
  \/ ClosePipe(t) \/ DoStop(t)
  \/ Cleanup(t) \/ CleanupWait(t) \/ WaitSearch(t) \/ WaitPipe(t) \/ Join(t) \/ Delete(t)

(* Completion handlers of the worker threads, with the thread as argument. *)
HandlerStep(p) ==
  \/ onThreadEndForCleanup(p) \/ onThreadEndForModuleCleanup(p) \/ ModuleCleanupPipe(p)

WorkStep(p) == SearchWork(p) \/ PipeWork(p) \/ (ThreadProc(p) /\ UNCHANGED moduleVars)

GameTypeOK ==
  /\ State \in StateEnum
  /\ InjectMethod \in Method
  /\ ToInjectMethod \in Method
  /\ profile \in Method
  /\ arg \in [Caller -> Method]
  /\ pipe \in BOOLEAN
  /\ deleted \subseteq GameWorker

(***************************************************************************)
(* No Run is lost and no object gets two threads: Run does nothing, and    *)
(* tells nobody, when the object still has a thread, and between its check *)
(* and the creation no other caller may create one.  Change and Stop have  *)
(* to see to it that the thread is gone before the object is run again     *)
(* (GameModule.cpp 65-67, 118).                                            *)
(***************************************************************************)
RunHeeded ==
  \A t \in Thread, w \in GameWorker :
    handle[w] => /\ w = "search" => ~At(t, "RunSearch") /\ ~At(t, "CreateSearch")
                 /\ w = "pipe"   => ~At(t, "RunPipe") /\ ~At(t, "CreatePipe")

=============================================================================
