-------------------------- MODULE Loggedin_proofs --------------------------
(***************************************************************************)
(* What holds of the logged-in client for every number of OS threads,      *)
(* logins and changes: first however fast the user, the network and the    *)
(* game act, then (from the stages on) when they act on an idle client     *)
(* (Pace = "idle").                                                        *)
(***************************************************************************)
EXTENDS Loggedin, WorkerThread_proofs, FiniteSetTheorems

-----------------------------------------------------------------------------
(* Threads and their objects.  Only Run, Work and ThreadProc touch them.   *)

(* GameModule's operations create threads only through Run.                *)
LEMMA GameStepBacked ==
  ASSUME Backed, NEW t \in Thread, GameStep(t)
  PROVE  Backed'
<1>1. CASE CreateSearch(t) \/ CreatePipe(t)
  BY <1>1, GameAssumption, BackedRunCreate DEF CreateSearch, CreatePipe, GameWorker
<1>2. CASE RunSearch(t) \/ RunPipe(t)
  BY <1>2, BackedFrame DEF RunSearch, RunPipe, RunCheck
<1>3. CASE \/ Change(t) \/ ChangeWait(t) \/ SetTo(t) \/ DoChange(t)
           \/ SetMethod(t) \/ InvokeAction(t)
  BY <1>3, BackedFrame
     DEF Change, ChangeWait, SetTo, DoChange, SetMethod, InvokeAction
<1>4. CASE Start(t) \/ StartAdd(t) \/ StartChangeComplete(t)
  BY <1>4, BackedFrame DEF Start, StartAdd, StartChangeComplete
<1>5. CASE \/ Stop(t) \/ StopSearch(t) \/ SignalSearch(t) \/ StopPipe(t)
           \/ SignalPipe(t) \/ ClosePipe(t) \/ DoStop(t)
  BY <1>5, BackedFrame
     DEF Stop, StopSearch, SignalSearch, StopPipe, SignalPipe, ClosePipe, DoStop
<1>6. CASE \/ Cleanup(t) \/ CleanupWait(t) \/ WaitSearch(t) \/ WaitPipe(t)
           \/ Join(t) \/ Delete(t)
  BY <1>6, BackedFrame DEF Cleanup, CleanupWait, WaitSearch, WaitPipe, Join, Delete
<1> QED
  BY <1>1, <1>2, <1>3, <1>4, <1>5, <1>6 DEF GameStep

(* The steps of the two Works end where ThreadProc takes over.             *)
LEMMA WorkStepBacked ==
  ASSUME Backed, NEW p \in OSThread, WorkStep(p) \/ GameAct(p)
  PROVE  Backed'
<1>1. CASE ResetTerm(p, "search", "loop") \/ ResetTerm(p, "pipe", "loop")
  BY <1>1, BackedWork DEF ResetTerm, InWork
<1>2. CASE Leave(p, "search") \/ Leave(p, "pipe")
  BY <1>2, BackedWork DEF Leave, InWork
<1>3. CASE PipeLoop(p)
  BY <1>3, BackedWork DEF PipeLoop, InWork
<1>4. CASE PipeCreate(p)
  BY <1>4, BackedWork DEF PipeCreate, InWork
<1>5. CASE PipeListenFails(p)
  BY <1>5, BackedWork DEF PipeListenFails, InWork
<1>6. CASE PipeConnect(p) \/ GameLeaves(p) \/ PipeServed(p)
  BY <1>6, BackedWork DEF PipeConnect, GameLeaves, PipeServed, InWork
<1>7. CASE GameEarly(p)
  <2>1. (IF term["pipe"] THEN "serve" ELSE "loop") \in InWork
    BY DEF InWork
  <2> QED
    BY <1>7, <2>1, BackedWork DEF GameEarly, InWork
<1>8. CASE ThreadProc(p)
  BY <1>8, BackedThreadProc
<1> QED
  BY <1>1, <1>2, <1>3, <1>4, <1>5, <1>6, <1>7, <1>8
     DEF WorkStep, SearchWork, PipeWork, GameAct

(* Handlers and dialogs run on threads without creating or ending any.     *)
LEMMA OtherStepBacked ==
  ASSUME Backed,
         \/ \E t \in Thread : DialogStep(t)
         \/ \E p \in OSThread : HandlerStep(p)
         \/ User \/ AuthStep \/ WaitClose
  PROVE  Backed'
<1>1. CASE \E t \in Thread : DialogStep(t)
  BY <1>1, BackedFrame
     DEF DialogStep, MainDialog, MainLock, UpdateInjectMethodComplete, OnLogoutComplete,
         OnDisconnect, onLogoutComplete2, onDisconnectComplete
<1>2. CASE \E p \in OSThread : HandlerStep(p)
  BY <1>2, BackedFrame
     DEF HandlerStep, onThreadEndForCleanup, onThreadEndForModuleCleanup, ModuleCleanupPipe
<1>3. CASE User
  BY <1>3, BackedFrame
     DEF User, Login, CloseLogin, UpdateInjectMethod, Leaving, gameVars, workerVars
<1>4. CASE AuthStep \/ WaitClose
  BY <1>4, BackedFrame
     DEF AuthStep, LoginSucceeds, LoginFails, LogoutDone, Disconnected, WaitClose,
         gameVars, workerVars
<1> QED
  BY <1>1, <1>2, <1>3, <1>4

(***************************************************************************)
(* thread_ and running_ are never stale (WorkerThread.cpp 9-27): a Run     *)
(* that finds a thread_, and a Change or Stop that leaves the rest to a    *)
(* completion handler, have a thread to count on.                          *)
(***************************************************************************)
THEOREM ThreadsBacked == Spec => []ThreadBacked
<1>1. Init => Backed
  BY BackedInit DEF Init, ThreadInit
<1>2. Backed /\ [Next]_vars => Backed'
  <2> SUFFICES ASSUME Backed, [Next]_vars
               PROVE  Backed'
    OBVIOUS
  <2>1. CASE Next
    BY <2>1, GameStepBacked, WorkStepBacked, OtherStepBacked DEF Next
  <2>2. CASE UNCHANGED vars
    BY <2>2, BackedFrame DEF vars, gameVars, workerVars
  <2> QED
    BY <2>1, <2>2
<1>3. Backed => ThreadBacked
  BY DEF Backed
<1> QED
  BY <1>1, <1>2, <1>3, PTL DEF Spec

-----------------------------------------------------------------------------
(* Types.  An agenda of an OS thread holds what completion handlers call:  *)
(* Start, Change, Stop and Cleanup are executed by callers only, and so is *)
(* every access to a caller's argument.                                    *)

WorkerOp == AllHandlers \cup
  {"DoChange", "RunSearch", "CreateSearch", "SetMethod", "InvokeAction",
   "ModuleCleanupPipe", "DoStop"}

HandlersOnly == \A p \in OSThread : todo[p] \in Seq(WorkerOp)

Agendas == todo \in [Thread -> Seq(Op)] /\ HandlersOnly
Lists   == list \in [Delegate -> Seq(Handler)]

(* A call that may be on an agenda of its thread keeps the agendas.        *)
LEMMA CallAgendas ==
  ASSUME Agendas, NEW t \in Thread, NEW op, At(t, op), NEW ops, ops \in Seq(Op),
         t \in OSThread => ops \in Seq(WorkerOp), Call(t, ops)
  PROVE  Agendas'
<1>1. todo' \in [Thread -> Seq(Op)]
  BY CallType DEF Agendas, At
<1>2. ASSUME NEW p \in OSThread PROVE todo'[p] \in Seq(WorkerOp)
  <2>1. CASE p = t
    <3>1. Tail(todo[t]) \in Seq(WorkerOp)
      BY <2>1, HeadTailProperties DEF Agendas, HandlersOnly, At
    <3>2. ops \o Tail(todo[t]) \in Seq(WorkerOp)
      BY <2>1, <3>1, ConcatProperties
    <3> QED
      BY <2>1, <3>2 DEF Call, Agendas
  <2>2. CASE p # t
    BY <2>2 DEF Call, Agendas, HandlersOnly, Thread
  <2> QED
    BY <2>1, <2>2
<1> QED
  BY <1>1, <1>2 DEF Agendas, HandlersOnly

(* An operation no handler calls is executed by a caller.                  *)
LEMMA OnCaller ==
  ASSUME Agendas, NEW t \in Thread, NEW op, At(t, op), op \notin WorkerOp
  PROVE  t \in Caller
<1>1. ASSUME t \in OSThread PROVE FALSE
  <2>1. Head(todo[t]) \in WorkerOp
    BY <1>1, HeadTailProperties DEF Agendas, HandlersOnly, At
  <2> QED
    BY <2>1 DEF At
<1> QED
  BY <1>1 DEF Thread

(* The handlers a delegate holds may be on any agenda.                     *)
LEMMA ListOps ==
  ASSUME Lists, NEW d \in Delegate
  PROVE  list[d] \in Seq(Op) /\ list[d] \in Seq(WorkerOp)
<1>1. Handler \subseteq Op /\ Handler \subseteq WorkerOp
  BY ThreadAssumption, DialogAssumption DEF WorkerOp
<1> QED
  BY <1>1, SeqMonotonic DEF Lists

(* An operation that calls nothing.                                        *)
LEMMA ReturnAgendas ==
  ASSUME Agendas, NEW t \in Thread, NEW op, At(t, op), Return(t)
  PROVE  Agendas'
<1>1. <<>> \in Seq(Op) /\ <<>> \in Seq(WorkerOp)
  OBVIOUS
<1> QED
  BY <1>1, CallAgendas DEF Return

(* The stop handlers and the second half of a change.                      *)
LEMMA ShortCalls ==
  /\ <<>> \in Seq(Op) /\ <<>> \in Seq(WorkerOp)
  /\ <<"DoChange">> \in Seq(Op) /\ <<"DoChange">> \in Seq(WorkerOp)
  /\ <<"InvokeAction">> \in Seq(Op) /\ <<"InvokeAction">> \in Seq(WorkerOp)
  /\ <<"ModuleCleanupPipe">> \in Seq(Op) /\ <<"ModuleCleanupPipe">> \in Seq(WorkerOp)
  /\ <<"DoStop">> \in Seq(Op) /\ <<"DoStop">> \in Seq(WorkerOp)
  /\ <<"CreateSearch">> \in Seq(Op) /\ <<"CreateSearch">> \in Seq(WorkerOp)
BY GameAssumption DEF GameOp, WorkerOp

(* Every operation of the module leaves agendas of known operations, and   *)
(* those only a caller executes are called by callers' operations only.    *)
LEMMA GameStepAgendas ==
  ASSUME Agendas, Lists, NEW t \in Thread, GameStep(t)
  PROVE  Agendas'
<1> DEFINE OnlyCallers == {"Change", "ChangeWait", "SetTo", "Start", "RunPipe", "Stop",
             "StopSearch", "StopPipe", "StopPipeWaiting", "SignalPipe", "Cleanup",
             "WaitSearch", "WaitPipe"}
<1>0. ASSUME NEW op \in OnlyCallers, At(t, op)
      PROVE  t \notin OSThread
  BY <1>0, OnCaller, ThreadAssumption DEF WorkerOp, AllHandlers, GameHandler, DialogHandler
<1>1. CASE Change(t)
  <2>1. <<"ChangeWait", "SetTo">> \in Seq(Op) /\ <<"SetTo", "DoChange">> \in Seq(Op)
    BY GameAssumption DEF GameOp
  <2> QED
    BY <1>0, <1>1, <2>1, CallAgendas DEF Change
<1>2. CASE DoChange(t)
  <2>1. /\ <<"RunSearch", "SetMethod", "InvokeAction">> \in Seq(Op)
        /\ <<"SetMethod", "InvokeAction">> \in Seq(Op)
    BY GameAssumption DEF GameOp
  <2>2. /\ <<"RunSearch", "SetMethod", "InvokeAction">> \in Seq(WorkerOp)
        /\ <<"SetMethod", "InvokeAction">> \in Seq(WorkerOp)
    BY DEF WorkerOp
  <2> QED
    BY <1>2, <2>1, <2>2, CallAgendas DEF DoChange
<1>3. CASE RunSearch(t)
  BY <1>3, ShortCalls, CallAgendas DEF RunSearch, RunCheck
<1>4. CASE RunPipe(t)
  <2>1. <<"CreatePipe">> \in Seq(Op)
    BY GameAssumption DEF GameOp
  <2> QED
    BY <1>0, <1>4, <2>1, ShortCalls, CallAgendas DEF RunPipe, RunCheck
<1>5. CASE InvokeAction(t)
  <2>1. list["onActionComplete"] \in Seq(Op) /\ list["onActionComplete"] \in Seq(WorkerOp)
    BY GameAssumption, ListOps DEF Delegate
  <2> QED
    BY <1>5, <2>1, CallAgendas DEF InvokeAction, Invoke
<1>6. CASE Start(t)
  <2>1. <<"RunPipe", "StartAdd", "Change">> \in Seq(Op) /\ <<"Abort">> \in Seq(Op)
    BY GameAssumption DEF GameOp
  <2> QED
    BY <1>0, <1>6, <2>1, CallAgendas DEF Start
<1>7. CASE Stop(t)
  <2>1. <<"StopSearch">> \in Seq(Op) /\ <<"Abort">> \in Seq(Op)
    BY GameAssumption DEF GameOp
  <2> QED
    BY <1>0, <1>7, <2>1, CallAgendas DEF Stop
<1>8. CASE StopSearch(t)
  <2>1. <<"SignalSearch", "StopPipeWaiting">> \in Seq(Op) /\ <<"StopPipe">> \in Seq(Op)
    BY GameAssumption DEF GameOp
  <2> QED
    BY <1>0, <1>8, <2>1, CallAgendas DEF StopSearch
<1>9. CASE StopPipe(t)
  <2>1. <<"SignalPipe">> \in Seq(Op)
    BY GameAssumption DEF GameOp
  <2> QED
    BY <1>0, <1>9, <2>1, ShortCalls, CallAgendas DEF StopPipe
<1>10. CASE DoStop(t)
  BY <1>10, ShortCalls, CallAgendas DEF DoStop
<1>11. CASE Cleanup(t)
  <2> DEFINE rest == <<"CleanupWait", "WaitSearch", "DeleteSearch", "WaitPipe", "DeletePipe">>
             stop == IF State = "STARTED" THEN <<"Stop">> ELSE <<>>
  <2>1. rest \in Seq(Op) /\ stop \in Seq(Op)
    BY GameAssumption DEF GameOp
  <2>2. stop \o rest \in Seq(Op)
    BY <2>1, ConcatProperties
  <2>3. At(t, "Cleanup") /\ Call(t, stop \o rest)
    BY <1>11 DEF Cleanup
  <2> HIDE DEF rest, stop
  <2> QED
    BY <1>0, <2>2, <2>3, CallAgendas
<1>12. CASE WaitSearch(t)
  <2>1. <<"JoinSearch">> \in Seq(Op)
    BY GameAssumption DEF GameOp
  <2> QED
    BY <1>0, <1>12, <2>1, ShortCalls, CallAgendas DEF WaitSearch
<1>13. CASE SignalPipe(t) \/ WaitPipe(t)
  <2> DEFINE wait == <<"ClosePipe">>
  <2>1. wait \in Seq(Op) /\ <<"JoinPipe">> \in Seq(Op)
    BY GameAssumption DEF GameOp
  <2>2. PICK rest \in Seq(Op) : PipeTerm(t, rest)
    BY <1>13, <2>1, ShortCalls DEF SignalPipe, WaitPipe
  <2>3. Call(t, rest) \/ Call(t, wait \o rest)
    BY <2>2 DEF PipeTerm
  <2>4. wait \o rest \in Seq(Op)
    BY <2>1, ConcatProperties
  <2>5. At(t, "SignalPipe") \/ At(t, "WaitPipe")
    BY <1>13 DEF SignalPipe, WaitPipe
  <2> HIDE DEF wait
  <2> QED
    BY <1>0, <2>3, <2>4, <2>5, CallAgendas
<1>14. CASE CreateSearch(t) \/ CreatePipe(t)
  BY <1>14, ReturnAgendas DEF CreateSearch, CreatePipe, RunCreate
<1>15. CASE ChangeWait(t) \/ SetTo(t) \/ SetMethod(t) \/ StartAdd(t) \/ StartChangeComplete(t)
  BY <1>15, ReturnAgendas DEF ChangeWait, SetTo, SetMethod, StartAdd, StartChangeComplete
<1>16. CASE SignalSearch(t) \/ ClosePipe(t) \/ CleanupWait(t) \/ Join(t) \/ Delete(t)
  BY <1>16, ReturnAgendas DEF SignalSearch, ClosePipe, CleanupWait, Join, Delete
<1> QED
  BY <1>1, <1>2, <1>3, <1>4, <1>5, <1>6, <1>7, <1>8, <1>9, <1>10, <1>11, <1>12, <1>13,
     <1>14, <1>15, <1>16 DEF GameStep

(* What the dialogs, the user, Auth and WinMain's thread put on an agenda. *)
LEMMA DialogAgendas ==
  ASSUME Agendas,
         \/ \E t \in Thread : DialogStep(t)
         \/ User \/ AuthStep \/ WaitClose
  PROVE  Agendas'
<1>1. ASSUME NEW t \in Thread, DialogStep(t)
      PROVE  Agendas'
  <2>1. CASE OnLogoutComplete(t) \/ OnDisconnect(t)
    <3>1. At(t, "OnLogoutComplete") \/ At(t, "OnDisconnect")
      BY <2>1 DEF OnLogoutComplete, OnDisconnect
    <3>2. t \notin OSThread
      BY <3>1, OnCaller, ThreadAssumption DEF WorkerOp, AllHandlers, GameHandler, DialogHandler
    <3>3. <<"Stop">> \in Seq(Op)
      BY GameAssumption DEF GameOp
    <3> QED
      BY <2>1, <3>2, <3>3, CallAgendas DEF OnLogoutComplete, OnDisconnect
  <2>2. CASE MainDialog(t) \/ MainLock(t) \/ UpdateInjectMethodComplete(t)
    BY <2>2, ReturnAgendas DEF MainDialog, MainLock, UpdateInjectMethodComplete
  <2>3. CASE onLogoutComplete2(t) \/ onDisconnectComplete(t)
    BY <2>3, ReturnAgendas DEF onLogoutComplete2, onDisconnectComplete
  <2> QED
    BY <1>1, <2>1, <2>2, <2>3 DEF DialogStep
<1>2. ASSUME NEW c \in Callers, NEW ops, ops \in Seq(Op), todo' = [todo EXCEPT ![c] = ops]
      PROVE  Agendas'
  BY <1>2, ThreadAssumption, DialogAssumption DEF Agendas, HandlersOnly, Thread
<1>3. UNCHANGED todo => Agendas'
  BY DEF Agendas, HandlersOnly
<1>4. CASE User
  <2>1. <<"Change">> \in Seq(Op)
    BY GameAssumption DEF GameOp
  <2>2. CASE \E m \in Method : UpdateInjectMethod(m)
    BY <1>2, <2>1, <2>2 DEF UpdateInjectMethod, Callers
  <2>3. CASE Login \/ CloseLogin \/ \E e \in {"LOGOUT", "EXIT"} : Leaving(e)
    BY <1>3, <2>3 DEF Login, CloseLogin, Leaving, gameVars, workerVars
  <2> QED
    BY <1>4, <2>2, <2>3 DEF User
<1>5. CASE AuthStep
  <2>1. CASE LoginSucceeds
    <3>1. <<"MainDialog", "MainLock", "Start">> \in Seq(Op)
      BY GameAssumption, DialogAssumption DEF GameOp, DialogOp
    <3> QED
      BY <1>2, <2>1, <3>1 DEF LoginSucceeds, Callers
  <2>2. CASE LogoutDone \/ Disconnected
    <3>1. <<"OnLogoutComplete">> \in Seq(Op) /\ <<"OnDisconnect">> \in Seq(Op)
      BY DialogAssumption DEF DialogOp
    <3> QED
      BY <1>2, <2>2, <3>1 DEF LogoutDone, Disconnected, Callers
  <2>3. CASE LoginFails
    BY <1>3, <2>3 DEF LoginFails, gameVars, workerVars
  <2> QED
    BY <1>5, <2>1, <2>2, <2>3 DEF AuthStep
<1>6. CASE WaitClose
  <2>1. <<"Cleanup">> \in Seq(Op)
    BY GameAssumption DEF GameOp
  <2> QED
    BY <1>2, <1>6, <2>1 DEF WaitClose, Callers
<1> QED
  BY <1>1, <1>4, <1>5, <1>6

(* What runs on an OS thread: Work, ThreadProc and the first handlers.     *)
LEMMA WorkAgendas ==
  ASSUME Agendas, Lists, Backed, NEW p \in OSThread,
         HandlerStep(p) \/ WorkStep(p) \/ GameAct(p)
  PROVE  Agendas'
<1>0. p \in Thread
  BY DEF Thread
<1>1. CASE HandlerStep(p)
  BY <1>0, <1>1, ShortCalls, CallAgendas
     DEF HandlerStep, onThreadEndForCleanup, onThreadEndForModuleCleanup, ModuleCleanupPipe
<1>2. CASE InvokeComplete(p)
  <2>1. list[job[p]] \in Seq(Op) /\ list[job[p]] \in Seq(WorkerOp)
    BY ListOps DEF Backed, ThreadCore, Delegate
  <2> QED
    BY <1>0, <1>2, <2>1 DEF InvokeComplete, Agendas, HandlersOnly
<1>3. CASE UNCHANGED todo
  BY <1>3 DEF Agendas, HandlersOnly
<1>4. DropHandle(p) \/ ClearRunning(p) \/ ExitThread(p) => UNCHANGED todo
  BY DEF DropHandle, ClearRunning, ExitThread
<1>5. SearchWork(p) \/ PipeWork(p) \/ GameAct(p) => UNCHANGED todo
  BY DEF SearchWork, PipeWork, ResetTerm, Leave, PipeLoop, PipeCreate, PipeListenFails,
         GameAct, PipeConnect, GameEarly, GameLeaves, PipeServed
<1> QED
  BY <1>1, <1>2, <1>3, <1>4, <1>5 DEF WorkStep, ThreadProc

(* Only handlers are added to delegates, and removal adds none.            *)
LEMMA NextLists ==
  ASSUME Lists, Backed, Next
  PROVE  Lists'
<1> DEFINE action == "onActionComplete"
<1>1. action \in Delegate /\ "search" \in Delegate /\ "pipe" \in Delegate
  BY GameAssumption DEF Delegate, GameWorker
<1>2. GameHandler \subseteq Handler /\ DialogHandler \subseteq Handler
  BY DialogAssumption DEF AllHandlers
<1>3. ASSUME NEW d \in Delegate, NEW h \in GameHandler \cup DialogHandler, AddHandler(d, h)
      PROVE  Lists'
  BY <1>2, <1>3, AddHandlerType DEF Lists
<1>4. ASSUME NEW d \in Delegate, NEW h, RemoveHandler(d, h)
      PROVE  Lists'
  BY <1>4, RemoveHandlerType DEF Lists
<1>5. CASE UNCHANGED list
  BY <1>5 DEF Lists
<1>6. ASSUME NEW t \in Thread, GameStep(t)
      PROVE  Lists'
  <2>1. CASE ChangeWait(t) \/ StartAdd(t) \/ SignalSearch(t) \/ SignalPipe(t)
    BY <1>1, <1>3, <2>1 DEF ChangeWait, StartAdd, SignalSearch, SignalPipe, GameHandler
  <2>2. CASE StartChangeComplete(t)
    BY <1>1, <1>4, <2>2 DEF StartChangeComplete
  <2>3. CASE \/ Change(t) \/ SetTo(t) \/ DoChange(t) \/ SetMethod(t) \/ InvokeAction(t)
             \/ Start(t) \/ Stop(t) \/ StopSearch(t) \/ StopPipe(t) \/ ClosePipe(t)
             \/ DoStop(t)
    BY <1>5, <2>3 DEF Change, SetTo, DoChange, SetMethod, InvokeAction, Start, Stop,
                      StopSearch, StopPipe, ClosePipe, DoStop
  <2>4. CASE \/ RunSearch(t) \/ CreateSearch(t) \/ RunPipe(t) \/ CreatePipe(t)
             \/ Cleanup(t) \/ CleanupWait(t) \/ WaitSearch(t) \/ WaitPipe(t)
             \/ Join(t) \/ Delete(t)
    BY <1>5, <2>4 DEF RunSearch, CreateSearch, RunPipe, CreatePipe, RunCheck, RunCreate,
                      Cleanup, CleanupWait, WaitSearch, WaitPipe, Join, Delete
  <2> QED
    BY <1>6, <2>1, <2>2, <2>3, <2>4 DEF GameStep
<1>7. ASSUME NEW t \in Thread, DialogStep(t)
      PROVE  Lists'
  <2>1. CASE MainLock(t) \/ OnLogoutComplete(t) \/ OnDisconnect(t)
    BY <1>1, <1>3, <2>1 DEF MainLock, OnLogoutComplete, OnDisconnect, DialogHandler
  <2>2. CASE UpdateInjectMethodComplete(t) \/ onLogoutComplete2(t) \/ onDisconnectComplete(t)
    BY <1>1, <1>4, <2>2
       DEF UpdateInjectMethodComplete, onLogoutComplete2, onDisconnectComplete
  <2>3. CASE MainDialog(t)
    BY <1>5, <2>3 DEF MainDialog
  <2> QED
    BY <1>7, <2>1, <2>2, <2>3 DEF DialogStep
<1>8. ASSUME NEW p \in OSThread, HandlerStep(p) \/ WorkStep(p) \/ GameAct(p)
      PROVE  Lists'
  <2>1. CASE onThreadEndForCleanup(p) \/ onThreadEndForModuleCleanup(p)
    <3>1. job[p] \in Delegate
      BY DEF Backed, ThreadCore, Delegate
    <3> QED
      BY <1>4, <2>1, <3>1 DEF onThreadEndForCleanup, onThreadEndForModuleCleanup
  <2>2. CASE ModuleCleanupPipe(p) \/ SearchWork(p) \/ PipeWork(p) \/ GameAct(p)
    BY <1>5, <2>2
       DEF ModuleCleanupPipe, SearchWork, PipeWork, ResetTerm, Leave, PipeLoop, PipeCreate,
           PipeListenFails, GameAct, PipeConnect, GameEarly, GameLeaves, PipeServed
  <2>3. CASE ThreadProc(p)
    BY <1>5, <2>3 DEF ThreadProc, DropHandle, ClearRunning, InvokeComplete, ExitThread
  <2> QED
    BY <1>8, <2>1, <2>2, <2>3 DEF HandlerStep, WorkStep
<1>9. CASE User \/ AuthStep \/ WaitClose
  <2>1. CASE \E m \in Method : UpdateInjectMethod(m)
    BY <1>1, <1>3, <2>1 DEF UpdateInjectMethod, DialogHandler
  <2>2. CASE \/ Login \/ CloseLogin \/ \E e \in {"LOGOUT", "EXIT"} : Leaving(e)
             \/ AuthStep \/ WaitClose
    BY <1>5, <2>2 DEF Login, CloseLogin, Leaving, AuthStep, LoginSucceeds, LoginFails,
                      LogoutDone, Disconnected, WaitClose, gameVars, workerVars
  <2> QED
    BY <1>9, <2>1, <2>2 DEF User
<1> QED
  BY <1>6, <1>7, <1>8, <1>9 DEF Next

GameData == term \in [Worker -> BOOLEAN] /\ GameTypeOK

(* The module's variables; profile and ToInjectMethod take what a caller's *)
(* argument says, which only callers have.                                 *)
LEMMA GameStepData ==
  ASSUME GameData, Agendas, NEW t \in Thread, GameStep(t)
  PROVE  GameData'
<1> USE DEF GameData, GameTypeOK
<1>1. CASE Change(t) \/ SetTo(t) \/ Start(t)
  <2>1. t \in Caller
    BY <1>1, OnCaller
       DEF Change, SetTo, Start, WorkerOp, AllHandlers, GameHandler, DialogHandler
  <2>2. "passive" \in Method
    BY DEF Method
  <2> QED
    BY <1>1, <2>1, <2>2 DEF Change, SetTo, Start, StateEnum
<1>2. CASE \/ ChangeWait(t) \/ DoChange(t) \/ SetMethod(t) \/ InvokeAction(t)
           \/ StartAdd(t) \/ StartChangeComplete(t)
  BY <1>2 DEF ChangeWait, DoChange, SetMethod, InvokeAction, StartAdd, StartChangeComplete,
              moduleVars, StateEnum
<1>3. CASE RunSearch(t) \/ CreateSearch(t) \/ RunPipe(t) \/ CreatePipe(t)
  BY <1>3 DEF RunSearch, CreateSearch, RunPipe, CreatePipe, RunCheck, RunCreate, moduleVars
<1>4. CASE \/ Stop(t) \/ StopSearch(t) \/ SignalSearch(t) \/ StopPipe(t)
           \/ SignalPipe(t) \/ ClosePipe(t) \/ DoStop(t)
  BY <1>4 DEF Stop, StopSearch, SignalSearch, StopPipe, SignalPipe, PipeTerm, ClosePipe,
              DoStop, moduleVars, StateEnum
<1>5. CASE \/ Cleanup(t) \/ CleanupWait(t) \/ WaitSearch(t) \/ WaitPipe(t) \/ Join(t)
  BY <1>5 DEF Cleanup, CleanupWait, WaitSearch, WaitPipe, PipeTerm, Join, moduleVars
<1>6. CASE Delete(t)
  BY <1>6 DEF Delete, GameWorker, StateEnum
<1> QED
  BY <1>1, <1>2, <1>3, <1>4, <1>5, <1>6 DEF GameStep

(* What is not an operation of GameModule keeps the types of its data.     *)
LEMMA OtherStepData ==
  ASSUME GameData, Next,
         ~ \E t \in Thread : GameStep(t)
  PROVE  GameData'
<1> USE DEF GameData, GameTypeOK
<1>1. ASSUME NEW t \in Thread, DialogStep(t)
      PROVE  GameData'
  BY <1>1 DEF DialogStep, MainDialog, MainLock, UpdateInjectMethodComplete,
              OnLogoutComplete, OnDisconnect, onLogoutComplete2, onDisconnectComplete,
              moduleVars
<1>2. ASSUME NEW p \in OSThread, HandlerStep(p)
      PROVE  GameData'
  BY <1>2 DEF HandlerStep, onThreadEndForCleanup, onThreadEndForModuleCleanup,
              ModuleCleanupPipe, moduleVars
<1>3. ASSUME NEW p \in OSThread, WorkStep(p) \/ GameAct(p)
      PROVE  GameData'
  <2>1. CASE SearchWork(p) \/ PipeWork(p)
    BY <2>1 DEF SearchWork, PipeWork, ResetTerm, Leave, PipeLoop, PipeCreate,
                PipeListenFails, moduleVars
  <2>2. CASE GameAct(p)
    BY <2>2 DEF GameAct, PipeConnect, GameEarly, GameLeaves, PipeServed, moduleVars
  <2>3. CASE ThreadProc(p) /\ UNCHANGED moduleVars
    BY <2>3 DEF ThreadProc, DropHandle, ClearRunning, InvokeComplete, ExitThread, moduleVars
  <2> QED
    BY <1>3, <2>1, <2>2, <2>3 DEF WorkStep
<1>4. CASE User
  BY <1>4 DEF User, Login, CloseLogin, UpdateInjectMethod, Leaving, gameVars, workerVars,
              moduleVars
<1>5. CASE AuthStep \/ WaitClose
  BY <1>5 DEF AuthStep, LoginSucceeds, LoginFails, LogoutDone, Disconnected, WaitClose,
              gameVars, workerVars, moduleVars
<1> QED
  BY <1>1, <1>2, <1>3, <1>4, <1>5 DEF Next

DialogData ==
  /\ front \in FrontDialog
  /\ lock \in BOOLEAN
  /\ event \in {"LOGOUT", "EXIT"}
  /\ session \in Session
  /\ logins \in 0..MaxLogins
  /\ changes \in 0..MaxChanges

(* The dialogs' data.                                                      *)
LEMMA NextDialogData ==
  ASSUME DialogData, Next
  PROVE  DialogData'
<1>0. MaxLogins \in Nat /\ MaxChanges \in Nat
  BY LoggedinAssumption
<1> USE <1>0 DEF DialogData, FrontDialog, Session
<1>1. CASE Login \/ CloseLogin
  BY <1>1 DEF Login, CloseLogin
<1>2. CASE \E m \in Method : UpdateInjectMethod(m)
  BY <1>2 DEF UpdateInjectMethod
<1>3. CASE \E e \in {"LOGOUT", "EXIT"} : Leaving(e)
  BY <1>3 DEF Leaving
<1>4. CASE AuthStep \/ WaitClose
  BY <1>4 DEF AuthStep, LoginSucceeds, LoginFails, LogoutDone, Disconnected, WaitClose,
              dialogVars
<1>5. ASSUME NEW t \in Thread, DialogStep(t)
      PROVE  DialogData'
  <2>1. CASE MainDialog(t) \/ MainLock(t) \/ UpdateInjectMethodComplete(t)
    BY <2>1 DEF MainDialog, MainLock, UpdateInjectMethodComplete
  <2>2. CASE OnLogoutComplete(t) \/ OnDisconnect(t)
    BY <2>2 DEF OnLogoutComplete, OnDisconnect, dialogVars
  <2>3. CASE onLogoutComplete2(t) \/ onDisconnectComplete(t)
    BY <2>3 DEF onLogoutComplete2, onDisconnectComplete, Back
  <2> QED
    BY <1>5, <2>1, <2>2, <2>3 DEF DialogStep
<1>6. CASE UNCHANGED dialogVars
  BY <1>6 DEF dialogVars
<1> QED
  BY <1>1, <1>2, <1>3, <1>4, <1>5, <1>6 DEF Next, User

Typed == Backed /\ Agendas /\ Lists /\ GameData /\ DialogData

(* The types hold at first.                                                *)
LEMMA InitTyped == Init => Typed
<1> SUFFICES ASSUME Init PROVE Typed
  OBVIOUS
<1>1. Backed
  BY BackedInit DEF Init, ThreadInit
<1>2. Agendas /\ Lists
  <2>1. \A S : <<>> \in Seq(S)
    OBVIOUS
  <2> QED
    BY <2>1 DEF Init, ThreadInit, Agendas, HandlersOnly, Lists, Thread
<1>3. GameData
  <2>1. "INITED" \in StateEnum /\ "auto" \in Method /\ {} \subseteq GameWorker
    BY DEF StateEnum, Method
  <2>2. arg \in [Caller -> Method]
    BY <2>1 DEF Init, GameInit
  <2> QED
    BY <2>1, <2>2 DEF Init, ThreadInit, GameInit, GameData, GameTypeOK
<1>4. DialogData
  <2>1. 0 \in 0..MaxLogins /\ 0 \in 0..MaxChanges
    BY LoggedinAssumption
  <2> QED
    BY <2>1 DEF Init, DialogData, FrontDialog, Session
<1> QED
  BY <1>1, <1>2, <1>3, <1>4 DEF Typed

(* Every step keeps them.                                                  *)
LEMMA NextTyped == Typed /\ [Next]_vars => Typed'
<1> SUFFICES ASSUME Typed, [Next]_vars PROVE Typed'
  OBVIOUS
<1> USE DEF Typed
<1>1. CASE Next
  <2>1. Backed'
    BY <1>1, GameStepBacked, WorkStepBacked, OtherStepBacked DEF Next
  <2>2. Agendas'
    BY <1>1, GameStepAgendas, DialogAgendas, WorkAgendas DEF Next
  <2>3. Lists'
    BY <1>1, NextLists
  <2>4. GameData'
    BY <1>1, GameStepData, OtherStepData
  <2>5. DialogData'
    BY <1>1, NextDialogData
  <2> QED
    BY <2>1, <2>2, <2>3, <2>4, <2>5
<1>2. CASE UNCHANGED vars
  <2>1. Backed'
    BY <1>2, BackedFrame DEF vars, gameVars, workerVars
  <2>2. Agendas' /\ Lists'
    <3>1. UNCHANGED <<list, todo>>
      BY <1>2 DEF vars, gameVars, workerVars
    <3> QED
      BY <3>1 DEF Agendas, HandlersOnly, Lists
  <2>3. GameData'
    BY <1>2 DEF vars, gameVars, workerVars, moduleVars, GameData, GameTypeOK
  <2>4. DialogData'
    BY <1>2 DEF vars, dialogVars, DialogData
  <2> QED
    BY <2>1, <2>2, <2>3, <2>4
<1> QED
  BY <1>1, <1>2

(***************************************************************************)
(* The types of Loggedin.cpp, GameModule.cpp and the thread layer.  What   *)
(* makes them inductive is HandlersOnly: the completion handlers never run *)
(* Start, Change, Stop or Cleanup on a worker thread.                      *)
(***************************************************************************)
THEOREM TypesOK == Spec => []TypeOK
<1>1. Typed => TypeOK
  BY DEF Typed, Backed, ThreadCore, Agendas, Lists, GameData, DialogData, TypeOK, ThreadTypeOK
<1> QED
  BY <1>1, InitTyped, NextTyped, PTL DEF Spec

(***************************************************************************)
(* A worker thread never calls Start, Change, Stop or Cleanup: a handler   *)
(* that did would wait for, or restart, the thread it runs on              *)
(* (GameModule.cpp 73-78, 130-135; Loggedin.cpp 105-118, 154-176).         *)
(***************************************************************************)
THEOREM WorkersOnlyHandle == Spec => []HandlersOnly
<1>1. Typed => HandlersOnly
  BY DEF Typed, Agendas
<1> QED
  BY <1>1, InitTyped, NextTyped, PTL DEF Spec

-----------------------------------------------------------------------------
(***************************************************************************)
(* The client on which user, network and game act when it is idle.  A      *)
(* login, a change of the inject method and the end of a session each take *)
(* the client through stages, and what is on the agendas, in the delegates *)
(* and in the module's state belongs together in each of them.             *)
(***************************************************************************)

(* One thread in the Work of an object, or about to clear its running_,    *)
(* and an object that knows it.                                            *)
Busy(p) == at[p] \in InWork \cup {"unhandled"}

OneThread == \A p, q \in OSThread : Busy(p) /\ Busy(q) /\ job[p] = job[q] => p = q

Known ==
  \A p \in OSThread :
    /\ at[p] \in InWork => handle[job[p]]
    /\ Busy(p) => running[job[p]]
    /\ at[p] # "free" => job[p] \in GameWorker
    /\ at[p] \in {"create", "listen", "serve"} => job[p] = "pipe"

Core == OneThread /\ Known

(* Callers that have nothing to execute.                                   *)
Quiet(active) == \A t \in Caller \ active : todo[t] = <<>>

(* onThreadEndForModuleCleanup stays in the threads' lists (line 131).     *)
Leftover == {"onThreadEndForModuleCleanup"}
OnlyLeftovers == list["search"] \in Seq(Leftover) /\ list["pipe"] \in Seq(Leftover)

OnAction == list["onActionComplete"]

(* A thread that does not exist, one in its Work that no stop signal has   *)
(* reached, one whose handlers are done.                                   *)
Gone(p) == at[p] = "free" /\ todo[p] = <<>>

Up(p) ==
  /\ at[p] \in {"work", "loop", "create", "listen", "serve"}
  /\ at[p] # "work" => ~term[job[p]]
  /\ todo[p] = <<>>

Spent(p) == at[p] = "callbacks" /\ todo[p] = <<>>

(* t is in DoChange.                                                       *)
Changing(t) ==
  \/ /\ ~running["search"]
     /\ todo[t] \in {<<"DoChange">>,
                     <<"RunSearch", "SetMethod", "InvokeAction">>,
                     <<"CreateSearch", "SetMethod", "InvokeAction">>}
  \/ todo[t] \in {<<"SetMethod", "InvokeAction">>, <<"InvokeAction">>}

(* A login, from the request to STATE_STARTED.                             *)
Entering ==
  /\ session = "entering" /\ front = "login" /\ State = "INITED"
  /\ Quiet({}) /\ \A p \in OSThread : Gone(p)
  /\ ~running["search"] /\ ~running["pipe"]
  /\ OnAction = <<>> /\ OnlyLeftovers

Opening ==
  /\ session = "in" /\ State = "INITED"
  /\ Quiet({"login"}) /\ \A p \in OSThread : Gone(p)
  /\ ~running["search"] /\ ~running["pipe"]
  /\ OnlyLeftovers
  /\ \/ /\ todo["login"] = <<"MainDialog", "MainLock", "Start">>
        /\ OnAction = <<>> /\ front = "hidden"
     \/ /\ todo["login"] = <<"MainLock", "Start">>
        /\ OnAction = <<>> /\ front = "main"
     \/ /\ todo["login"] = <<"Start">>
        /\ OnAction = <<"UpdateInjectMethodComplete">> /\ front = "main" /\ lock

StartingPipe ==
  /\ OnAction = <<"UpdateInjectMethodComplete">>
  /\ ~running["search"]
  /\ \/ /\ ~running["pipe"]
        /\ todo["login"] \in {<<"RunPipe", "StartAdd", "Change">>,
                              <<"CreatePipe", "StartAdd", "Change">>}
     \/ running["pipe"] /\ todo["login"] = <<"StartAdd", "Change">>

StartingSearch ==
  /\ OnAction = <<"UpdateInjectMethodComplete", "StartChangeComplete">>
  /\ running["pipe"]
  /\ \/ Changing("login")
     \/ ~running["search"] /\ todo["login"] \in {<<"Change">>, <<"SetTo", "DoChange">>}
     \/ todo["login"] = <<"UpdateInjectMethodComplete", "StartChangeComplete">>

Starting ==
  /\ session = "in" /\ front = "main" /\ State = "STARTING"
  /\ Quiet({"login"}) /\ \A p \in OSThread : Gone(p) \/ Up(p)
  /\ OnlyLeftovers
  /\ \/ lock /\ StartingPipe
     \/ lock /\ StartingSearch
     \/ /\ running["pipe"] /\ todo["login"] = <<"StartChangeComplete">>
        /\ OnAction = <<"StartChangeComplete">>

(* Logged in: no change in progress, except that the Change of the last    *)
(* one may still assign ToInjectMethod.                                    *)
Logged == front = "main" /\ State = "STARTED" /\ running["pipe"] /\ Quiet({"ui"})

Ready ==
  /\ Logged /\ session \in {"in", "leaving"}
  /\ session = "leaving" => lock
  /\ todo["ui"] \in {<<>>, <<"SetTo">>}
  /\ \A p \in OSThread : Gone(p) \/ Up(p) \/ Spent(p)
  /\ OnAction = <<>> /\ OnlyLeftovers

(* A change: asked for, waiting for the search thread to end, and done by  *)
(* the caller or by the search thread's handler.                           *)
Locked ==
  /\ Logged /\ session = "in" /\ lock
  /\ OnAction = <<"UpdateInjectMethodComplete">>
  /\ list["pipe"] \in Seq(Leftover)

ChangeAsked ==
  /\ Locked /\ OnlyLeftovers
  /\ \A p \in OSThread :
       Gone(p) \/ (Up(p) /\ (job[p] = "search" => at[p] = "loop"))
  /\ \/ todo["ui"] = <<"Change">>
     \/ todo["ui"] = <<"ChangeWait", "SetTo">> /\ running["search"]
     \/ todo["ui"] = <<"SetTo", "DoChange">> /\ ~running["search"]

(* Leftovers, and onThreadEndForCleanup at the end.                        *)
ToChange(s) == \E r \in Seq(Leftover) : s = Append(r, "onThreadEndForCleanup")

Told(s) ==
  /\ at[s] \in {"loop", "left", "unhandled", "invoke"}
  /\ at[s] = "loop" => term["search"]
  /\ at[s] = "invoke" => ~running["search"]
  /\ todo[s] = <<>>
  /\ ToChange(list["search"])

Cleaning(s) ==
  /\ at[s] = "callbacks" /\ ~running["search"]
  /\ \/ ToChange(todo[s])
     \/ At(s, "ModuleCleanupPipe") /\ ToChange(Tail(todo[s]))
  /\ list["search"] \in Seq(Leftover) \/ ToChange(list["search"])

ChangeWaiting ==
  /\ Locked /\ todo["ui"] \in {<<>>, <<"SetTo">>}
  /\ \E s \in OSThread :
       /\ job[s] = "search"
       /\ \A p \in OSThread \ {s} : Gone(p) \/ Up(p)
       /\ Told(s) \/ Cleaning(s)

Changed(t) ==
  /\ Locked /\ OnlyLeftovers
  /\ Changing(t) \/ todo[t] = <<"UpdateInjectMethodComplete">>
  /\ \/ t = "ui" /\ \A p \in OSThread : Gone(p) \/ Up(p)
     \/ /\ t \in OSThread /\ at[t] = "callbacks" /\ job[t] = "search"
        /\ todo["ui"] \in {<<>>, <<"SetTo">>}
        /\ \A p \in OSThread \ {t} : Gone(p) \/ Up(p)

(* The end of a session: t, Auth's logout or alive thread, calls Stop.     *)
Auths == {"logout", "alive"}
EndHandler == {"onLogoutComplete2", "onDisconnectComplete"}

StopCalled(t) ==
  /\ session = "out" /\ front = "main" /\ State = "STARTED"
  /\ Quiet({t}) /\ running["pipe"]
  /\ \A p \in OSThread : Gone(p) \/ Up(p)
  /\ OnlyLeftovers
  /\ \/ todo[t] = <<"OnLogoutComplete">> /\ lock /\ OnAction = <<>>
     \/ todo[t] = <<"OnDisconnect">> /\ OnAction = <<>>
     \/ todo[t] = <<"Stop">> /\ lock /\ \E h \in EndHandler : OnAction = <<h>>

(* What threads that have been told to stop execute.                       *)
StopHandler == {"onThreadEndForModuleCleanup", "ModuleCleanupPipe", "DoStop"}
EndOp == StopHandler \cup EndHandler \cup {"InvokeAction"}

Ending(p, ops) ==
  /\ at[p] # "callbacks" => todo[p] = <<>>
  /\ todo[p] # <<>> => Head(todo[p]) \in ops /\ Tail(todo[p]) \in Seq(Leftover)

StopCall == {<<"StopSearch">>, <<"SignalSearch", "StopPipeWaiting">>,
             <<"StopPipeWaiting">>, <<"StopPipe">>, <<"SignalPipe">>}

(* t has signalled all it had to; Pipe_Term may still wait for the game.   *)
Signalled(t) == todo[t] \in {<<>>, <<"ClosePipe">>}

Stopping(t) ==
  /\ session = "out" /\ front = "main" /\ State = "STOPPING" /\ lock
  /\ Quiet({t})
  /\ OnlyLeftovers
  /\ \E h \in EndHandler : OnAction = <<h>>
  /\ \A p \in OSThread :
       /\ Ending(p, StopHandler)
       /\ At(p, "ModuleCleanupPipe") => ~running["search"]
       /\ At(p, "DoStop") => ~running["search"] /\ ~running["pipe"]
  /\ \/ Signalled(t)
     \/ /\ todo[t] \in StopCall
        /\ running["pipe"]
        /\ \A p \in OSThread : at[p] # "free" /\ job[p] = "pipe" => Up(p)

(* Logged out: the module is stopped, but the threads that stopped it may  *)
(* still be executing handlers, the Pipe_Term of the stop returning, and   *)
(* WinMain's thread cleaning up.                                           *)
CleanOp == {"Cleanup", "CleanupWait", "WaitSearch", "JoinSearch", "DeleteSearch",
            "WaitPipe", "JoinPipe", "DeletePipe"}

OutCallers ==
  /\ Quiet(Auths \cup {"main"}) /\ todo["main"] \in Seq(CleanOp)
  /\ \A t \in Auths : Signalled(t)

Out ==
  /\ session = "out" /\ State \in {"INITED", "UNINITED"}
  /\ front \in {"login", "closed", "main"}
  /\ OutCallers
  /\ todo["main"] # <<>> \/ State = "UNINITED" => front = "closed"
  /\ ~running["search"] /\ ~running["pipe"]
  /\ \A p \in OSThread :
       at[p] \in {"free", "invoke", "callbacks"} /\ Ending(p, EndOp)
  /\ OnlyLeftovers
  /\ front = "main" <=> OnAction # <<>>
  /\ OnAction # <<>> =>
       \E h \in EndHandler :
         /\ OnAction = <<h>>
         /\ \E p \in OSThread : At(p, "InvokeAction") \/ At(p, h)
         /\ \A p \in OSThread, g \in EndHandler : At(p, g) => g = h

Somewhere ==
  \/ Entering \/ Opening \/ Starting
  \/ Ready \/ ChangeAsked \/ ChangeWaiting \/ \E t \in Thread : Changed(t)
  \/ \E t \in Auths : StopCalled(t) \/ Stopping(t)
  \/ Out

Placed == Core /\ Somewhere

-----------------------------------------------------------------------------
(* Calls and returns.                                                      *)

(* A call changes the agenda of its thread only.                           *)
LEMMA Called ==
  ASSUME Agendas, NEW t \in Thread, NEW ops, Call(t, ops)
  PROVE  /\ todo'[t] = ops \o Tail(todo[t])
         /\ \A u \in Thread \ {t} : todo'[u] = todo[u]
BY DEF Agendas, Call

(* The last operation of an agenda calls ops.                              *)
LEMMA CalledLast ==
  ASSUME Agendas, NEW t \in Thread, NEW ops \in Seq(Op), Call(t, ops),
         todo[t] # <<>>, Tail(todo[t]) = <<>>
  PROVE  /\ todo'[t] = ops
         /\ \A u \in Thread \ {t} : todo'[u] = todo[u]
<1>1. todo'[t] = ops \o <<>> /\ \A u \in Thread \ {t} : todo'[u] = todo[u]
  BY Called
<1>2. ops \o <<>> = ops
  BY Concats
<1> QED
  BY <1>1, <1>2

(* A return leaves the rest of the agenda.                                 *)
LEMMA Returned ==
  ASSUME Agendas, NEW t \in Thread, Return(t), todo[t] # <<>>
  PROVE  /\ todo'[t] = Tail(todo[t])
         /\ \A u \in Thread \ {t} : todo'[u] = todo[u]
<1> DEFINE none == <<>>
           rest == Tail(todo[t])
<1>1. todo'[t] = none \o Tail(todo[t]) /\ \A u \in Thread \ {t} : todo'[u] = todo[u]
  BY Called DEF Return
<1>2. rest \in Seq(Op)
  BY HeadTailProperties DEF Agendas
<1> HIDE DEF rest
<1>3. none \o rest = rest
  BY <1>2, Concats
<1> QED
  BY <1>1, <1>3 DEF rest

(* A call of one operation by the first of three.                          *)
LEMMA Replaced ==
  ASSUME Agendas, NEW t \in Thread, NEW x \in Op, Call(t, <<x>>),
         NEW a, NEW b \in Op, NEW c \in Op, todo[t] = <<a, b, c>>
  PROVE  /\ todo'[t] = <<x, b, c>>
         /\ \A u \in Thread \ {t} : todo'[u] = todo[u]
<1>1. todo'[t] = <<x>> \o Tail(todo[t]) /\ \A u \in Thread \ {t} : todo'[u] = todo[u]
  BY Called
<1>2. Tail(todo[t]) = <<b, c>>
  BY Tuples
<1>3. <<x>> \o <<b, c>> = <<x, b, c>>
  BY Concats
<1> QED
  BY <1>1, <1>2, <1>3

(* A list of leftovers: what its head is, and what adding and removing     *)
(* leave.                                                                  *)
LEMMA Leftovers ==
  ASSUME NEW l \in Seq(Leftover)
  PROVE  /\ l # <<>> => Head(l) = "onThreadEndForModuleCleanup" /\ Tail(l) \in Seq(Leftover)
         /\ RemoveFirst(l, "onThreadEndForCleanup") = l
         /\ Append(l, "onThreadEndForModuleCleanup") \in Seq(Leftover)
         /\ ToChange(Append(l, "onThreadEndForCleanup"))
<1>1. l # <<>> => Head(l) \in Leftover /\ Tail(l) \in Seq(Leftover)
  BY HeadTailProperties
<1>2. RemoveFirst(l, "onThreadEndForCleanup") = l
  BY RemoveAbsent DEF Leftover
<1>3. Append(l, "onThreadEndForModuleCleanup") \in Seq(Leftover)
  BY AppendProperties DEF Leftover
<1>4. ToChange(Append(l, "onThreadEndForCleanup"))
  BY DEF ToChange
<1> QED
  BY <1>1, <1>2, <1>3, <1>4 DEF Leftover

(* The leftovers are done one by one, then comes onThreadEndForCleanup.    *)
LEMMA ToChanges ==
  ASSUME NEW s, ToChange(s)
  PROVE  /\ s # <<>>
         /\ \/ Head(s) = "onThreadEndForCleanup" /\ Tail(s) = <<>>
            \/ Head(s) = "onThreadEndForModuleCleanup" /\ ToChange(Tail(s))
         /\ RemoveFirst(s, "onThreadEndForCleanup") \in Seq(Leftover)
         /\ s \in Seq(Leftover \cup {"onThreadEndForCleanup"})
<1> DEFINE e == "onThreadEndForCleanup"
           R == Leftover \cup {e}
<1>1. PICK r \in Seq(Leftover) : s = Append(r, e)
  BY DEF ToChange
<1>2. r \in Seq(R) /\ e \in R /\ Len(r) \in Nat /\ (\A i \in 1..Len(r) : r[i] \in Leftover)
  BY SeqMonotonic, LenProperties, ElementOfSeq
<1>3. e \notin Leftover
  BY DEF Leftover
<1> HIDE DEF e
<1>4. /\ s \in Seq(R) /\ s # <<>> /\ Len(s) = Len(r) + 1
      /\ (\A i \in 1..Len(r) : s[i] = r[i]) /\ s[Len(r) + 1] = e
  BY <1>1, <1>2, AppendProperties
<1>5. ASSUME r = <<>>
      PROVE  \/ Head(s) = e /\ Tail(s) = <<>>
             \/ Head(s) = "onThreadEndForModuleCleanup" /\ ToChange(Tail(s))
  <2>1. s = <<e>>
    BY <1>1, <1>5, AppendTuples
  <2> QED
    BY <2>1, Tuples
<1>6. ASSUME r # <<>>
      PROVE  \/ Head(s) = e /\ Tail(s) = <<>>
             \/ Head(s) = "onThreadEndForModuleCleanup" /\ ToChange(Tail(s))
  <2> DEFINE l == Tail(r)
             a == Append(l, e)
             u == Tail(s)
  <2>1. l \in Seq(Leftover) /\ Len(l) = Len(r) - 1 /\ Head(r) \in Leftover /\ Head(r) = r[1]
    BY <1>6, HeadTailProperties
  <2>2. \A i \in 1..Len(l) : l[i] = r[i + 1]
    BY <1>6, HeadTailProperties
  <2>3. u \in Seq(R) /\ Len(u) = Len(s) - 1 /\ Head(s) = s[1]
    BY <1>4, HeadTailProperties
  <2>4. \A i \in 1..Len(u) : u[i] = s[i + 1]
    BY <1>4, HeadTailProperties
  <2>5. l \in Seq(R) /\ Len(l) \in Nat
    BY <2>1, SeqMonotonic, LenProperties
  <2> HIDE DEF l
  <2>6. /\ a \in Seq(R) /\ Len(a) = Len(l) + 1
        /\ (\A i \in 1..Len(l) : a[i] = l[i]) /\ a[Len(l) + 1] = e
    BY <1>2, <2>5, AppendProperties
  <2> HIDE DEF a, u
  <2>7. Len(u) = Len(a)
    BY <1>2, <1>4, <2>1, <2>3, <2>5, <2>6
  <2>8. ASSUME NEW i \in 1..Len(u) PROVE u[i] = a[i]
    <3>1. CASE i \in 1..Len(l)
      <4>1. i + 1 \in 1..Len(r)
        BY <1>2, <2>1, <2>5, <3>1
      <4> QED
        BY <1>4, <2>2, <2>4, <2>6, <3>1, <4>1
    <3>2. CASE i = Len(l) + 1
      <4>1. i + 1 = Len(r) + 1
        BY <1>2, <2>1, <2>5, <3>2
      <4> QED
        BY <1>4, <2>4, <2>6, <3>2, <4>1
    <3> QED
      BY <2>5, <2>6, <2>7, <3>1, <3>2
  <2>9. u = a
    BY <2>3, <2>6, <2>7, <2>8, SeqEqual
  <2>10. ToChange(Tail(s))
    BY <2>1, <2>9 DEF u, a, ToChange, e
  <2>11. 1 \in 1..Len(r)
    BY <1>2, <2>1, <2>5
  <2>12. Head(s) \in Leftover
    BY <1>4, <2>1, <2>3, <2>11
  <2> QED
    BY <2>10, <2>12 DEF Leftover
<1>7. RemoveFirst(s, e) \in Seq(Leftover)
  <2> DEFINE n == Len(s)
  <2>1. n \in Nat /\ n = Len(r) + 1 /\ n \in 1..Len(s) /\ s[n] = e
    BY <1>2, <1>4
  <2>2. \A j \in 1..(n - 1) : s[j] \in Leftover
    BY <1>2, <1>4, <2>1
  <2>3. \A j \in 1..(n - 1) : s[j] # e
    BY <1>3, <2>2
  <2>4. \A j \in (n + 1)..Len(s) : s[j] \in Leftover
    BY <2>1
  <2> HIDE DEF n
  <2>5. RemoveFirst(s, e) = SubSeq(s, 1, n - 1) \o SubSeq(s, n + 1, Len(s))
    BY <1>4, <2>1, <2>3, RemoveHere
  <2>6. n - 1 \in Int /\ n + 1 \in Int /\ Len(s) \in Int
    BY <1>2, <1>4, <2>1
  <2>7. SubSeq(s, 1, n - 1) \in Seq(Leftover) /\ SubSeq(s, n + 1, Len(s)) \in Seq(Leftover)
    BY <2>2, <2>4, <2>6, SubSeqProperties
  <2> QED
    BY <2>5, <2>7, ConcatProperties
<1> QED
  BY <1>4, <1>5, <1>6, <1>7 DEF e

-----------------------------------------------------------------------------
(* Core.                                                                   *)

(* Threads and their objects are untouched.                                *)
LEMMA CoreFrame ==
  ASSUME Core, UNCHANGED <<handle, running, job, at>>
  PROVE  Core'
BY DEF Core, OneThread, Known, Busy

(* A step of Work.                                                         *)
LEMMA CoreWork ==
  ASSUME Core, Backed, NEW p \in OSThread, NEW s \in InWork, at[p] \in InWork,
         s \in {"create", "listen", "serve"} => job[p] = "pipe",
         at' = [at EXCEPT ![p] = s], UNCHANGED <<handle, running, job>>
  PROVE  Core'
<1>1. at'[p] = s /\ \A q \in OSThread : q # p => at'[q] = at[q]
  BY DEF Backed, ThreadCore
<1>2. \A q \in OSThread : Busy(q)' <=> Busy(q)
  BY <1>1 DEF Busy
<1>3. OneThread'
  BY <1>2 DEF Core, OneThread
<1>4. s # "free" /\ at[p] # "free"
  BY DEF InWork
<1>5. Known'
  BY <1>1, <1>2, <1>4 DEF Core, Known, Busy
<1> QED
  BY <1>3, <1>5 DEF Core

(* Run creates a thread for an object without one.                         *)
LEMMA CoreCreate ==
  ASSUME Core, Backed, NEW t, NEW create, NEW w \in GameWorker, RunCreate(t, create, w),
         ~running[w]
  PROVE  /\ Core'
         /\ at[FreeThread] = "free" /\ FreeThread \in OSThread
         /\ at'[FreeThread] = "work" /\ job'[FreeThread] = w
         /\ \A q \in OSThread \ {FreeThread} : at'[q] = at[q] /\ job'[q] = job[q]
         /\ running'[w] /\ \A v \in Worker \ {w} : running'[v] = running[v]
<1>1. FreeThread \in OSThread /\ at[FreeThread] = "free"
  BY DEF RunCreate, FreeThread
<1>2. /\ at'  = [at EXCEPT ![FreeThread] = "work"]
      /\ job' = [job EXCEPT ![FreeThread] = w]
      /\ running' = [running EXCEPT ![w] = TRUE]
      /\ handle'  = [handle EXCEPT ![w] = TRUE]
  BY DEF RunCreate
<1> HIDE DEF FreeThread
<1>3. w \in Worker
  BY GameAssumption
<1>4. /\ at'[FreeThread] = "work" /\ job'[FreeThread] = w
      /\ \A q \in OSThread : q # FreeThread => at'[q] = at[q] /\ job'[q] = job[q]
  BY <1>1, <1>2 DEF Backed, ThreadCore
<1>5. /\ running'[w] /\ handle'[w]
      /\ \A v \in Worker : v # w => running'[v] = running[v] /\ handle'[v] = handle[v]
  BY <1>2, <1>3 DEF Backed, ThreadCore
<1>6. \A q \in OSThread : Busy(q) => job[q] # w
  BY DEF Core, Known
<1>7. \A q \in OSThread : q # FreeThread => (Busy(q)' <=> Busy(q))
  BY <1>4 DEF Busy
<1>8. OneThread'
  BY <1>4, <1>6, <1>7 DEF Core, OneThread
<1>9. \A q \in OSThread : job[q] \in Worker
  BY DEF Backed, ThreadCore
<1>10. ASSUME NEW q \in OSThread, q # FreeThread
       PROVE  /\ at'[q] \in InWork => handle'[job'[q]]
              /\ Busy(q)' => running'[job'[q]]
  <2>1. at'[q] \in InWork => Busy(q)
    BY <1>4, <1>10 DEF Busy
  <2> QED
    BY <1>4, <1>5, <1>6, <1>7, <1>9, <1>10, <2>1 DEF Core, Known
<1>11. Known'
  BY <1>4, <1>5, <1>10 DEF Core, Known
<1> QED
  BY <1>1, <1>4, <1>5, <1>8, <1>11 DEF Core

(* ThreadProc.                                                             *)
LEMMA CoreProc ==
  ASSUME Core, Backed, NEW p \in OSThread, ThreadProc(p)
  PROVE  /\ Core'
         /\ \A q \in OSThread \ {p} : at'[q] = at[q] /\ job'[q] = job[q]
         /\ at[p] # "callbacks" => job'[p] = job[p]
         /\ at[p] # "unhandled" => running' = running
         /\ at[p] = "unhandled" =>
              /\ ~running'[job[p]]
              /\ \A w \in Worker \ {job[p]} : running'[w] = running[w]
         /\ \/ at[p] = "left" /\ at'[p] = "unhandled"
            \/ at[p] = "unhandled" /\ at'[p] = "invoke"
            \/ at[p] = "invoke" /\ at'[p] = "callbacks"
            \/ at[p] = "callbacks" /\ at'[p] = "free"
<1>0. job[p] \in Worker
  BY DEF Backed, ThreadCore
<1>1. CASE DropHandle(p)
  <2>1. \A q \in OSThread : q # p => at'[q] = at[q] /\ job'[q] = job[q]
    BY <1>1 DEF Backed, ThreadCore, DropHandle
  <2>2. at[p] = "left" /\ at'[p] = "unhandled" /\ job' = job /\ running' = running
    BY <1>1 DEF Backed, ThreadCore, DropHandle
  <2>3. \A w \in Worker : w # job[p] => handle'[w] = handle[w]
    BY <1>1 DEF Backed, ThreadCore, DropHandle
  <2>4. \A q \in OSThread : Busy(q)' <=> Busy(q)
    BY <2>1, <2>2 DEF Busy, InWork
  <2>5. OneThread'
    BY <2>2, <2>4 DEF Core, OneThread
  <2>6. ASSUME NEW q \in OSThread, at'[q] \in InWork PROVE handle'[job'[q]]
    <3>1. q # p
      BY <2>2, <2>6 DEF InWork
    <3>2. Busy(q) /\ Busy(p) /\ at[q] \in InWork
      BY <2>1, <2>2, <2>6, <3>1 DEF Busy, InWork
    <3>3. job[q] # job[p] /\ job[q] \in Worker
      BY <3>1, <3>2 DEF Core, OneThread, Backed, ThreadCore
    <3> QED
      BY <2>2, <2>3, <3>2, <3>3 DEF Core, Known
  <2>7. Known'
    BY <2>1, <2>2, <2>4, <2>6 DEF Core, Known
  <2> QED
    BY <2>1, <2>2, <2>5, <2>7 DEF Core
<1>2. CASE ClearRunning(p)
  <2>1. \A q \in OSThread : q # p => at'[q] = at[q] /\ job'[q] = job[q]
    BY <1>2 DEF Backed, ThreadCore, ClearRunning
  <2>2. at[p] = "unhandled" /\ at'[p] = "invoke" /\ job' = job /\ handle' = handle
    BY <1>2 DEF Backed, ThreadCore, ClearRunning
  <2>3. ~running'[job[p]] /\ \A w \in Worker : w # job[p] => running'[w] = running[w]
    BY <1>0, <1>2 DEF Backed, ThreadCore, ClearRunning
  <2>4. /\ \A q \in OSThread : Busy(q)' => Busy(q) /\ q # p
        /\ Busy(p) /\ \A q \in OSThread : at'[q] \in InWork => at[q] \in InWork
    BY <2>1, <2>2 DEF Busy, InWork
  <2>5. OneThread'
    BY <2>2, <2>4 DEF Core, OneThread
  <2>6. ASSUME NEW q \in OSThread, Busy(q)' PROVE running'[job'[q]]
    <3>1. Busy(q) /\ q # p
      BY <2>4, <2>6
    <3>2. job[q] # job[p] /\ job[q] \in Worker
      BY <2>4, <3>1 DEF Core, OneThread, Backed, ThreadCore
    <3> QED
      BY <2>2, <2>3, <3>1, <3>2 DEF Core, Known
  <2>7. Known'
    BY <2>1, <2>2, <2>4, <2>6 DEF Core, Known
  <2> QED
    BY <2>1, <2>2, <2>3, <2>5, <2>7 DEF Core
<1>3. CASE InvokeComplete(p) \/ ExitThread(p)
  <2>1. \A q \in OSThread : q # p => at'[q] = at[q] /\ job'[q] = job[q]
    BY <1>3 DEF Backed, ThreadCore, InvokeComplete, ExitThread
  <2>2. \/ at[p] = "invoke" /\ at'[p] = "callbacks" /\ job' = job
        \/ at[p] = "callbacks" /\ at'[p] = "free"
    BY <1>3 DEF Backed, ThreadCore, InvokeComplete, ExitThread
  <2>3. UNCHANGED <<handle, running>>
    BY <1>3 DEF InvokeComplete, ExitThread
  <2>4. /\ \A q \in OSThread : Busy(q)' => Busy(q) /\ q # p
        /\ \A q \in OSThread : at'[q] \in InWork => at[q] \in InWork /\ q # p
    BY <2>1, <2>2 DEF Busy, InWork
  <2>5. OneThread'
    BY <2>1, <2>4 DEF Core, OneThread
  <2>6. Known'
    BY <2>1, <2>2, <2>3, <2>4 DEF Core, Known
  <2> QED
    BY <2>1, <2>2, <2>3, <2>5, <2>6 DEF Core
<1> QED
  BY <1>1, <1>2, <1>3 DEF ThreadProc

-----------------------------------------------------------------------------
(* The operation at the head of an agenda says which action its thread     *)
(* takes.                                                                  *)
Execute(t) ==
  \/ DialogStep(t)
  \/ GameStep(t) /\ UNCHANGED dialogVars
  \/ t \in OSThread /\ HandlerStep(t) /\ UNCHANGED dialogVars

Operate(p) == (WorkStep(p) \/ (GameTurn /\ GameAct(p))) /\ UNCHANGED dialogVars

(* A step is a thread's, Work's, or comes from outside.                    *)
LEMMA NextCases ==
  ASSUME Next
  PROVE  \/ \E t \in Thread : Execute(t)
         \/ \E p \in OSThread : Operate(p)
         \/ User \/ AuthStep \/ WaitClose
<1>1. OSThread \subseteq Thread
  BY DEF Thread
<1> QED
  BY <1>1 DEF Next, Execute, Operate

(* Which operation each action executes.                                   *)
LEMMA Heads ==
  ASSUME NEW t
  PROVE  /\ Change(t) => At(t, "Change")
         /\ ChangeWait(t) => At(t, "ChangeWait")
         /\ SetTo(t) => At(t, "SetTo")
         /\ DoChange(t) => At(t, "DoChange")
         /\ RunSearch(t) => At(t, "RunSearch")
         /\ CreateSearch(t) => At(t, "CreateSearch")
         /\ SetMethod(t) => At(t, "SetMethod")
         /\ InvokeAction(t) => At(t, "InvokeAction")
         /\ Start(t) => At(t, "Start")
         /\ RunPipe(t) => At(t, "RunPipe")
         /\ CreatePipe(t) => At(t, "CreatePipe")
         /\ StartAdd(t) => At(t, "StartAdd")
         /\ StartChangeComplete(t) => At(t, "StartChangeComplete")
         /\ Stop(t) => At(t, "Stop")
         /\ StopSearch(t) => At(t, "StopSearch")
         /\ SignalSearch(t) => At(t, "SignalSearch")
         /\ StopPipe(t) => At(t, "StopPipe") \/ At(t, "StopPipeWaiting")
         /\ SignalPipe(t) => At(t, "SignalPipe")
         /\ ClosePipe(t) => At(t, "ClosePipe")
         /\ DoStop(t) => At(t, "DoStop")
         /\ Cleanup(t) => At(t, "Cleanup")
         /\ CleanupWait(t) => At(t, "CleanupWait")
         /\ WaitSearch(t) => At(t, "WaitSearch")
         /\ WaitPipe(t) => At(t, "WaitPipe")
         /\ Join(t) => At(t, "JoinSearch") \/ At(t, "JoinPipe")
         /\ Delete(t) => At(t, "DeleteSearch") \/ At(t, "DeletePipe")
         /\ onThreadEndForCleanup(t) => At(t, "onThreadEndForCleanup")
         /\ onThreadEndForModuleCleanup(t) => At(t, "onThreadEndForModuleCleanup")
         /\ ModuleCleanupPipe(t) => At(t, "ModuleCleanupPipe")
         /\ MainDialog(t) => At(t, "MainDialog")
         /\ MainLock(t) => At(t, "MainLock")
         /\ UpdateInjectMethodComplete(t) => At(t, "UpdateInjectMethodComplete")
         /\ OnLogoutComplete(t) => At(t, "OnLogoutComplete")
         /\ OnDisconnect(t) => At(t, "OnDisconnect")
         /\ onLogoutComplete2(t) => At(t, "onLogoutComplete2")
         /\ onDisconnectComplete(t) => At(t, "onDisconnectComplete")
BY DEF Change, ChangeWait, SetTo, DoChange, RunSearch, CreateSearch, SetMethod,
       InvokeAction, Start, RunPipe, CreatePipe, StartAdd, StartChangeComplete, Stop,
       StopSearch, SignalSearch, StopPipe, SignalPipe, ClosePipe, DoStop, Cleanup,
       CleanupWait, WaitSearch, WaitPipe, Join, Delete, onThreadEndForCleanup,
       onThreadEndForModuleCleanup, ModuleCleanupPipe, MainDialog, MainLock,
       UpdateInjectMethodComplete, OnLogoutComplete, OnDisconnect, onLogoutComplete2,
       onDisconnectComplete, RunCheck, RunCreate

(* The head of a thread's agenda decides its step.                         *)
LEMMA Turn ==
  ASSUME NEW t, Execute(t)
  PROVE  /\ todo[t] # <<>>
         /\ At(t, "Change") => Change(t) /\ UNCHANGED dialogVars
         /\ At(t, "ChangeWait") => ChangeWait(t) /\ UNCHANGED dialogVars
         /\ At(t, "SetTo") => SetTo(t) /\ UNCHANGED dialogVars
         /\ At(t, "DoChange") => DoChange(t) /\ UNCHANGED dialogVars
         /\ At(t, "RunSearch") => RunSearch(t) /\ UNCHANGED dialogVars
         /\ At(t, "CreateSearch") => CreateSearch(t) /\ UNCHANGED dialogVars
         /\ At(t, "SetMethod") => SetMethod(t) /\ UNCHANGED dialogVars
         /\ At(t, "InvokeAction") => InvokeAction(t) /\ UNCHANGED dialogVars
         /\ At(t, "Start") => Start(t) /\ UNCHANGED dialogVars
         /\ At(t, "RunPipe") => RunPipe(t) /\ UNCHANGED dialogVars
         /\ At(t, "CreatePipe") => CreatePipe(t) /\ UNCHANGED dialogVars
         /\ At(t, "StartAdd") => StartAdd(t) /\ UNCHANGED dialogVars
         /\ At(t, "StartChangeComplete") => StartChangeComplete(t) /\ UNCHANGED dialogVars
         /\ At(t, "Stop") => Stop(t) /\ UNCHANGED dialogVars
         /\ At(t, "StopSearch") => StopSearch(t) /\ UNCHANGED dialogVars
         /\ At(t, "SignalSearch") => SignalSearch(t) /\ UNCHANGED dialogVars
         /\ At(t, "StopPipe") => StopPipe(t) /\ UNCHANGED dialogVars
         /\ At(t, "StopPipeWaiting") => StopPipe(t) /\ UNCHANGED dialogVars
         /\ At(t, "SignalPipe") => SignalPipe(t) /\ UNCHANGED dialogVars
         /\ At(t, "ClosePipe") => ClosePipe(t) /\ UNCHANGED dialogVars
         /\ At(t, "DoStop") => DoStop(t) /\ UNCHANGED dialogVars
         /\ At(t, "Cleanup") => Cleanup(t) /\ UNCHANGED dialogVars
         /\ At(t, "CleanupWait") => CleanupWait(t) /\ UNCHANGED dialogVars
         /\ At(t, "WaitSearch") => WaitSearch(t) /\ UNCHANGED dialogVars
         /\ At(t, "WaitPipe") => WaitPipe(t) /\ UNCHANGED dialogVars
         /\ At(t, "JoinSearch") => Join(t) /\ UNCHANGED dialogVars
         /\ At(t, "JoinPipe") => Join(t) /\ UNCHANGED dialogVars
         /\ At(t, "DeleteSearch") => Delete(t) /\ UNCHANGED dialogVars
         /\ At(t, "DeletePipe") => Delete(t) /\ UNCHANGED dialogVars
         /\ At(t, "onThreadEndForCleanup") => onThreadEndForCleanup(t) /\ UNCHANGED dialogVars
         /\ At(t, "onThreadEndForModuleCleanup") => onThreadEndForModuleCleanup(t) /\ UNCHANGED dialogVars
         /\ At(t, "ModuleCleanupPipe") => ModuleCleanupPipe(t) /\ UNCHANGED dialogVars
         /\ At(t, "MainDialog") => MainDialog(t)
         /\ At(t, "MainLock") => MainLock(t)
         /\ At(t, "UpdateInjectMethodComplete") => UpdateInjectMethodComplete(t)
         /\ At(t, "OnLogoutComplete") => OnLogoutComplete(t)
         /\ At(t, "OnDisconnect") => OnDisconnect(t)
         /\ At(t, "onLogoutComplete2") => onLogoutComplete2(t)
         /\ At(t, "onDisconnectComplete") => onDisconnectComplete(t)
         /\ ~At(t, "Abort")
         /\ At(t, "onThreadEndForCleanup") => t \in OSThread
         /\ At(t, "onThreadEndForModuleCleanup") => t \in OSThread
         /\ At(t, "ModuleCleanupPipe") => t \in OSThread
BY Heads DEF Execute, DialogStep, GameStep, HandlerStep, At

-----------------------------------------------------------------------------
(* The steps of Work and ThreadProc.                                       *)

Serving == {"work", "loop", "create", "listen", "serve"}

(* A step of Work touches its own thread and stop flag only, and leaves    *)
(* Work when told to.                                                      *)
LEMMA Labours ==
  ASSUME Backed, term \in [Worker -> BOOLEAN], Core, NEW p \in OSThread,
         SearchWork(p) \/ PipeWork(p) \/ GameAct(p)
  PROVE  /\ at[p] \in Serving /\ job[p] \in Worker
         /\ UNCHANGED <<handle, running, job, list, todo, State>>
         /\ \A q \in OSThread \ {p} : at'[q] = at[q]
         /\ at'[p] \in Serving \cup {"left"} /\ at'[p] # "work"
         /\ at'[p] = "left" => at[p] = "loop" /\ term[job[p]]
         /\ \A w \in Worker \ {job[p]} : term'[w] = term[w]
         /\ IF at[p] = "work" THEN ~term'[job[p]] /\ at'[p] = "loop" ELSE term' = term
         /\ job[p] = "search" /\ at[p] # "work" => at[p] = "loop" /\ at'[p] = "left"
         /\ Core'
<1>0. /\ job[p] \in Worker /\ at \in [OSThread -> Stage]
      /\ at[p] \in {"create", "listen", "serve"} => job[p] = "pipe"
  BY DEF Backed, ThreadCore, Core, Known
<1>1. CASE ResetTerm(p, "search", "loop") \/ ResetTerm(p, "pipe", "loop")
  <2>1. /\ at[p] = "work" /\ at' = [at EXCEPT ![p] = "loop"]
        /\ term' = [term EXCEPT ![job[p]] = FALSE]
        /\ UNCHANGED <<handle, running, job, list, todo, State>>
    BY <1>1 DEF ResetTerm, moduleVars
  <2>2. Core'
    BY <2>1, CoreWork DEF InWork
  <2>3. at'[p] = "loop" /\ \A q \in OSThread \ {p} : at'[q] = at[q]
    BY <1>0, <2>1
  <2>4. ~term'[job[p]] /\ \A w \in Worker \ {job[p]} : term'[w] = term[w]
    BY <1>0, <2>1
  <2> QED
    BY <1>0, <2>1, <2>2, <2>3, <2>4 DEF Serving
<1>2. CASE Leave(p, "search") \/ Leave(p, "pipe")
  <2>1. /\ at[p] = "loop" /\ at' = [at EXCEPT ![p] = "left"] /\ term[job[p]]
        /\ UNCHANGED <<handle, running, job, list, todo, State, term>>
    BY <1>2 DEF Leave, moduleVars
  <2>2. Core'
    BY <2>1, CoreWork DEF InWork
  <2>3. at'[p] = "left" /\ \A q \in OSThread \ {p} : at'[q] = at[q]
    BY <1>0, <2>1
  <2> QED
    BY <1>0, <2>1, <2>2, <2>3 DEF Serving
<1>3. ASSUME NEW s \in Serving \ {"work"}, at[p] \in Serving \ {"work"}, job[p] = "pipe",
             at' = [at EXCEPT ![p] = s],
             UNCHANGED <<handle, running, job, list, todo, State, term>>
      PROVE  /\ at[p] \in Serving /\ at[p] # "work"
             /\ UNCHANGED <<handle, running, job, list, todo, State, term>>
             /\ \A q \in OSThread \ {p} : at'[q] = at[q]
             /\ at'[p] \in Serving /\ at'[p] # "work"
             /\ job[p] # "search"
             /\ Core'
  <2>1. s \in InWork /\ at[p] \in InWork
    BY <1>3 DEF Serving, InWork
  <2>2. Core'
    BY <1>3, <2>1, CoreWork
  <2>3. at'[p] = s /\ \A q \in OSThread \ {p} : at'[q] = at[q]
    BY <1>0, <1>3
  <2> QED
    BY <1>3, <2>2, <2>3
<1>4. ASSUME PipeLoop(p) \/ PipeCreate(p) \/ PipeListenFails(p) \/ GameAct(p)
      PROVE  \E s \in Serving \ {"work"} :
               /\ at[p] \in Serving \ {"work"} /\ job[p] = "pipe"
               /\ at' = [at EXCEPT ![p] = s]
               /\ UNCHANGED <<handle, running, job, list, todo, State, term>>
  <2>1. CASE PipeLoop(p)
    BY <2>1 DEF PipeLoop, Serving, moduleVars
  <2>2. CASE PipeCreate(p)
    BY <1>0, <2>2 DEF PipeCreate, Serving
  <2>3. CASE PipeListenFails(p)
    BY <1>0, <2>3 DEF PipeListenFails, Serving, moduleVars
  <2>4. CASE GameAct(p)
    BY <1>0, <2>4 DEF GameAct, PipeConnect, GameEarly, GameLeaves, PipeServed, Serving,
                      moduleVars
  <2> QED
    BY <1>4, <2>1, <2>2, <2>3, <2>4
<1>5. CASE PipeLoop(p) \/ PipeCreate(p) \/ PipeListenFails(p) \/ GameAct(p)
  <2>1. /\ at[p] \in Serving /\ at[p] # "work"
        /\ UNCHANGED <<handle, running, job, list, todo, State, term>>
        /\ \A q \in OSThread \ {p} : at'[q] = at[q]
        /\ at'[p] \in Serving /\ at'[p] # "work"
        /\ job[p] # "search"
        /\ Core'
    BY <1>3, <1>4, <1>5
  <2>2. at'[p] # "left"
    BY <2>1 DEF Serving
  <2> QED
    BY <1>0, <2>1, <2>2
<1> QED
  BY <1>1, <1>2, <1>5 DEF SearchWork, PipeWork

(* A thread no stop signal has reached goes on serving.                    *)
LEMMA UpWorks ==
  ASSUME Backed, term \in [Worker -> BOOLEAN], Core, NEW p \in OSThread, Up(p),
         WorkStep(p) \/ GameAct(p)
  PROVE  /\ Up(p)' /\ Core'
         /\ UNCHANGED <<handle, running, job, list, todo, State>>
         /\ \A q \in OSThread \ {p} : at'[q] = at[q]
         /\ job[p] = "search" => at[p] = "work"
         /\ \A w \in Worker \ {job[p]} : term'[w] = term[w]
         /\ \A w \in Worker : term'[w] => term[w]
<1>1. ~ThreadProc(p)
  BY DEF Up, ThreadProc, DropHandle, ClearRunning, InvokeComplete, ExitThread
<1>2. SearchWork(p) \/ PipeWork(p) \/ GameAct(p)
  BY <1>1 DEF WorkStep
<1>3. /\ at[p] \in Serving /\ job[p] \in Worker
      /\ UNCHANGED <<handle, running, job, list, todo, State>>
      /\ \A q \in OSThread \ {p} : at'[q] = at[q]
      /\ at'[p] \in Serving \cup {"left"} /\ at'[p] # "work"
      /\ at'[p] = "left" => at[p] = "loop" /\ term[job[p]]
      /\ \A w \in Worker \ {job[p]} : term'[w] = term[w]
      /\ IF at[p] = "work" THEN ~term'[job[p]] /\ at'[p] = "loop" ELSE term' = term
      /\ job[p] = "search" /\ at[p] # "work" => at[p] = "loop" /\ at'[p] = "left"
      /\ Core'
  BY <1>2, Labours
<1>4. at'[p] # "left"
  BY <1>3 DEF Up
<1>5. Up(p)'
  BY <1>3, <1>4 DEF Up, Serving
<1> QED
  BY <1>3, <1>4, <1>5

(* So do the others.                                                       *)
LEMMA OthersUp ==
  ASSUME NEW p \in OSThread, NEW q \in OSThread, at'[q] = at[q], job'[q] = job[q],
         job[q] \in Worker, todo'[q] = todo[q], \A w \in Worker : term'[w] => term[w]
  PROVE  /\ Up(q) => Up(q)'
         /\ Gone(q) => Gone(q)'
         /\ Spent(q) => Spent(q)'
BY DEF Up, Gone, Spent

(* A thread that does not exist takes no step.                             *)
LEMMA GoneRests ==
  ASSUME NEW p \in OSThread, at[p] = "free"
  PROVE  ~WorkStep(p) /\ ~GameAct(p)
BY DEF WorkStep, SearchWork, PipeWork, ResetTerm, Leave, PipeLoop, PipeCreate,
       PipeListenFails, GameAct, PipeConnect, GameEarly, GameLeaves, PipeServed, ThreadProc,
       DropHandle, ClearRunning, InvokeComplete, ExitThread

(* What a thread does that has left Work.                                  *)
LEMMA OnlyProc ==
  ASSUME NEW p \in OSThread, at[p] \notin Serving, WorkStep(p) \/ GameAct(p)
  PROVE  ThreadProc(p) /\ UNCHANGED moduleVars
BY DEF Serving, WorkStep, SearchWork, PipeWork, ResetTerm, Leave, PipeLoop, PipeCreate,
       PipeListenFails, GameAct, PipeConnect, GameEarly, GameLeaves, PipeServed

(* A thread in its Work takes no step of ThreadProc.                       *)
LEMMA OnlyLabour ==
  ASSUME NEW p \in OSThread, at[p] \in Serving, WorkStep(p) \/ GameAct(p)
  PROVE  SearchWork(p) \/ PipeWork(p) \/ GameAct(p)
BY DEF Serving, WorkStep, ThreadProc, DropHandle, ClearRunning, InvokeComplete, ExitThread

-----------------------------------------------------------------------------
(* Nobody acts on a client that is not idle.                               *)
LEMMA Busies ==
  ASSUME Pace = "idle", NEW t \in Thread, todo[t] # <<>>
  PROVE  ~MayAct
BY DEF MayAct, Idle

(* What may come from outside while the client is busy.                    *)
LEMMA Outside ==
  ASSUME ~MayAct, User \/ AuthStep \/ WaitClose
  PROVE  LoginFails \/ WaitClose
BY DEF User, AuthStep, Login, CloseLogin, UpdateInjectMethod, Leaving, Clickable,
       LoginSucceeds, LogoutDone, Disconnected

-----------------------------------------------------------------------------
(* What the stages have in common.                                         *)

Sound == Typed /\ Core /\ Pace = "idle"

(* The types every stage relies on.                                        *)
LEMMA SoundTypes ==
  ASSUME Sound
  PROVE  /\ Backed /\ Agendas /\ Lists /\ Core /\ term \in [Worker -> BOOLEAN]
         /\ Pace = "idle"
         /\ \A p \in OSThread : job[p] \in Worker /\ at[p] \in Stage
BY DEF Sound, Typed, GameData, Backed, ThreadCore

(* The threads and delegates the client names.                             *)
LEMMA Names ==
  /\ Callers \subseteq Thread /\ Callers \cap OSThread = {} /\ OSThread \subseteq Thread
  /\ Callers \subseteq Caller
  /\ "onActionComplete" \in Delegate /\ "search" \in Delegate /\ "pipe" \in Delegate
  /\ "search" \in Worker /\ "pipe" \in Worker
  /\ GameOp \subseteq Op /\ DialogOp \subseteq Op
  /\ Auths \subseteq Callers /\ "main" \in Callers /\ "main" \notin Auths
BY ThreadAssumption, GameAssumption, DialogAssumption
   DEF Thread, Delegate, GameWorker, Auths, Callers

(* The only thread with an agenda.                                         *)
LEMMA Alone ==
  ASSUME NEW t \in Thread, Execute(t), NEW c, Quiet({c}), \A p \in OSThread : todo[p] = <<>>
  PROVE  t = c
<1>1. todo[t] # <<>>
  BY Turn
<1> QED
  BY <1>1 DEF Quiet, Thread

(* Handlers come to onActionComplete and go.                               *)
LEMMA ActionAdds ==
  ASSUME Lists, NEW h, AddHandler("onActionComplete", h)
  PROVE  /\ OnAction' = Append(OnAction, h)
         /\ \A w \in GameWorker : list'[w] = list[w]
         /\ OnlyLeftovers => OnlyLeftovers'
BY Names DEF Lists, AddHandler, OnAction, GameWorker, OnlyLeftovers

(* Remove on onActionComplete.                                             *)
LEMMA ActionRemoves ==
  ASSUME Lists, NEW h, RemoveHandler("onActionComplete", h)
  PROVE  /\ OnAction' = RemoveFirst(OnAction, h)
         /\ \A w \in GameWorker : list'[w] = list[w]
         /\ OnlyLeftovers => OnlyLeftovers'
BY Names DEF Lists, RemoveHandler, OnAction, GameWorker, OnlyLeftovers

(* A caller's operation that touches no thread.                            *)
LEMMA ServedKept ==
  ASSUME Sound, NEW t \in Callers, \A u \in Thread \ {t} : todo'[u] = todo[u],
         UNCHANGED <<at, job, term>>
  PROVE  /\ Quiet({t}) => Quiet({t})'
         /\ \A p \in OSThread : /\ Gone(p) => Gone(p)'
                                /\ Up(p) => Up(p)'
                                /\ Spent(p) => Spent(p)'
<1>1. \A p \in OSThread : todo'[p] = todo[p]
  BY Names
<1>2. Quiet({t}) => Quiet({t})'
  BY DEF Quiet, Thread
<1> QED
  BY <1>1, <1>2 DEF Gone, Up, Spent

(* A caller's Run has created a thread.                                    *)
LEMMA ServedCreate ==
  ASSUME Sound, NEW t \in Thread, NEW create, NEW w \in GameWorker, RunCreate(t, create, w),
         ~running[w], \A u \in Thread \ {t} : todo'[u] = todo[u],
         \A p \in OSThread : at[p] = "free" => todo[p] = <<>> /\ p # t
  PROVE  /\ Core' /\ running'[w] /\ \A v \in Worker \ {w} : running'[v] = running[v]
         /\ \A p \in OSThread \ {t} : Gone(p) \/ Up(p) => (Gone(p) \/ Up(p))'
         /\ \A p \in OSThread : at[p] # "free" => at'[p] = at[p] /\ job'[p] = job[p]
<1>1. /\ Core'
      /\ at[FreeThread] = "free" /\ FreeThread \in OSThread
      /\ at'[FreeThread] = "work" /\ job'[FreeThread] = w
      /\ \A q \in OSThread \ {FreeThread} : at'[q] = at[q] /\ job'[q] = job[q]
      /\ running'[w] /\ \A v \in Worker \ {w} : running'[v] = running[v]
  BY CoreCreate, SoundTypes
<1>2. term' = term
  BY DEF RunCreate
<1>3. ASSUME NEW p \in OSThread, p # t, Gone(p) \/ Up(p) PROVE (Gone(p) \/ Up(p))'
  <2>1. todo'[p] = todo[p] /\ todo[p] = <<>>
    BY <1>3, Names DEF Gone, Up
  <2>2. CASE p = FreeThread
    BY <1>1, <2>1, <2>2 DEF Up
  <2>3. CASE p # FreeThread
    BY <1>1, <1>2, <1>3, <2>1, <2>3 DEF Up, Gone
  <2> QED
    BY <2>2, <2>3
<1> QED
  BY <1>1, <1>3

-----------------------------------------------------------------------------
(* Entering and Opening.                                                   *)

(* Auth is logging in.                                                     *)
LEMMA EnteringNext ==
  ASSUME Sound, Entering, Next
  PROVE  Placed'
<1>1. ASSUME NEW t \in Thread PROVE ~Execute(t)
  <2>1. todo[t] = <<>>
    BY DEF Entering, Quiet, Gone, Thread
  <2> QED
    BY <2>1, Turn
<1>2. ASSUME NEW p \in OSThread PROVE ~Operate(p)
  BY GoneRests DEF Entering, Gone, Operate
<1>3. CASE LoginFails
  <2>1. UNCHANGED <<gameVars, front>> /\ session' = "out"
    BY <1>3 DEF LoginFails
  <2>2. UNCHANGED <<handle, running, job, at, list, todo, State, front>>
    BY <2>1 DEF gameVars, workerVars, moduleVars
  <2>3. Core'
    BY <2>2, CoreFrame, SoundTypes
  <2>4. OutCallers' /\ todo'["main"] = <<>>
    <3>1. <<>> \in Seq(CleanOp)
      OBVIOUS
    <3>2. \A u \in Caller : todo'[u] = <<>>
      BY <2>2 DEF Entering, Quiet
    <3>3. "main" \in Caller /\ Auths \subseteq Caller
      BY Names
    <3> QED
      BY <3>1, <3>2, <3>3 DEF OutCallers, Quiet, Signalled
  <2>5. Out'
    BY <2>1, <2>2, <2>4 DEF Entering, Out, OnAction, OnlyLeftovers, Gone, Ending
  <2> QED
    BY <2>3, <2>5 DEF Placed, Somewhere
<1>4. CASE LoginSucceeds
  <2>1. /\ session' = "in" /\ front' = "hidden"
        /\ todo' = [todo EXCEPT !["login"] = <<"MainDialog", "MainLock", "Start">>]
        /\ UNCHANGED <<handle, running, job, at, term, list, State>>
    BY <1>4 DEF LoginSucceeds, Entering, moduleVars
  <2>2. Core'
    BY <2>1, CoreFrame, SoundTypes
  <2>3. "login" \in Callers
    BY DEF Callers
  <2>4. /\ todo'["login"] = <<"MainDialog", "MainLock", "Start">>
        /\ \A u \in Thread \ {"login"} : todo'[u] = todo[u]
    BY <2>1, <2>3, Names, SoundTypes DEF Agendas
  <2>5. Quiet({"login"})'
    BY <2>4 DEF Entering, Quiet, Thread
  <2>6. \A p \in OSThread : Gone(p)'
    BY <2>1, <2>3, <2>4, ServedKept DEF Entering
  <2>7. Opening'
    BY <2>1, <2>4, <2>5, <2>6 DEF Entering, Opening, OnAction, OnlyLeftovers
  <2> QED
    BY <2>2, <2>7 DEF Placed, Somewhere
<1>5. ~Login /\ ~CloseLogin /\ ~LogoutDone /\ ~Disconnected /\ ~WaitClose
  BY SoundTypes DEF Entering, Login, CloseLogin, LogoutDone, Disconnected, WaitClose
<1>6. (\A m \in Method : ~UpdateInjectMethod(m)) /\ (\A e \in {"LOGOUT", "EXIT"} : ~Leaving(e))
  BY DEF Entering, UpdateInjectMethod, Leaving, Clickable
<1> QED
  BY <1>1, <1>2, <1>3, <1>4, <1>5, <1>6, NextCases DEF User, AuthStep

(* The login thread opens the main dialog and calls Start.                 *)
LEMMA OpeningNext ==
  ASSUME Sound, Opening, Next
  PROVE  Placed'
<1> DEFINE t == "login"
<1>0. t \in Callers /\ t \in Thread /\ todo[t] # <<>>
  BY Names, Tuples DEF Opening, Callers
<1>1. ASSUME NEW u \in Thread, Execute(u) PROVE u = t
  BY <1>1, Alone DEF Opening, Gone
<1>2. ASSUME NEW p \in OSThread PROVE ~Operate(p)
  BY GoneRests DEF Opening, Gone, Operate
<1>3. ASSUME User \/ AuthStep \/ WaitClose PROVE FALSE
  <2>1. LoginFails \/ WaitClose
    BY <1>0, <1>3, Busies, Outside, SoundTypes
  <2> QED
    BY <2>1 DEF LoginFails, WaitClose, Opening
<1>4. Execute(t)
  BY <1>1, <1>2, <1>3, NextCases
<1> HIDE DEF t
<1>5. CASE todo[t] = <<"MainDialog", "MainLock", "Start">>
  <2>1. /\ MainDialog(t) /\ OnAction = <<>> /\ front = "hidden"
    BY <1>4, <1>5, Turn, Tuples DEF At, Opening, t
  <2>2. /\ Return(t) /\ front' = "main" /\ session' = session
        /\ UNCHANGED <<handle, running, job, at, term, list, State>>
    BY <2>1 DEF MainDialog, moduleVars
  <2>3. todo'[t] = <<"MainLock", "Start">> /\ \A u \in Thread \ {t} : todo'[u] = todo[u]
    <3>1. Tail(todo[t]) = <<"MainLock", "Start">>
      BY <1>5, Tuples
    <3> QED
      BY <1>0, <2>2, <3>1, Returned, SoundTypes
  <2>4. Core'
    BY <2>2, CoreFrame, SoundTypes
  <2>5. Quiet({t})' /\ \A p \in OSThread : Gone(p)'
    BY <1>0, <2>2, <2>3, ServedKept DEF Opening, t
  <2>6. Opening'
    BY <2>1, <2>2, <2>3, <2>5 DEF Opening, OnAction, OnlyLeftovers, t
  <2> QED
    BY <2>4, <2>6 DEF Placed, Somewhere
<1>6. CASE todo[t] = <<"MainLock", "Start">>
  <2>1. /\ MainLock(t) /\ OnAction = <<>> /\ front = "main"
    BY <1>4, <1>6, Turn, Tuples DEF At, Opening, t
  <2>2. /\ Return(t) /\ lock' = TRUE /\ UNCHANGED <<front, session>>
        /\ AddHandler("onActionComplete", "UpdateInjectMethodComplete")
        /\ UNCHANGED <<handle, running, job, at, term, State>>
    BY <2>1 DEF MainLock, moduleVars
  <2>3. todo'[t] = <<"Start">> /\ \A u \in Thread \ {t} : todo'[u] = todo[u]
    <3>1. Tail(todo[t]) = <<"Start">>
      BY <1>6, Tuples
    <3> QED
      BY <1>0, <2>2, <3>1, Returned, SoundTypes
  <2>4. Core'
    BY <2>2, CoreFrame, SoundTypes
  <2>5. Quiet({t})' /\ \A p \in OSThread : Gone(p)'
    BY <1>0, <2>2, <2>3, ServedKept DEF Opening, t
  <2>6. OnAction' = <<"UpdateInjectMethodComplete">> /\ OnlyLeftovers'
    BY <2>1, <2>2, ActionAdds, AppendTuples, SoundTypes DEF Opening
  <2>7. Opening'
    BY <2>1, <2>2, <2>3, <2>5, <2>6 DEF Opening, t
  <2> QED
    BY <2>4, <2>7 DEF Placed, Somewhere
<1>7. CASE todo[t] = <<"Start">>
  <2>1. /\ Start(t) /\ UNCHANGED dialogVars /\ front = "main" /\ lock
        /\ OnAction = <<"UpdateInjectMethodComplete">>
    BY <1>4, <1>7, Turn, Tuples DEF At, Opening, t
  <2>2. /\ Call(t, <<"RunPipe", "StartAdd", "Change">>) /\ State' = "STARTING"
        /\ UNCHANGED <<handle, running, job, at, term, list, front, lock, session>>
    BY <2>1 DEF Start, dialogVars, Opening
  <2>3. <<"RunPipe", "StartAdd", "Change">> \in Seq(Op)
    BY Names DEF GameOp
  <2>4. todo'[t] = <<"RunPipe", "StartAdd", "Change">>
        /\ \A u \in Thread \ {t} : todo'[u] = todo[u]
    <3>1. Tail(todo[t]) = <<>>
      BY <1>7, Tuples
    <3> QED
      BY <1>0, <2>2, <2>3, <3>1, CalledLast, SoundTypes
  <2>5. Core'
    BY <2>2, CoreFrame, SoundTypes
  <2>6. Quiet({t})' /\ \A p \in OSThread : Gone(p)'
    BY <1>0, <2>2, <2>4, ServedKept DEF Opening, t
  <2>7. StartingPipe'
    BY <2>1, <2>2, <2>4 DEF StartingPipe, OnAction, Opening, t
  <2>8. Starting'
    BY <2>1, <2>2, <2>6, <2>7 DEF Starting, Opening, OnlyLeftovers, t
  <2> QED
    BY <2>5, <2>8 DEF Placed, Somewhere
<1> QED
  BY <1>5, <1>6, <1>7 DEF Opening, t

-----------------------------------------------------------------------------
(* Starting.                                                               *)

(* A step of the login thread within Starting that touches no thread.      *)
LEMMA StartingKept ==
  ASSUME Sound, Starting, UNCHANGED <<at, job, term, handle, running, session, front, State>>,
         \A u \in Thread \ {"login"} : todo'[u] = todo[u], OnlyLeftovers',
         lock', StartingPipe' \/ StartingSearch'
  PROVE  Placed'
<1>0. "login" \in Callers
  BY DEF Callers
<1>1. Core'
  BY CoreFrame, SoundTypes
<1>2. Quiet({"login"})' /\ \A p \in OSThread : Gone(p)' \/ Up(p)'
  BY <1>0, ServedKept DEF Starting
<1>3. Starting'
  BY <1>2 DEF Starting
<1> QED
  BY <1>1, <1>3 DEF Placed, Somewhere

(* RunPipe, CreatePipe, StartAdd.                                          *)
LEMMA StartingPipeNext ==
  ASSUME Sound, Starting, lock, StartingPipe, Execute("login")
  PROVE  Placed'
<1> DEFINE t == "login"
<1>0. t \in Callers /\ t \in Thread /\ t \in Caller
  BY Names DEF Callers
<1>a. Execute(t) /\ OnlyLeftovers /\ ~running["search"]
  BY DEF Starting, StartingPipe
<1> HIDE DEF t
<1>1. CASE todo[t] = <<"RunPipe", "StartAdd", "Change">>
  <2>1. RunPipe(t) /\ UNCHANGED dialogVars
    BY <1>a, <1>1, Turn, Tuples DEF At
  <2>2. ~running["pipe"]
    <3>1. todo[t] # <<"StartAdd", "Change">>
      BY <1>1, Tuples
    <3> QED
      BY <3>1 DEF StartingPipe, t
  <2>3. ~handle["pipe"]
    BY <2>2, Names, SoundTypes DEF Backed, ThreadBacked, Core, Known, Busy
  <2>4. /\ Call(t, <<"CreatePipe">>)
        /\ UNCHANGED <<handle, running, term, job, at, list, State, session, front, lock>>
    BY <2>1, <2>3 DEF RunPipe, RunCheck, moduleVars, dialogVars
  <2>5. "CreatePipe" \in Op /\ "StartAdd" \in Op /\ "Change" \in Op
    BY Names DEF GameOp
  <2>6. todo'[t] = <<"CreatePipe", "StartAdd", "Change">>
        /\ \A u \in Thread \ {t} : todo'[u] = todo[u]
    BY <1>0, <1>1, <2>4, <2>5, Replaced, SoundTypes
  <2>7. StartingPipe'
    BY <2>2, <2>4, <2>6 DEF StartingPipe, OnAction, t
  <2>8. OnlyLeftovers'
    BY <1>a, <2>4 DEF OnlyLeftovers
  <2> QED
    BY <2>4, <2>6, <2>7, <2>8, StartingKept DEF t
<1>2. CASE todo[t] = <<"CreatePipe", "StartAdd", "Change">>
  <2>1. CreatePipe(t) /\ UNCHANGED dialogVars
    BY <1>a, <1>2, Turn, Tuples DEF At
  <2>2. ~running["pipe"]
    <3>1. todo[t] # <<"StartAdd", "Change">>
      BY <1>2, Tuples
    <3> QED
      BY <3>1 DEF StartingPipe, t
  <2>3. /\ RunCreate(t, "CreatePipe", "pipe") /\ Return(t)
        /\ UNCHANGED <<term, list, State, session, front, lock>>
    BY <2>1 DEF CreatePipe, RunCreate, moduleVars, dialogVars
  <2>4. todo'[t] = <<"StartAdd", "Change">> /\ \A u \in Thread \ {t} : todo'[u] = todo[u]
    <3>1. Tail(todo[t]) = <<"StartAdd", "Change">> /\ todo[t] # <<>>
      BY <1>2, Tuples
    <3> QED
      BY <1>0, <2>3, <3>1, Returned, SoundTypes
  <2>5. \A p \in OSThread : at[p] = "free" => todo[p] = <<>> /\ p # t
    BY <1>0, Names DEF Starting, Gone, Up
  <2>6. /\ Core' /\ running'["pipe"] /\ running'["search"] = running["search"]
        /\ \A p \in OSThread \ {t} : Gone(p) \/ Up(p) => (Gone(p) \/ Up(p))'
    <3>1. "pipe" \in GameWorker
      BY DEF GameWorker
    <3> QED
      BY <1>0, <2>2, <2>3, <2>4, <2>5, <3>1, Names, ServedCreate
  <2>7. \A p \in OSThread : Gone(p)' \/ Up(p)'
    BY <1>0, <2>6, Names DEF Starting
  <2>8. Quiet({t})'
    BY <1>0, <2>4, Names DEF Starting, Quiet, t, Thread
  <2>9. StartingPipe'
    BY <2>3, <2>4, <2>6 DEF StartingPipe, OnAction, t
  <2>10. Starting'
    BY <2>3, <2>7, <2>8, <2>9 DEF Starting, OnlyLeftovers, t
  <2> QED
    BY <2>6, <2>10 DEF Placed, Somewhere
<1>3. CASE todo[t] = <<"StartAdd", "Change">>
  <2>1. StartAdd(t) /\ UNCHANGED dialogVars
    BY <1>a, <1>3, Turn, Tuples DEF At
  <2>2. /\ Return(t) /\ AddHandler("onActionComplete", "StartChangeComplete")
        /\ UNCHANGED <<handle, running, term, job, at, State, session, front, lock>>
    BY <2>1 DEF StartAdd, moduleVars, dialogVars
  <2>3. todo'[t] = <<"Change">> /\ \A u \in Thread \ {t} : todo'[u] = todo[u]
    <3>1. Tail(todo[t]) = <<"Change">> /\ todo[t] # <<>>
      BY <1>3, Tuples
    <3> QED
      BY <1>0, <2>2, <3>1, Returned, SoundTypes
  <2>4. /\ OnAction' = <<"UpdateInjectMethodComplete", "StartChangeComplete">>
        /\ OnlyLeftovers'
    BY <1>a, <2>2, ActionAdds, AppendTuples, SoundTypes DEF StartingPipe
  <2>5. running["pipe"]
    <3>1. todo[t] \notin {<<"RunPipe", "StartAdd", "Change">>, <<"CreatePipe", "StartAdd", "Change">>}
      BY <1>3, Tuples
    <3> QED
      BY <3>1 DEF StartingPipe, t
  <2>6. StartingSearch'
    BY <1>a, <2>2, <2>3, <2>4, <2>5 DEF StartingSearch, t
  <2> QED
    BY <2>2, <2>3, <2>4, <2>6, StartingKept DEF t
<1> QED
  BY <1>1, <1>2, <1>3 DEF StartingPipe, t

(* DoChange, on whatever thread: RunSearch heeded, the threads kept, and   *)
(* at the end the handlers of onActionComplete.                            *)
LEMMA ChangingNext ==
  ASSUME Sound, NEW t \in Thread, Execute(t), Changing(t),
         t \in OSThread => at[t] = "callbacks",
         \A p \in OSThread \ {t} : Gone(p) \/ Up(p)
  PROVE  /\ Core' /\ running'["pipe"] = running["pipe"]
         /\ UNCHANGED <<list, State, front, lock, session>>
         /\ \A u \in Thread \ {t} : todo'[u] = todo[u]
         /\ \A p \in OSThread \ {t} : (Gone(p) \/ Up(p))'
         /\ t \in OSThread => at'[t] = at[t] /\ job'[t] = job[t]
         /\ Changing(t)' \/ todo'[t] = OnAction
<1> DEFINE frame == UNCHANGED <<handle, running, term, job, at, list, State, front, lock, session>>
<1>k. ASSUME frame, \A u \in Thread \ {t} : todo'[u] = todo[u], Changing(t)' \/ todo'[t] = OnAction
      PROVE  /\ Core' /\ running'["pipe"] = running["pipe"]
             /\ UNCHANGED <<list, State, front, lock, session>>
             /\ \A u \in Thread \ {t} : todo'[u] = todo[u]
             /\ \A p \in OSThread \ {t} : (Gone(p) \/ Up(p))'
             /\ t \in OSThread => at'[t] = at[t] /\ job'[t] = job[t]
             /\ Changing(t)' \/ todo'[t] = OnAction
  <2>1. Core'
    BY <1>k, CoreFrame, SoundTypes
  <2>2. \A p \in OSThread \ {t} : todo'[p] = todo[p]
    BY <1>k, Names
  <2>3. \A p \in OSThread \ {t} : (Gone(p) \/ Up(p))'
    BY <1>k, <2>2 DEF Gone, Up
  <2> QED
    BY <1>k, <2>1, <2>3
<1>0. /\ "RunSearch" \in Op /\ "CreateSearch" \in Op /\ "SetMethod" \in Op /\ "InvokeAction" \in Op
      /\ <<"RunSearch", "SetMethod", "InvokeAction">> \in Seq(Op)
      /\ <<"SetMethod", "InvokeAction">> \in Seq(Op)
  BY Names DEF GameOp
<1>1. CASE todo[t] = <<"DoChange">>
  <2>1. DoChange(t) /\ UNCHANGED dialogVars
    BY <1>1, Turn, Tuples DEF At
  <2>2. frame
    BY <2>1 DEF DoChange, moduleVars, dialogVars
  <2>3. todo[t] # <<>> /\ Tail(todo[t]) = <<>>
    BY <1>1, Tuples
  <2>4. \/ Call(t, <<"RunSearch", "SetMethod", "InvokeAction">>)
        \/ Call(t, <<"SetMethod", "InvokeAction">>)
    BY <2>1 DEF DoChange
  <2>5. /\ \A u \in Thread \ {t} : todo'[u] = todo[u]
        /\ todo'[t] \in {<<"RunSearch", "SetMethod", "InvokeAction">>,
                         <<"SetMethod", "InvokeAction">>}
    BY <1>0, <2>3, <2>4, CalledLast, SoundTypes
  <2>6. ~running["search"]
    <3>1. todo[t] # <<"SetMethod", "InvokeAction">> /\ todo[t] # <<"InvokeAction">>
      BY <1>1, Tuples
    <3> QED
      BY <3>1 DEF Changing
  <2>7. Changing(t)'
    BY <2>2, <2>5, <2>6 DEF Changing
  <2> HIDE DEF frame
  <2> QED
    BY <1>k, <2>2, <2>5, <2>7
<1>2. CASE todo[t] = <<"RunSearch", "SetMethod", "InvokeAction">>
  <2>1. RunSearch(t) /\ UNCHANGED dialogVars
    BY <1>2, Turn, Tuples DEF At
  <2>2. frame
    BY <2>1 DEF RunSearch, RunCheck, moduleVars, dialogVars
  <2>3. ~running["search"]
    <3>1. todo[t] # <<"SetMethod", "InvokeAction">> /\ todo[t] # <<"InvokeAction">>
      BY <1>2, Tuples
    <3> QED
      BY <3>1 DEF Changing
  <2>4. ~handle["search"]
    BY <2>3, Names, SoundTypes DEF Backed, ThreadBacked, Core, Known, Busy
  <2>5. Call(t, <<"CreateSearch">>)
    BY <2>1, <2>4 DEF RunSearch, RunCheck
  <2>6. /\ todo'[t] = <<"CreateSearch", "SetMethod", "InvokeAction">>
        /\ \A u \in Thread \ {t} : todo'[u] = todo[u]
    BY <1>0, <1>2, <2>5, Replaced, SoundTypes
  <2>7. Changing(t)'
    BY <2>2, <2>3, <2>6 DEF Changing
  <2> HIDE DEF frame
  <2> QED
    BY <1>k, <2>2, <2>6, <2>7
<1>3. CASE todo[t] = <<"CreateSearch", "SetMethod", "InvokeAction">>
  <2>1. CreateSearch(t) /\ UNCHANGED dialogVars
    BY <1>3, Turn, Tuples DEF At
  <2>2. ~running["search"]
    <3>1. todo[t] # <<"SetMethod", "InvokeAction">> /\ todo[t] # <<"InvokeAction">>
      BY <1>3, Tuples
    <3> QED
      BY <3>1 DEF Changing
  <2>3. /\ RunCreate(t, "CreateSearch", "search") /\ Return(t)
        /\ UNCHANGED <<list, State, session, front, lock>>
    BY <2>1 DEF CreateSearch, RunCreate, moduleVars, dialogVars
  <2>4. todo'[t] = <<"SetMethod", "InvokeAction">> /\ \A u \in Thread \ {t} : todo'[u] = todo[u]
    <3>1. Tail(todo[t]) = <<"SetMethod", "InvokeAction">> /\ todo[t] # <<>>
      BY <1>3, Tuples
    <3> QED
      BY <2>3, <3>1, Returned, SoundTypes
  <2>5. \A p \in OSThread : at[p] = "free" => todo[p] = <<>> /\ p # t
    BY DEF Gone, Up
  <2>6. /\ Core' /\ running'["pipe"] = running["pipe"]
        /\ \A p \in OSThread \ {t} : Gone(p) \/ Up(p) => (Gone(p) \/ Up(p))'
        /\ \A p \in OSThread : at[p] # "free" => at'[p] = at[p] /\ job'[p] = job[p]
    <3>1. "search" \in GameWorker
      BY DEF GameWorker
    <3> QED
      BY <2>2, <2>3, <2>4, <2>5, <3>1, Names, ServedCreate
  <2>7. Changing(t)'
    BY <2>4 DEF Changing
  <2> QED
    BY <2>3, <2>4, <2>6, <2>7
<1>4. CASE todo[t] = <<"SetMethod", "InvokeAction">>
  <2>1. SetMethod(t) /\ UNCHANGED dialogVars
    BY <1>4, Turn, Tuples DEF At
  <2>2. frame /\ Return(t)
    BY <2>1 DEF SetMethod, dialogVars
  <2>3. todo'[t] = <<"InvokeAction">> /\ \A u \in Thread \ {t} : todo'[u] = todo[u]
    <3>1. Tail(todo[t]) = <<"InvokeAction">> /\ todo[t] # <<>>
      BY <1>4, Tuples
    <3> QED
      BY <2>2, <3>1, Returned, SoundTypes
  <2>4. Changing(t)'
    BY <2>3 DEF Changing
  <2> HIDE DEF frame
  <2> QED
    BY <1>k, <2>2, <2>3, <2>4
<1>5. CASE todo[t] = <<"InvokeAction">>
  <2>1. InvokeAction(t) /\ UNCHANGED dialogVars
    BY <1>5, Turn, Tuples DEF At
  <2>2. frame /\ Call(t, OnAction)
    BY <2>1 DEF InvokeAction, Invoke, OnAction, moduleVars, dialogVars
  <2>3. OnAction \in Seq(Op)
    BY ListOps, Names, SoundTypes DEF OnAction
  <2>4. todo'[t] = OnAction /\ \A u \in Thread \ {t} : todo'[u] = todo[u]
    <3>1. Tail(todo[t]) = <<>> /\ todo[t] # <<>>
      BY <1>5, Tuples
    <3> QED
      BY <2>2, <2>3, <3>1, CalledLast, SoundTypes
  <2> HIDE DEF frame
  <2> QED
    BY <1>k, <2>2, <2>4
<1> QED
  BY <1>1, <1>2, <1>3, <1>4, <1>5 DEF Changing

(* From Change to the handlers of the login's completion.                  *)
LEMMA StartingSearchNext ==
  ASSUME Sound, Starting, lock, StartingSearch, Execute("login")
  PROVE  Placed'
<1> DEFINE t == "login"
<1>0. t \in Callers /\ t \in Thread /\ t \in Caller /\ t \notin OSThread
  BY Names DEF Callers
<1>a. Execute(t) /\ OnlyLeftovers /\ running["pipe"] /\ \A p \in OSThread : Gone(p) \/ Up(p)
  BY DEF Starting, StartingSearch
<1>b. OnAction = <<"UpdateInjectMethodComplete", "StartChangeComplete">>
  BY DEF StartingSearch
<1>1. CASE Changing(t)
  <2>1. /\ Core' /\ running'["pipe"] = running["pipe"]
        /\ UNCHANGED <<list, State, front, lock, session>>
        /\ \A u \in Thread \ {t} : todo'[u] = todo[u]
        /\ \A p \in OSThread \ {t} : (Gone(p) \/ Up(p))'
        /\ Changing(t)' \/ todo'[t] = OnAction
    BY <1>0, <1>1, <1>a, ChangingNext
  <2>2. Quiet({t})'
    BY <2>1 DEF Starting, Quiet, Thread
  <2>3. StartingSearch'
    BY <1>a, <1>b, <2>1 DEF StartingSearch, OnAction
  <2>4. \A p \in OSThread : Gone(p)' \/ Up(p)'
    BY <1>0, <2>1
  <2>5. Starting'
    BY <2>1, <2>2, <2>3, <2>4 DEF Starting, OnlyLeftovers
  <2> QED
    BY <2>1, <2>5 DEF Placed, Somewhere
<1> HIDE DEF t
<1>2. CASE todo[t] = <<"Change">> /\ ~running["search"]
  <2>1. Change(t) /\ UNCHANGED dialogVars
    BY <1>2, <1>a, Turn, Tuples DEF At
  <2>2. /\ Call(t, <<"SetTo", "DoChange">>)
        /\ UNCHANGED <<handle, running, term, job, at, list, State, session, front, lock>>
    BY <1>2, <2>1 DEF Change, dialogVars
  <2>3. <<"SetTo", "DoChange">> \in Seq(Op)
    BY Names DEF GameOp
  <2>4. todo'[t] = <<"SetTo", "DoChange">> /\ \A u \in Thread \ {t} : todo'[u] = todo[u]
    <3>1. Tail(todo[t]) = <<>> /\ todo[t] # <<>>
      BY <1>2, Tuples
    <3> QED
      BY <1>0, <2>2, <2>3, <3>1, CalledLast, SoundTypes
  <2>5. StartingSearch' /\ OnlyLeftovers'
    BY <1>2, <1>a, <1>b, <2>2, <2>4 DEF StartingSearch, OnAction, OnlyLeftovers, t
  <2> QED
    BY <2>2, <2>4, <2>5, StartingKept DEF t
<1>3. CASE todo[t] = <<"SetTo", "DoChange">> /\ ~running["search"]
  <2>1. SetTo(t) /\ UNCHANGED dialogVars
    BY <1>3, <1>a, Turn, Tuples DEF At
  <2>2. /\ Return(t)
        /\ UNCHANGED <<handle, running, term, job, at, list, State, session, front, lock>>
    BY <2>1 DEF SetTo, dialogVars
  <2>3. todo'[t] = <<"DoChange">> /\ \A u \in Thread \ {t} : todo'[u] = todo[u]
    <3>1. Tail(todo[t]) = <<"DoChange">> /\ todo[t] # <<>>
      BY <1>3, Tuples
    <3> QED
      BY <1>0, <2>2, <3>1, Returned, SoundTypes
  <2>4. StartingSearch' /\ OnlyLeftovers'
    BY <1>3, <1>a, <1>b, <2>2, <2>3
       DEF StartingSearch, Changing, OnAction, OnlyLeftovers, t
  <2> QED
    BY <2>2, <2>3, <2>4, StartingKept DEF t
<1>4. CASE todo[t] = <<"UpdateInjectMethodComplete", "StartChangeComplete">>
  <2>1. UpdateInjectMethodComplete(t)
    BY <1>4, <1>a, Turn, Tuples DEF At
  <2>2. /\ Return(t) /\ RemoveHandler("onActionComplete", "UpdateInjectMethodComplete")
        /\ UNCHANGED <<handle, running, term, job, at, State, session, front>>
    BY <2>1 DEF UpdateInjectMethodComplete, moduleVars
  <2>3. todo'[t] = <<"StartChangeComplete">> /\ \A u \in Thread \ {t} : todo'[u] = todo[u]
    <3>1. Tail(todo[t]) = <<"StartChangeComplete">> /\ todo[t] # <<>>
      BY <1>4, Tuples
    <3> QED
      BY <1>0, <2>2, <3>1, Returned, SoundTypes
  <2>4. OnAction' = <<"StartChangeComplete">> /\ OnlyLeftovers'
    BY <1>a, <1>b, <2>2, ActionRemoves, RemoveTuples, SoundTypes
  <2>5. Core'
    BY <2>2, CoreFrame, SoundTypes
  <2>6. Quiet({t})' /\ \A p \in OSThread : Gone(p)' \/ Up(p)'
    BY <1>0, <1>a, <2>2, <2>3, ServedKept DEF Starting, t
  <2>7. Starting'
    BY <1>a, <2>2, <2>3, <2>4, <2>6 DEF Starting, t
  <2> QED
    BY <2>5, <2>7 DEF Placed, Somewhere
<1> QED
  BY <1>1, <1>2, <1>3, <1>4 DEF StartingSearch, t

(* StartChangeComplete ends it.                                            *)
LEMMA StartedNext ==
  ASSUME Sound, Starting, running["pipe"], todo["login"] = <<"StartChangeComplete">>,
         OnAction = <<"StartChangeComplete">>, Execute("login")
  PROVE  Placed'
<1> DEFINE t == "login"
<1>0. /\ t \in Callers /\ t \in Thread /\ t \in Caller /\ t \notin OSThread
      /\ Execute(t) /\ todo[t] = <<"StartChangeComplete">>
  BY Names DEF Callers
<1> HIDE DEF t
<1>1. StartChangeComplete(t) /\ UNCHANGED dialogVars
  BY <1>0, Turn, Tuples DEF At
<1>2. /\ Return(t) /\ RemoveHandler("onActionComplete", "StartChangeComplete")
      /\ State' = "STARTED"
      /\ UNCHANGED <<handle, running, term, job, at, session, front>>
  BY <1>1 DEF StartChangeComplete, dialogVars
<1>3. todo'[t] = <<>> /\ \A u \in Thread \ {t} : todo'[u] = todo[u]
  <2>1. Tail(todo[t]) = <<>> /\ todo[t] # <<>>
    BY <1>0, Tuples
  <2> QED
    BY <1>0, <1>2, <2>1, Returned, SoundTypes
<1>4. OnAction' = <<>> /\ OnlyLeftovers'
  BY <1>2, ActionRemoves, RemoveTuples, SoundTypes DEF Starting
<1>5. Core'
  BY <1>2, CoreFrame, SoundTypes
<1>6. \A p \in OSThread : Gone(p)' \/ Up(p)'
  BY <1>0, <1>2, <1>3, ServedKept DEF Starting
<1>7. \A u \in Caller : todo'[u] = <<>>
  BY <1>0, <1>3 DEF Starting, Quiet, Thread, t
<1>8. Ready'
  <2>1. Logged'
    BY <1>2, <1>7 DEF Starting, Logged, Quiet
  <2>2. todo'["ui"] = <<>>
    BY <1>7, Names DEF Callers
  <2> QED
    BY <1>2, <1>4, <1>6, <2>1, <2>2 DEF Starting, Ready
<1> QED
  BY <1>5, <1>8 DEF Placed, Somewhere

(* Start, until StartChangeComplete.                                       *)
LEMMA StartingNext ==
  ASSUME Sound, Starting, Next
  PROVE  Placed'
<1> DEFINE t == "login"
<1>0. t \in Callers /\ t \in Thread /\ todo[t] # <<>>
  <2>1. t \in Callers /\ t \in Thread
    BY Names DEF Callers
  <2>2. StartingPipe => todo[t] # <<>>
    BY Tuples DEF StartingPipe
  <2>3. Changing(t) => todo[t] # <<>>
    BY Tuples DEF Changing
  <2>4. StartingSearch => todo[t] # <<>>
    BY <2>3, Tuples DEF StartingSearch
  <2>5. todo[t] = <<"StartChangeComplete">> => todo[t] # <<>>
    BY Tuples
  <2> QED
    BY <2>1, <2>2, <2>4, <2>5 DEF Starting
<1>1. ASSUME NEW u \in Thread, Execute(u) PROVE u = t
  BY <1>1, Alone DEF Starting, Gone, Up
<1>2. CASE Execute(t)
  BY <1>2, StartingPipeNext, StartingSearchNext, StartedNext DEF Starting
<1>3. ASSUME NEW p \in OSThread, Operate(p) PROVE Placed'
  <2>1. Up(p)
    BY <1>3, GoneRests DEF Starting, Gone, Operate
  <2>2. /\ Up(p)' /\ Core'
        /\ UNCHANGED <<handle, running, job, list, todo, State>>
        /\ \A q \in OSThread \ {p} : at'[q] = at[q]
        /\ \A w \in Worker : term'[w] => term[w]
    BY <1>3, <2>1, UpWorks, SoundTypes DEF Operate
  <2>3. \A q \in OSThread : Gone(q)' \/ Up(q)'
    BY <2>2, OthersUp, SoundTypes DEF Starting
  <2>4. UNCHANGED <<session, front, lock>>
    BY <1>3 DEF Operate, dialogVars
  <2>5. StartingPipe => StartingPipe'
    BY <2>2 DEF StartingPipe, OnAction
  <2>6. StartingSearch => StartingSearch'
    BY <2>2 DEF StartingSearch, OnAction, Changing
  <2>7. Starting'
    BY <2>2, <2>3, <2>4, <2>5, <2>6 DEF Starting, Quiet, OnAction, OnlyLeftovers
  <2> QED
    BY <2>2, <2>7 DEF Placed, Somewhere
<1>4. ASSUME User \/ AuthStep \/ WaitClose PROVE FALSE
  <2>1. LoginFails \/ WaitClose
    BY <1>0, <1>4, Busies, Outside, SoundTypes
  <2> QED
    BY <2>1 DEF LoginFails, WaitClose, Starting
<1> QED
  BY <1>1, <1>2, <1>3, <1>4, NextCases

-----------------------------------------------------------------------------
(* Ready.                                                                  *)

(* ThreadProc leaves stop flags and lists alone.                           *)
LEMMA ProcKeeps ==
  ASSUME NEW p \in OSThread, ThreadProc(p)
  PROVE  UNCHANGED <<term, list>>
BY DEF ThreadProc, DropHandle, ClearRunning, InvokeComplete, ExitThread

(* An idle client, logged in.                                              *)
LEMMA ReadyIdle ==
  ASSUME Sound, Ready, MayAct
  PROVE  /\ \A t \in Thread : todo[t] = <<>>
         /\ \A p \in OSThread : Gone(p) \/ (Up(p) /\ (job[p] = "search" => at[p] = "loop"))
<1>1. Idle
  BY SoundTypes DEF MayAct
<1>2. ASSUME NEW p \in OSThread
      PROVE  Gone(p) \/ (Up(p) /\ (job[p] = "search" => at[p] = "loop"))
  <2>1. Resting(p)
    BY <1>1 DEF Idle
  <2>2. ~Spent(p)
    BY <2>1 DEF Resting, Spent
  <2>3. CASE Up(p) /\ job[p] = "search"
    <3>1. at[p] \notin {"listen", "serve"}
      BY <2>3, SoundTypes DEF Core, Known
    <3> QED
      BY <2>1, <2>3, <3>1 DEF Resting, Up
  <2> QED
    BY <2>2, <2>3 DEF Ready
<1> QED
  BY <1>1, <1>2 DEF Idle

(* A click, a logout or a disconnection ends the stage.                    *)
LEMMA ReadyUser ==
  ASSUME Sound, Ready, User \/ AuthStep \/ WaitClose
  PROVE  Placed'
<1>1. ASSUME NEW m \in Method, UpdateInjectMethod(m) PROVE Placed'
  <2> DEFINE t == "ui"
  <2>0. t \in Callers /\ t \in Thread
    BY Names DEF Callers
  <2>1. MayAct /\ ~lock /\ session = "in"
    BY <1>1 DEF UpdateInjectMethod, Clickable, Ready
  <2>2. /\ \A p \in OSThread : Gone(p) \/ (Up(p) /\ (job[p] = "search" => at[p] = "loop"))
    BY <2>1, ReadyIdle
  <2>3. /\ lock' = TRUE /\ AddHandler("onActionComplete", "UpdateInjectMethodComplete")
        /\ todo' = [todo EXCEPT ![t] = <<"Change">>]
        /\ UNCHANGED <<handle, running, term, job, at, State, session, front>>
    BY <1>1 DEF UpdateInjectMethod
  <2>4. todo'[t] = <<"Change">> /\ \A u \in Thread \ {t} : todo'[u] = todo[u]
    BY <2>0, <2>3, SoundTypes DEF Agendas
  <2> HIDE DEF t
  <2>5. Core'
    BY <2>3, CoreFrame, SoundTypes
  <2>6. OnAction' = <<"UpdateInjectMethodComplete">> /\ OnlyLeftovers'
    BY <2>3, ActionAdds, AppendTuples, SoundTypes DEF Ready
  <2>7. Quiet({t})' /\ \A p \in OSThread : /\ Gone(p) => Gone(p)'
                                           /\ Up(p) => Up(p)'
    BY <2>0, <2>3, <2>4, ServedKept DEF Ready, Logged, t
  <2>8. Locked'
    BY <2>1, <2>3, <2>6, <2>7 DEF Ready, Logged, Locked, OnlyLeftovers, t
  <2>9. ChangeAsked'
    BY <2>2, <2>3, <2>4, <2>6, <2>7, <2>8 DEF ChangeAsked, t
  <2> QED
    BY <2>5, <2>9 DEF Placed, Somewhere
<1>2. ASSUME NEW e \in {"LOGOUT", "EXIT"}, Leaving(e) PROVE Placed'
  <2>1. /\ lock' = TRUE /\ session' \in {"in", "leaving"}
        /\ UNCHANGED <<handle, running, term, job, at, list, todo, State, front>>
    BY <1>2 DEF Leaving, Ready, gameVars, workerVars, moduleVars
  <2>2. Core'
    BY <2>1, CoreFrame, SoundTypes
  <2>3. Ready'
    BY <2>1 DEF Ready, Logged, Quiet, Gone, Up, Spent, OnAction, OnlyLeftovers
  <2> QED
    BY <2>2, <2>3 DEF Placed, Somewhere
<1>3. ASSUME NEW t \in Auths, MayAct, session' = "out",
             todo' = [todo EXCEPT ![t] = IF t = "logout" THEN <<"OnLogoutComplete">>
                                                       ELSE <<"OnDisconnect">>],
             t = "logout" => lock,
             UNCHANGED <<handle, running, term, job, at, list, State, front, lock>>
      PROVE  Placed'
  <2>0. t \in Callers /\ t \in Thread
    BY Names DEF Callers
  <2>1. /\ \A u \in Thread : todo[u] = <<>>
        /\ \A p \in OSThread : Gone(p) \/ Up(p)
    BY <1>3, ReadyIdle
  <2>2. /\ todo'[t] = IF t = "logout" THEN <<"OnLogoutComplete">> ELSE <<"OnDisconnect">>
        /\ \A u \in Thread \ {t} : todo'[u] = todo[u]
    BY <1>3, <2>0, SoundTypes DEF Agendas
  <2>3. Core'
    BY <1>3, CoreFrame, SoundTypes
  <2>4. Quiet({t})'
    BY <2>1, <2>2 DEF Quiet, Thread
  <2>5. \A p \in OSThread : Gone(p)' \/ Up(p)'
    BY <1>3, <2>0, <2>1, <2>2, ServedKept
  <2>6. StopCalled(t)'
    BY <1>3, <2>2, <2>4, <2>5 DEF Ready, Logged, StopCalled, OnAction, OnlyLeftovers
  <2> QED
    BY <2>3, <2>6 DEF Placed, Somewhere
<1>4. CASE LogoutDone
  <2> DEFINE t == "logout"
  <2>1. /\ MayAct /\ session' = "out" /\ lock
        /\ todo' = [todo EXCEPT ![t] = <<"OnLogoutComplete">>]
        /\ UNCHANGED <<handle, running, term, job, at, list, State, front, lock>>
    BY <1>4 DEF LogoutDone, Ready, moduleVars
  <2>2. t \in Auths /\ t = "logout"
    BY DEF Auths
  <2> HIDE DEF t
  <2>3. todo' = [todo EXCEPT ![t] = IF t = "logout" THEN <<"OnLogoutComplete">>
                                                    ELSE <<"OnDisconnect">>]
    BY <2>1, <2>2
  <2> QED
    BY <1>3, <2>1, <2>2, <2>3
<1>5. CASE Disconnected
  <2> DEFINE t == "alive"
  <2>1. /\ MayAct /\ session' = "out"
        /\ todo' = [todo EXCEPT ![t] = <<"OnDisconnect">>]
        /\ UNCHANGED <<handle, running, term, job, at, list, State, front, lock>>
    BY <1>5 DEF Disconnected, moduleVars
  <2>2. t \in Auths /\ t # "logout"
    BY DEF Auths
  <2> HIDE DEF t
  <2>3. todo' = [todo EXCEPT ![t] = IF t = "logout" THEN <<"OnLogoutComplete">>
                                                    ELSE <<"OnDisconnect">>]
    BY <2>1, <2>2
  <2> QED
    BY <1>3, <2>1, <2>2, <2>3
<1>6. ~Login /\ ~CloseLogin /\ ~LoginSucceeds /\ ~LoginFails /\ ~WaitClose
  BY DEF Ready, Logged, Login, CloseLogin, LoginSucceeds, LoginFails, WaitClose
<1> QED
  BY <1>1, <1>2, <1>4, <1>5, <1>6 DEF User, AuthStep

(* Logged in and between two operations.                                   *)
LEMMA ReadyNext ==
  ASSUME Sound, Ready, Next
  PROVE  Placed'
<1>1. ASSUME NEW u \in Thread, Execute(u) PROVE Placed'
  <2> DEFINE t == "ui"
  <2>0. t \in Callers /\ t \in Thread
    BY Names DEF Callers
  <2>1. u = t
    BY <1>1, Alone DEF Ready, Logged, Gone, Up, Spent
  <2>2. todo[t] = <<"SetTo">>
    BY <1>1, <2>1, Turn DEF Ready
  <2> HIDE DEF t
  <2>3. SetTo(t) /\ UNCHANGED dialogVars
    BY <1>1, <2>1, <2>2, Turn, Tuples DEF At
  <2>4. /\ Return(t)
        /\ UNCHANGED <<handle, running, term, job, at, list, State, session, front, lock>>
    BY <2>3 DEF SetTo, dialogVars
  <2>5. todo'[t] = <<>> /\ \A v \in Thread \ {t} : todo'[v] = todo[v]
    <3>1. Tail(todo[t]) = <<>> /\ todo[t] # <<>>
      BY <2>2, Tuples
    <3> QED
      BY <2>0, <2>4, <3>1, Returned, SoundTypes
  <2>6. Core'
    BY <2>4, CoreFrame, SoundTypes
  <2>7. Quiet({t})' /\ \A p \in OSThread : Gone(p)' \/ Up(p)' \/ Spent(p)'
    BY <2>0, <2>4, <2>5, ServedKept DEF Ready, Logged, t
  <2>8. Ready'
    BY <2>4, <2>5, <2>7 DEF Ready, Logged, OnAction, OnlyLeftovers, t
  <2> QED
    BY <2>6, <2>8 DEF Placed, Somewhere
<1>2. ASSUME NEW p \in OSThread, Operate(p) PROVE Placed'
  <2>1. UNCHANGED <<session, front, lock>> /\ (WorkStep(p) \/ GameAct(p))
    BY <1>2 DEF Operate, dialogVars
  <2>2. CASE Up(p)
    <3>1. /\ Up(p)' /\ Core'
          /\ UNCHANGED <<handle, running, job, list, todo, State>>
          /\ \A q \in OSThread \ {p} : at'[q] = at[q]
          /\ \A w \in Worker : term'[w] => term[w]
      BY <2>1, <2>2, UpWorks, SoundTypes
    <3>2. \A q \in OSThread : Gone(q)' \/ Up(q)' \/ Spent(q)'
      BY <3>1, OthersUp, SoundTypes DEF Ready
    <3>3. Ready'
      BY <2>1, <3>1, <3>2 DEF Ready, Logged, Quiet, OnAction, OnlyLeftovers
    <3> QED
      BY <3>1, <3>3 DEF Placed, Somewhere
  <2>3. CASE Spent(p)
    <3>1. at[p] \notin Serving /\ at[p] = "callbacks"
      BY <2>3 DEF Spent, Serving
    <3>2. ThreadProc(p) /\ State' = State
      BY <2>1, <3>1, OnlyProc DEF moduleVars
    <3>3. /\ Core' /\ at'[p] = "free" /\ running' = running
          /\ \A q \in OSThread \ {p} : at'[q] = at[q] /\ job'[q] = job[q]
          /\ UNCHANGED <<term, list>>
      BY <3>1, <3>2, CoreProc, ProcKeeps, SoundTypes
    <3>4. todo' = todo
      BY <3>1, <3>2 DEF ThreadProc, DropHandle, ClearRunning, InvokeComplete, ExitThread
    <3>5. Gone(p)'
      BY <2>3, <3>3, <3>4 DEF Spent, Gone
    <3>6. \A q \in OSThread : Gone(q)' \/ Up(q)' \/ Spent(q)'
      BY <3>3, <3>4, <3>5, OthersUp, SoundTypes DEF Ready
    <3>7. Ready'
      BY <2>1, <3>2, <3>3, <3>4, <3>6 DEF Ready, Logged, Quiet, OnAction, OnlyLeftovers
    <3> QED
      BY <3>3, <3>7 DEF Placed, Somewhere
  <2> QED
    BY <2>1, <2>2, <2>3, GoneRests DEF Ready, Gone
<1> QED
  BY <1>1, <1>2, ReadyUser, NextCases

-----------------------------------------------------------------------------
(* A change.                                                               *)

(* Change tells the search thread to end.                                  *)
LEMMA ChangeWaitNext ==
  ASSUME Sound, ChangeAsked, Execute("ui"), todo["ui"] = <<"ChangeWait", "SetTo">>,
         running["search"]
  PROVE  Placed'
<1> DEFINE t == "ui"
<1>0. t \in Callers /\ t \in Thread /\ t \notin OSThread
  BY Names DEF Callers
<1>a. Execute(t) /\ todo[t] = <<"ChangeWait", "SetTo">>
  OBVIOUS
<1> HIDE DEF t
<1>1. ChangeWait(t) /\ UNCHANGED dialogVars
  BY <1>a, Turn, Tuples DEF At
<1>2. /\ Return(t) /\ AddHandler("search", "onThreadEndForCleanup")
      /\ term' = [term EXCEPT !["search"] = TRUE]
      /\ UNCHANGED <<handle, running, job, at, State, session, front, lock>>
  BY <1>1 DEF ChangeWait, moduleVars, dialogVars
<1>3. todo'[t] = <<"SetTo">> /\ \A u \in Thread \ {t} : todo'[u] = todo[u]
  <2>1. Tail(todo[t]) = <<"SetTo">> /\ todo[t] # <<>>
    BY <1>a, Tuples
  <2> QED
    BY <1>0, <1>2, <2>1, Returned, SoundTypes
<1>4. Core'
  BY <1>2, CoreFrame, SoundTypes
<1>5. PICK s \in OSThread : Busy(s) /\ job[s] = "search"
  BY Names, SoundTypes DEF Backed, ThreadBacked, Busy
<1>6. at[s] = "loop" /\ todo[s] = <<>>
  BY <1>5 DEF ChangeAsked, Gone, Up, Busy, InWork
<1>7. ASSUME NEW p \in OSThread, p # s PROVE (Gone(p) \/ Up(p))'
  <2>1. todo'[p] = todo[p]
    BY <1>0, <1>3, Names
  <2>2. CASE Gone(p)
    BY <1>2, <2>1, <2>2 DEF Gone
  <2>3. CASE Up(p)
    <3>1. Busy(p)
      BY <2>3 DEF Up, Busy, InWork
    <3>2. job[p] # "search" /\ job[p] \in Worker
      BY <1>5, <1>7, <3>1, SoundTypes DEF Core, OneThread
    <3>3. term'[job[p]] = term[job[p]]
      BY <1>2, <3>2, SoundTypes
    <3> QED
      BY <1>2, <2>1, <2>3, <3>3 DEF Up
  <2> QED
    BY <2>2, <2>3 DEF ChangeAsked
<1>8. /\ list'["search"] = Append(list["search"], "onThreadEndForCleanup")
      /\ list'["pipe"] = list["pipe"] /\ OnAction' = OnAction
  BY <1>2, Names, SoundTypes DEF AddHandler, Lists, OnAction
<1>9. Told(s)'
  <2>1. term'["search"] /\ todo'[s] = <<>>
    BY <1>0, <1>2, <1>3, <1>6, Names, SoundTypes
  <2>2. ToChange(list'["search"])
    BY <1>8, Leftovers DEF ChangeAsked, OnlyLeftovers
  <2> QED
    BY <1>2, <1>6, <2>1, <2>2 DEF Told
<1>10. Locked'
  <2>1. Quiet({t})'
    BY <1>3 DEF ChangeAsked, Locked, Logged, Quiet, Thread, t
  <2> QED
    BY <1>2, <1>8, <2>1 DEF ChangeAsked, Locked, Logged, t
<1>11. ChangeWaiting'
  BY <1>2, <1>3, <1>5, <1>7, <1>9, <1>10 DEF ChangeWaiting, t
<1> QED
  BY <1>4, <1>11 DEF Placed, Somewhere

(* Change, up to the stop signal or to DoChange.                           *)
LEMMA ChangeAskedNext ==
  ASSUME Sound, ChangeAsked, Next
  PROVE  Placed'
<1> DEFINE t == "ui"
<1>0. t \in Callers /\ t \in Thread /\ t \notin OSThread /\ todo[t] # <<>>
  BY Names, Tuples DEF Callers, ChangeAsked
<1>1. ASSUME NEW u \in Thread, Execute(u) PROVE u = t
  BY <1>1, Alone DEF ChangeAsked, Locked, Logged, Gone, Up
<1>2. CASE Execute(t) /\ todo[t] = <<"Change">>
  <2> HIDE DEF t
  <2>1. Change(t) /\ UNCHANGED dialogVars
    BY <1>2, Turn, Tuples DEF At
  <2>2. /\ Call(t, IF running["search"] THEN <<"ChangeWait", "SetTo">>
                                        ELSE <<"SetTo", "DoChange">>)
        /\ UNCHANGED <<handle, running, term, job, at, list, State, session, front, lock>>
    BY <2>1 DEF Change, dialogVars
  <2>3. <<"ChangeWait", "SetTo">> \in Seq(Op) /\ <<"SetTo", "DoChange">> \in Seq(Op)
    BY Names DEF GameOp
  <2>4. /\ todo'[t] = IF running["search"] THEN <<"ChangeWait", "SetTo">>
                                           ELSE <<"SetTo", "DoChange">>
        /\ \A u \in Thread \ {t} : todo'[u] = todo[u]
    <3>1. Tail(todo[t]) = <<>>
      BY <1>2, Tuples
    <3> QED
      BY <1>0, <2>2, <2>3, <3>1, CalledLast, SoundTypes
  <2>5. Core'
    BY <2>2, CoreFrame, SoundTypes
  <2>6. Quiet({t})' /\ \A p \in OSThread : /\ Gone(p) => Gone(p)'
                                           /\ Up(p) => Up(p)'
    BY <1>0, <2>2, <2>4, ServedKept DEF ChangeAsked, Locked, Logged, t
  <2>7. Locked' /\ OnlyLeftovers'
    BY <2>2, <2>6 DEF ChangeAsked, Locked, Logged, OnAction, OnlyLeftovers, t
  <2>8. ChangeAsked'
    BY <2>2, <2>4, <2>6, <2>7 DEF ChangeAsked, t
  <2> QED
    BY <2>5, <2>8 DEF Placed, Somewhere
<1>3. CASE Execute(t) /\ todo[t] = <<"ChangeWait", "SetTo">> /\ running["search"]
  BY <1>3, ChangeWaitNext
<1>4. CASE Execute(t) /\ todo[t] = <<"SetTo", "DoChange">> /\ ~running["search"]
  <2> HIDE DEF t
  <2>1. SetTo(t) /\ UNCHANGED dialogVars
    BY <1>4, Turn, Tuples DEF At
  <2>2. /\ Return(t)
        /\ UNCHANGED <<handle, running, term, job, at, list, State, session, front, lock>>
    BY <2>1 DEF SetTo, dialogVars
  <2>3. todo'[t] = <<"DoChange">> /\ \A u \in Thread \ {t} : todo'[u] = todo[u]
    <3>1. Tail(todo[t]) = <<"DoChange">>
      BY <1>4, Tuples
    <3> QED
      BY <1>0, <2>2, <3>1, Returned, SoundTypes
  <2>4. Core'
    BY <2>2, CoreFrame, SoundTypes
  <2>5. Quiet({t})' /\ \A p \in OSThread : Gone(p)' \/ Up(p)'
    BY <1>0, <2>2, <2>3, ServedKept DEF ChangeAsked, Locked, Logged, t
  <2>6. Locked' /\ OnlyLeftovers'
    BY <2>2, <2>5 DEF ChangeAsked, Locked, Logged, OnAction, OnlyLeftovers, t
  <2>7. Changing(t)'
    BY <1>4, <2>2, <2>3 DEF Changing
  <2>8. Changed(t)'
    BY <2>5, <2>6, <2>7 DEF Changed, t
  <2> QED
    BY <1>0, <2>4, <2>8 DEF Placed, Somewhere
<1>5. ASSUME NEW p \in OSThread, Operate(p) PROVE Placed'
  <2>1. UNCHANGED <<session, front, lock>> /\ (WorkStep(p) \/ GameAct(p))
    BY <1>5 DEF Operate, dialogVars
  <2>2. Up(p) /\ (job[p] = "search" => at[p] = "loop")
    BY <2>1, GoneRests DEF ChangeAsked, Gone
  <2>3. /\ Up(p)' /\ Core'
        /\ UNCHANGED <<handle, running, job, list, todo, State>>
        /\ \A q \in OSThread \ {p} : at'[q] = at[q]
        /\ job[p] = "search" => at[p] = "work"
        /\ \A w \in Worker : term'[w] => term[w]
    BY <2>1, <2>2, UpWorks, SoundTypes
  <2>4. job'[p] # "search"
    BY <2>2, <2>3
  <2>5. \A q \in OSThread :
          Gone(q)' \/ (Up(q)' /\ (job'[q] = "search" => at'[q] = "loop"))
    BY <2>3, <2>4, OthersUp, SoundTypes DEF ChangeAsked
  <2>6. Locked' /\ OnlyLeftovers'
    BY <2>1, <2>3 DEF ChangeAsked, Locked, Logged, Quiet, OnAction, OnlyLeftovers
  <2>7. ChangeAsked'
    BY <2>3, <2>5, <2>6 DEF ChangeAsked
  <2> QED
    BY <2>3, <2>7 DEF Placed, Somewhere
<1>6. ASSUME User \/ AuthStep \/ WaitClose PROVE FALSE
  <2>1. LoginFails \/ WaitClose
    BY <1>0, <1>6, Busies, Outside, SoundTypes
  <2> QED
    BY <2>1 DEF LoginFails, WaitClose, ChangeAsked, Locked, Logged
<1>7. Execute(t) => Placed'
  BY <1>2, <1>3, <1>4 DEF ChangeAsked
<1> QED
  BY <1>1, <1>5, <1>6, <1>7, NextCases

-----------------------------------------------------------------------------
(* DoChange and the completion handler, on the caller or the old search    *)
(* thread.                                                                 *)
LEMMA ChangedNext ==
  ASSUME Sound, NEW t \in Thread, Changed(t), Next
  PROVE  Placed'
<1> DEFINE ui == "ui"
<1>0. /\ ui \in Callers /\ ui \in Thread /\ ui \notin OSThread /\ todo[t] # <<>>
      /\ t = ui \/ t \in OSThread
      /\ t \in OSThread => at[t] = "callbacks"
      /\ \A p \in OSThread \ {t} : Gone(p) \/ Up(p)
  <2>1. ui \in Callers /\ ui \in Thread /\ ui \notin OSThread
    BY Names DEF Callers
  <2>2. todo[t] # <<>>
    BY Tuples DEF Changed, Changing
  <2> QED
    BY <2>1, <2>2 DEF Changed
<1>a. /\ Locked /\ OnlyLeftovers
      /\ t # ui => todo[ui] \in {<<>>, <<"SetTo">>}
      /\ OnAction = <<"UpdateInjectMethodComplete">>
  BY Names DEF Callers, Changed, Locked
<1>b. t = ui \/ (t \in OSThread /\ at[t] = "callbacks" /\ job[t] = "search")
  BY DEF Changed
<1> HIDE DEF ui
<1>1. ASSUME NEW u \in Thread, Execute(u) PROVE u = t \/ u = ui
  <2>1. todo[u] # <<>>
    BY <1>1, Turn
  <2> QED
    BY <1>0, <1>a, <2>1 DEF Locked, Logged, Quiet, Gone, Up, Thread, ui
<1>2. CASE Execute(t) /\ Changing(t)
  <2>1. /\ Core' /\ running'["pipe"] = running["pipe"]
        /\ UNCHANGED <<list, State, front, lock, session>>
        /\ \A u \in Thread \ {t} : todo'[u] = todo[u]
        /\ \A p \in OSThread \ {t} : (Gone(p) \/ Up(p))'
        /\ t \in OSThread => at'[t] = at[t] /\ job'[t] = job[t]
        /\ Changing(t)' \/ todo'[t] = OnAction
    BY <1>0, <1>2, ChangingNext
  <2>2. Quiet({ui})'
    BY <1>0, <1>a, <2>1, Names, ThreadAssumption DEF Locked, Logged, Quiet, Thread, ui
  <2>3. Locked' /\ OnlyLeftovers'
    BY <1>a, <2>1, <2>2 DEF Locked, Logged, OnAction, OnlyLeftovers, ui
  <2>4. t # ui => todo'[ui] \in {<<>>, <<"SetTo">>}
    BY <1>0, <1>a, <2>1
  <2>5. Changing(t)' \/ todo'[t] = <<"UpdateInjectMethodComplete">>
    BY <1>a, <2>1
  <2>6. t = ui => \A p \in OSThread : Gone(p)' \/ Up(p)'
    BY <1>0, <2>1
  <2>7. Changed(t)'
    BY <1>0, <1>b, <2>1, <2>3, <2>4, <2>5, <2>6 DEF Changed, ui
  <2> QED
    BY <2>1, <2>7 DEF Placed, Somewhere
<1>3. CASE Execute(t) /\ todo[t] = <<"UpdateInjectMethodComplete">>
  <2>1. UpdateInjectMethodComplete(t)
    BY <1>3, Turn, Tuples DEF At
  <2>2. /\ Return(t) /\ RemoveHandler("onActionComplete", "UpdateInjectMethodComplete")
        /\ UNCHANGED <<handle, running, term, job, at, State, session, front>>
    BY <2>1 DEF UpdateInjectMethodComplete, moduleVars
  <2>3. todo'[t] = <<>> /\ \A u \in Thread \ {t} : todo'[u] = todo[u]
    <3>1. Tail(todo[t]) = <<>>
      BY <1>3, Tuples
    <3> QED
      BY <1>0, <2>2, <3>1, Returned, SoundTypes
  <2>4. OnAction' = <<>> /\ OnlyLeftovers'
    BY <1>a, <2>2, ActionRemoves, RemoveTuples, SoundTypes
  <2>5. Core'
    BY <2>2, CoreFrame, SoundTypes
  <2>6. Quiet({ui})'
    BY <1>0, <1>a, <2>3, Names, ThreadAssumption DEF Locked, Logged, Quiet, Thread, ui
  <2>7. \A p \in OSThread : Gone(p)' \/ Up(p)' \/ Spent(p)'
    <3> SUFFICES ASSUME NEW p \in OSThread PROVE Gone(p)' \/ Up(p)' \/ Spent(p)'
      OBVIOUS
    <3>1. CASE p = t
      BY <1>0, <2>2, <2>3, <3>1 DEF Spent
    <3>2. CASE p # t
      <4>1. todo'[p] = todo[p]
        BY <2>3, <3>2, Names
      <4> QED
        BY <1>0, <2>2, <3>2, <4>1 DEF Gone, Up
    <3> QED
      BY <3>1, <3>2
  <2>8. todo'[ui] \in {<<>>, <<"SetTo">>}
    BY <1>0, <1>a, <2>3
  <2>9. Logged' /\ session' = "in"
    BY <1>a, <2>2, <2>6 DEF Locked, Logged, ui
  <2>10. Ready'
    BY <2>4, <2>7, <2>8, <2>9 DEF Ready, ui
  <2> QED
    BY <2>5, <2>10 DEF Placed, Somewhere
<1>4. CASE Execute(ui) /\ t # ui
  <2>1. todo[ui] = <<"SetTo">>
    BY <1>0, <1>4, <1>a, Turn
  <2>2. SetTo(ui) /\ UNCHANGED dialogVars
    BY <1>4, <2>1, Turn, Tuples DEF At
  <2>3. /\ Return(ui)
        /\ UNCHANGED <<handle, running, term, job, at, list, State, session, front, lock>>
    BY <2>2 DEF SetTo, dialogVars
  <2>4. todo'[ui] = <<>> /\ \A u \in Thread \ {ui} : todo'[u] = todo[u]
    <3>1. Tail(todo[ui]) = <<>> /\ todo[ui] # <<>>
      BY <2>1, Tuples
    <3> QED
      BY <1>0, <2>3, <3>1, Returned, SoundTypes
  <2>5. Core'
    BY <2>3, CoreFrame, SoundTypes
  <2>6. Quiet({ui})' /\ \A p \in OSThread \ {t} : Gone(p)' \/ Up(p)'
    BY <1>0, <1>a, <2>3, <2>4, ServedKept DEF Locked, Logged, ui
  <2>7. Locked' /\ OnlyLeftovers'
    BY <1>a, <2>3, <2>6 DEF Locked, Logged, OnAction, OnlyLeftovers, ui
  <2>8. Changing(t)' \/ todo'[t] = <<"UpdateInjectMethodComplete">>
    BY <1>4, <2>3, <2>4 DEF Changed, Changing
  <2>9. Changed(t)'
    BY <1>4, <1>b, <2>3, <2>4, <2>6, <2>7, <2>8 DEF Changed, ui
  <2> QED
    BY <2>5, <2>9 DEF Placed, Somewhere
<1>5. ASSUME NEW p \in OSThread, Operate(p) PROVE Placed'
  <2>1. UNCHANGED <<session, front, lock>> /\ (WorkStep(p) \/ GameAct(p))
    BY <1>5 DEF Operate, dialogVars
  <2>2. p # t
    <3> SUFFICES ASSUME p = t PROVE FALSE
      OBVIOUS
    <3>1. at[p] = "callbacks"
      BY <1>0
    <3>2. at[p] \notin Serving
      BY <3>1 DEF Serving
    <3>3. ThreadProc(p)
      BY <2>1, <3>2, OnlyProc
    <3> QED
      BY <1>0, <3>1, <3>3
         DEF ThreadProc, DropHandle, ClearRunning, InvokeComplete, ExitThread
  <2>3. Up(p)
    BY <1>0, <2>1, <2>2, GoneRests DEF Gone
  <2>4. /\ Up(p)' /\ Core'
        /\ UNCHANGED <<handle, running, job, list, todo, State>>
        /\ \A q \in OSThread \ {p} : at'[q] = at[q]
        /\ \A w \in Worker : term'[w] => term[w]
    BY <2>1, <2>3, UpWorks, SoundTypes
  <2>5. \A q \in OSThread \ {t} : Gone(q)' \/ Up(q)'
    BY <1>0, <2>4, OthersUp, SoundTypes
  <2>6. Locked' /\ OnlyLeftovers'
    BY <1>a, <2>1, <2>4 DEF Locked, Logged, Quiet, OnAction, OnlyLeftovers
  <2>7. Changing(t)' \/ todo'[t] = <<"UpdateInjectMethodComplete">>
    BY <2>4 DEF Changed, Changing
  <2>8. t \in OSThread => at'[t] = at[t] /\ job'[t] = job[t]
    BY <2>2, <2>4
  <2>9. t = ui => \A q \in OSThread : Gone(q)' \/ Up(q)'
    BY <1>0, <2>5
  <2>10. t # ui => todo'[ui] \in {<<>>, <<"SetTo">>}
    BY <1>a, <2>4
  <2>11. Changed(t)'
    BY <1>b, <2>5, <2>6, <2>7, <2>8, <2>9, <2>10 DEF Changed, ui
  <2> QED
    BY <2>4, <2>11 DEF Placed, Somewhere
<1>6. ASSUME User \/ AuthStep \/ WaitClose PROVE FALSE
  <2>1. LoginFails \/ WaitClose
    BY <1>0, <1>6, Busies, Outside, SoundTypes
  <2> QED
    BY <1>a, <2>1 DEF LoginFails, WaitClose, Locked, Logged
<1>7. Execute(t) => Placed'
  BY <1>2, <1>3 DEF Changed
<1> QED
  BY <1>1, <1>4, <1>5, <1>6, <1>7, NextCases

-----------------------------------------------------------------------------
(* The search thread ends for a change.                                    *)

(* What the stage says of s, the search thread.                            *)
Waits(s) ==
  /\ Locked /\ todo["ui"] \in {<<>>, <<"SetTo">>}
  /\ job[s] = "search"
  /\ \A p \in OSThread \ {s} : Gone(p) \/ Up(p)
  /\ Told(s) \/ Cleaning(s)

(* The stage goes on.                                                      *)
LEMMA WaitsPlaced ==
  ASSUME NEW s \in OSThread, Core', Waits(s)'
  PROVE  Placed'
<1>1. ChangeWaiting'
  BY DEF Waits, ChangeWaiting
<1> QED
  BY <1>1 DEF Placed, Somewhere

(* The caller returns from Change.                                         *)
LEMMA WaitsSetTo ==
  ASSUME Sound, NEW s \in OSThread, Waits(s), Execute("ui")
  PROVE  Placed'
<1> DEFINE t == "ui"
<1>0. t \in Callers /\ t \in Thread /\ t \notin OSThread /\ Execute(t)
  BY Names DEF Callers
<1>1. todo[t] = <<"SetTo">>
  BY <1>0, Turn DEF Waits
<1> HIDE DEF t
<1>2. SetTo(t) /\ UNCHANGED dialogVars
  BY <1>0, <1>1, Turn, Tuples DEF At
<1>3. /\ Return(t)
      /\ UNCHANGED <<handle, running, term, job, at, list, State, session, front, lock>>
  BY <1>2 DEF SetTo, dialogVars
<1>4. todo'[t] = <<>> /\ \A u \in Thread \ {t} : todo'[u] = todo[u]
  <2>1. Tail(todo[t]) = <<>> /\ todo[t] # <<>>
    BY <1>1, Tuples
  <2> QED
    BY <1>0, <1>3, <2>1, Returned, SoundTypes
<1>5. Core'
  BY <1>3, CoreFrame, SoundTypes
<1>6. Quiet({t})' /\ \A p \in OSThread \ {s} : Gone(p)' \/ Up(p)'
  BY <1>0, <1>3, <1>4, ServedKept DEF Waits, Locked, Logged, t
<1>7. Locked'
  BY <1>3, <1>6 DEF Waits, Locked, Logged, OnAction, t
<1>8. todo'[s] = todo[s]
  BY <1>0, <1>4, Names
<1>9. Told(s)' \/ Cleaning(s)'
  BY <1>3, <1>8 DEF Waits, Told, Cleaning, At
<1>10. Waits(s)'
  BY <1>3, <1>4, <1>6, <1>7, <1>9 DEF Waits, t
<1> QED
  BY <1>5, <1>10, WaitsPlaced

(* The search thread's handlers.                                           *)
LEMMA WaitsHandles ==
  ASSUME Sound, NEW s \in OSThread, Waits(s), Execute(s)
  PROVE  Placed'
<1>0. s \in Thread /\ todo[s] # <<>> /\ job[s] = "search"
  BY Names, Turn DEF Waits
<1>1. Cleaning(s)
  BY <1>0 DEF Waits, Told
<1>a. /\ Locked /\ list["pipe"] \in Seq(Leftover) /\ running["pipe"] /\ ~running["search"]
      /\ OnAction = <<"UpdateInjectMethodComplete">> /\ at[s] = "callbacks"
  BY <1>1 DEF Waits, Locked, Logged, Cleaning
<1>b. "ui" \in Thread /\ "ui" # s /\ "ui" \in Callers
  BY Names DEF Callers
(* A step of s that may remove onThreadEndForCleanup from the list.        *)
<1>2. ASSUME \A u \in Thread \ {s} : todo'[u] = todo[u],
             UNCHANGED <<handle, running, term, job, at, State, session, front, lock>>,
             OnAction' = OnAction, list'["pipe"] = list["pipe"]
      PROVE  /\ Core' /\ Locked' /\ todo'["ui"] \in {<<>>, <<"SetTo">>}
             /\ \A p \in OSThread \ {s} : Gone(p)' \/ Up(p)'
  <2>1. Core'
    BY <1>2, CoreFrame, SoundTypes
  <2>2. Quiet({"ui"})'
    BY <1>2, <1>a, ThreadAssumption DEF Locked, Logged, Quiet, Thread
  <2>3. Locked'
    BY <1>2, <1>a, <2>2 DEF Locked, Logged
  <2>4. todo'["ui"] \in {<<>>, <<"SetTo">>}
    BY <1>2, <1>b DEF Waits
  <2>5. \A p \in OSThread \ {s} : todo'[p] = todo[p]
    BY <1>2, Names
  <2>6. \A p \in OSThread \ {s} : Gone(p)' \/ Up(p)'
    BY <1>2, <2>5 DEF Waits, Gone, Up
  <2> QED
    BY <2>1, <2>3, <2>4, <2>6
(* The removal leaves only leftovers.                                      *)
<1>3. ASSUME RemoveHandler("search", "onThreadEndForCleanup")
      PROVE  /\ list'["search"] \in Seq(Leftover)
             /\ OnAction' = OnAction /\ list'["pipe"] = list["pipe"]
  <2>1. /\ list'["search"] = RemoveFirst(list["search"], "onThreadEndForCleanup")
        /\ OnAction' = OnAction /\ list'["pipe"] = list["pipe"]
    BY <1>3, Names, SoundTypes DEF RemoveHandler, Lists, OnAction
  <2> QED
    BY <1>1, <2>1, Leftovers, ToChanges DEF Cleaning
<1>4. CASE At(s, "onThreadEndForCleanup") /\ ToChange(todo[s])
  <2>1. onThreadEndForCleanup(s) /\ UNCHANGED dialogVars
    BY <1>4, Turn
  <2>2. /\ Call(s, <<"DoChange">>) /\ RemoveHandler("search", "onThreadEndForCleanup")
        /\ UNCHANGED <<handle, running, term, job, at, State, session, front, lock>>
    BY <1>0, <1>a, <2>1 DEF onThreadEndForCleanup, moduleVars, dialogVars
  <2>3. Tail(todo[s]) = <<>>
    BY <1>4, ToChanges DEF At
  <2>4. todo'[s] = <<"DoChange">> /\ \A u \in Thread \ {s} : todo'[u] = todo[u]
    BY <1>0, <2>2, <2>3, CalledLast, ShortCalls, SoundTypes
  <2>5. /\ list'["search"] \in Seq(Leftover)
        /\ OnAction' = OnAction /\ list'["pipe"] = list["pipe"]
    BY <1>3, <2>2
  <2>6. /\ Core' /\ Locked' /\ todo'["ui"] \in {<<>>, <<"SetTo">>}
        /\ \A p \in OSThread \ {s} : Gone(p)' \/ Up(p)'
    BY <1>2, <2>2, <2>4, <2>5
  <2>7. Changing(s)'
    BY <1>a, <2>2, <2>4 DEF Changing
  <2>8. Changed(s)'
    BY <1>0, <1>a, <2>2, <2>5, <2>6, <2>7 DEF Changed, OnlyLeftovers
  <2> QED
    BY <1>0, <2>6, <2>8 DEF Placed, Somewhere
<1>5. CASE At(s, "onThreadEndForModuleCleanup") /\ ToChange(todo[s])
  <2>1. onThreadEndForModuleCleanup(s) /\ UNCHANGED dialogVars
    BY <1>5, Turn
  <2>2. /\ Call(s, <<"ModuleCleanupPipe">>) /\ RemoveHandler("search", "onThreadEndForCleanup")
        /\ UNCHANGED <<handle, running, term, job, at, State, session, front, lock>>
    BY <1>0, <1>a, <2>1 DEF onThreadEndForModuleCleanup, moduleVars, dialogVars
  <2>3. ToChange(Tail(todo[s]))
    BY <1>5, ToChanges DEF At
  <2>4. /\ todo'[s] = <<"ModuleCleanupPipe">> \o Tail(todo[s])
        /\ \A u \in Thread \ {s} : todo'[u] = todo[u]
    BY <1>0, <2>2, Called, SoundTypes
  <2>5. At(s, "ModuleCleanupPipe")' /\ Tail(todo'[s]) = Tail(todo[s])
    <3>1. Tail(todo[s]) \in Seq(Leftover \cup {"onThreadEndForCleanup"})
      BY <2>3, ToChanges
    <3> QED
      BY <2>4, <3>1, Conses DEF At
  <2>6. /\ list'["search"] \in Seq(Leftover)
        /\ OnAction' = OnAction /\ list'["pipe"] = list["pipe"]
    BY <1>3, <2>2
  <2>7. /\ Core' /\ Locked' /\ todo'["ui"] \in {<<>>, <<"SetTo">>}
        /\ \A p \in OSThread \ {s} : Gone(p)' \/ Up(p)'
    BY <1>2, <2>2, <2>4, <2>6
  <2>8. Cleaning(s)'
    BY <1>a, <2>2, <2>3, <2>5, <2>6 DEF Cleaning
  <2>9. Waits(s)'
    BY <1>0, <2>2, <2>7, <2>8 DEF Waits
  <2> QED
    BY <2>7, <2>9, WaitsPlaced
<1>6. CASE At(s, "ModuleCleanupPipe") /\ ToChange(Tail(todo[s]))
  <2>1. ModuleCleanupPipe(s) /\ UNCHANGED dialogVars
    BY <1>6, Turn
  <2>2. /\ Return(s)
        /\ UNCHANGED <<handle, running, term, job, at, list, State, session, front, lock>>
    BY <1>a, <2>1 DEF ModuleCleanupPipe, Return, moduleVars, dialogVars
  <2>3. todo'[s] = Tail(todo[s]) /\ \A u \in Thread \ {s} : todo'[u] = todo[u]
    BY <1>0, <2>2, Returned, SoundTypes
  <2>4. /\ Core' /\ Locked' /\ todo'["ui"] \in {<<>>, <<"SetTo">>}
        /\ \A p \in OSThread \ {s} : Gone(p)' \/ Up(p)'
    BY <1>2, <2>2, <2>3 DEF OnAction
  <2>5. Cleaning(s)'
    BY <1>1, <1>6, <2>2, <2>3 DEF Cleaning
  <2>6. Waits(s)'
    BY <1>0, <2>2, <2>4, <2>5 DEF Waits
  <2> QED
    BY <2>4, <2>6, WaitsPlaced
<1>7. ToChange(todo[s]) => \/ At(s, "onThreadEndForCleanup")
                           \/ At(s, "onThreadEndForModuleCleanup")
  BY ToChanges DEF At
<1> QED
  BY <1>1, <1>4, <1>5, <1>6, <1>7 DEF Cleaning

(* The search thread leaves Work and ThreadProc reports it.                *)
LEMMA WaitsEnds ==
  ASSUME Sound, NEW s \in OSThread, Waits(s), Operate(s)
  PROVE  Placed'
<1>0. /\ UNCHANGED <<session, front, lock>> /\ (WorkStep(s) \/ GameAct(s))
      /\ job[s] = "search" /\ running["pipe"]
  BY DEF Operate, dialogVars, Waits, Locked, Logged
<1>1. Told(s)
  <2> SUFFICES ASSUME Cleaning(s) PROVE FALSE
    BY DEF Waits
  <2>1. at[s] = "callbacks" /\ todo[s] # <<>>
    BY ToChanges DEF Cleaning, At
  <2>2. at[s] \notin Serving
    BY <2>1 DEF Serving
  <2>3. ThreadProc(s)
    BY <1>0, <2>2, OnlyProc
  <2> QED
    BY <2>1, <2>3 DEF ThreadProc, DropHandle, ClearRunning, InvokeComplete, ExitThread
(* A step that leaves the other threads alone.                             *)
<1>2. ASSUME \A u \in Thread \ {s} : todo'[u] = todo[u], UNCHANGED <<term, list, State>>,
             running'["pipe"] = running["pipe"],
             \A q \in OSThread \ {s} : at'[q] = at[q] /\ job'[q] = job[q]
      PROVE  /\ Locked' /\ todo'["ui"] \in {<<>>, <<"SetTo">>}
             /\ \A p \in OSThread \ {s} : Gone(p)' \/ Up(p)'
  <2>1. Quiet({"ui"})'
    BY <1>2, ThreadAssumption DEF Waits, Locked, Logged, Quiet, Thread
  <2>2. Locked'
    BY <1>0, <1>2, <2>1 DEF Waits, Locked, Logged, OnAction
  <2>3. "ui" \in Thread \ {s}
    BY Names DEF Callers
  <2>4. todo'["ui"] \in {<<>>, <<"SetTo">>}
    BY <1>2, <2>3 DEF Waits
  <2>5. \A p \in OSThread \ {s} : todo'[p] = todo[p]
    BY <1>2, Names
  <2>6. \A p \in OSThread \ {s} : Gone(p)' \/ Up(p)'
    BY <1>2, <2>5, SoundTypes DEF Waits, Gone, Up
  <2> QED
    BY <2>2, <2>4, <2>6
<1>3. CASE at[s] = "loop"
  <2>1. at[s] \in Serving /\ at[s] # "work"
    BY <1>3 DEF Serving
  <2>2. SearchWork(s) \/ PipeWork(s) \/ GameAct(s)
    BY <1>0, <2>1, OnlyLabour
  <2>3. /\ UNCHANGED <<handle, running, job, list, todo, State, term>> /\ at'[s] = "left"
        /\ \A q \in OSThread \ {s} : at'[q] = at[q]
        /\ Core'
    BY <1>0, <2>1, <2>2, Labours, SoundTypes
  <2>4. /\ Locked' /\ todo'["ui"] \in {<<>>, <<"SetTo">>}
        /\ \A p \in OSThread \ {s} : Gone(p)' \/ Up(p)'
    BY <1>2, <2>3
  <2>5. Told(s)'
    BY <1>1, <2>3 DEF Told
  <2>6. Waits(s)'
    BY <1>0, <2>3, <2>4, <2>5 DEF Waits
  <2> QED
    BY <2>3, <2>6, WaitsPlaced
<1>4. CASE at[s] \in {"left", "unhandled", "invoke"}
  <2>1. at[s] \notin Serving /\ at[s] # "callbacks"
    BY <1>4 DEF Serving
  <2>2. ThreadProc(s) /\ State' = State
    BY <1>0, <2>1, OnlyProc DEF moduleVars
  <2>3. /\ Core' /\ UNCHANGED <<term, list>>
        /\ \A q \in OSThread \ {s} : at'[q] = at[q] /\ job'[q] = job[q]
        /\ job'[s] = "search"
        /\ at[s] # "unhandled" => running' = running
        /\ at[s] = "unhandled" =>
             /\ ~running'["search"]
             /\ \A w \in Worker \ {"search"} : running'[w] = running[w]
        /\ \/ at[s] = "left" /\ at'[s] = "unhandled"
           \/ at[s] = "unhandled" /\ at'[s] = "invoke"
           \/ at[s] = "invoke" /\ at'[s] = "callbacks"
    BY <1>0, <2>1, <2>2, CoreProc, ProcKeeps, SoundTypes
  <2>4. running'["pipe"] = running["pipe"]
    BY <2>3, Names
  <2>5. \A u \in Thread \ {s} : todo'[u] = todo[u]
    BY <2>2, SoundTypes
       DEF ThreadProc, DropHandle, ClearRunning, InvokeComplete, ExitThread, Agendas
  <2>6. /\ Locked' /\ todo'["ui"] \in {<<>>, <<"SetTo">>}
        /\ \A p \in OSThread \ {s} : Gone(p)' \/ Up(p)'
    BY <1>2, <2>2, <2>3, <2>4, <2>5
  <2>7. CASE at[s] = "invoke"
    <3>1. InvokeComplete(s)
      BY <2>2, <2>7 DEF ThreadProc, DropHandle, ClearRunning, ExitThread
    <3>2. todo'[s] = list["search"]
      BY <1>0, <3>1, Names, SoundTypes DEF InvokeComplete, Agendas
    <3>3. Cleaning(s)'
      BY <1>1, <2>3, <2>7, <3>2 DEF Told, Cleaning
    <3>4. Waits(s)'
      BY <2>3, <2>6, <3>3 DEF Waits
    <3> QED
      BY <2>3, <3>4, WaitsPlaced
  <2>8. CASE at[s] # "invoke"
    <3>1. todo'[s] = todo[s]
      BY <1>4, <2>2, <2>8
         DEF ThreadProc, DropHandle, ClearRunning, InvokeComplete, ExitThread
    <3>2. Told(s)'
      BY <1>1, <2>3, <2>8, <3>1 DEF Told
    <3>3. Waits(s)'
      BY <2>3, <2>6, <3>2 DEF Waits
    <3> QED
      BY <2>3, <3>3, WaitsPlaced
  <2> QED
    BY <2>7, <2>8
<1> QED
  BY <1>1, <1>3, <1>4 DEF Told

(* The search thread ends, and its handler goes on with the change.        *)
LEMMA ChangeWaitingNext ==
  ASSUME Sound, ChangeWaiting, Next
  PROVE  Placed'
<1>1. PICK s \in OSThread : Waits(s)
  BY DEF ChangeWaiting, Waits
<1>2. ASSUME NEW u \in Thread, Execute(u) PROVE u = s \/ u = "ui"
  <2>1. todo[u] # <<>>
    BY <1>2, Turn
  <2> QED
    BY <1>1, <2>1 DEF Waits, Locked, Logged, Quiet, Gone, Up, Thread
<1>3. ASSUME NEW p \in OSThread, p # s, Operate(p) PROVE Placed'
  <2>1. UNCHANGED <<session, front, lock>> /\ (WorkStep(p) \/ GameAct(p))
    BY <1>3 DEF Operate, dialogVars
  <2>2. Up(p)
    BY <1>1, <1>3, <2>1, GoneRests DEF Waits, Gone
  <2>3. /\ Up(p)' /\ Core'
        /\ UNCHANGED <<handle, running, job, list, todo, State>>
        /\ \A q \in OSThread \ {p} : at'[q] = at[q]
        /\ \A w \in Worker \ {job[p]} : term'[w] = term[w]
        /\ \A w \in Worker : term'[w] => term[w]
    BY <2>1, <2>2, UpWorks, SoundTypes
  <2>4. \A q \in OSThread \ {s} : Gone(q)' \/ Up(q)'
    BY <1>1, <2>3, OthersUp, SoundTypes DEF Waits
  <2>5. Locked'
    BY <1>1, <2>1, <2>3 DEF Waits, Locked, Logged, Quiet, OnAction
  <2>6. at[s] = "loop" => term'["search"] = term["search"]
    <3> SUFFICES ASSUME at[s] = "loop" PROVE term'["search"] = term["search"]
      OBVIOUS
    <3>1. Busy(s) /\ Busy(p)
      BY <2>2 DEF Busy, InWork, Up
    <3>2. job[p] # "search"
      BY <1>1, <1>3, <3>1, SoundTypes DEF Core, OneThread, Waits
    <3> QED
      BY <2>3, <3>2, Names
  <2>7. Told(s)' \/ Cleaning(s)'
    BY <1>1, <1>3, <2>3, <2>6 DEF Waits, Told, Cleaning, At
  <2>8. Waits(s)'
    BY <1>1, <2>3, <2>4, <2>5, <2>7 DEF Waits
  <2> QED
    BY <2>3, <2>8, WaitsPlaced
<1>4. ASSUME User \/ AuthStep \/ WaitClose PROVE FALSE
  <2>1. ~MayAct
    <3> SUFFICES ASSUME Idle PROVE FALSE
      BY SoundTypes DEF MayAct
    <3>1. Resting(s) /\ todo[s] = <<>>
      BY Names DEF Idle
    <3>2. ~Cleaning(s)
      BY <3>1, ToChanges DEF Cleaning, At
    <3> QED
      BY <1>1, <3>1, <3>2 DEF Waits, Told, Resting
  <2>2. LoginFails \/ WaitClose
    BY <1>4, <2>1, Outside
  <2> QED
    BY <1>1, <2>2 DEF LoginFails, WaitClose, Waits, Locked, Logged
<1> QED
  BY <1>1, <1>2, <1>3, <1>4, WaitsSetTo, WaitsHandles, WaitsEnds, NextCases

-----------------------------------------------------------------------------
(* The session has ended: Stop is called.                                  *)

(* The dialog adds its handler and calls Stop.                             *)
LEMMA StopCalledNext ==
  ASSUME Sound, NEW t \in Auths, StopCalled(t), Next
  PROVE  Placed'
<1>0. t \in Callers /\ t \in Thread /\ t \notin OSThread /\ todo[t] # <<>>
  BY Names, Tuples DEF StopCalled
<1>1. ASSUME NEW u \in Thread, Execute(u) PROVE u = t
  BY <1>1, Alone DEF StopCalled, Gone, Up
(* The dialog calls Stop and waits for its completion.                     *)
<1>2. ASSUME NEW h \in EndHandler, NEW op, todo[t] = <<op>>, OnAction = <<>>,
             Call(t, <<"Stop">>), AddHandler("onActionComplete", h), lock' = TRUE,
             UNCHANGED <<handle, running, term, job, at, State, front, session>>
      PROVE  Placed'
  <2>1. <<"Stop">> \in Seq(Op)
    BY Names DEF GameOp
  <2>2. todo'[t] = <<"Stop">> /\ \A u \in Thread \ {t} : todo'[u] = todo[u]
    <3>1. Tail(todo[t]) = <<>> /\ todo[t] # <<>>
      BY <1>2, Tuples
    <3> QED
      BY <1>0, <1>2, <2>1, <3>1, CalledLast, SoundTypes
  <2>3. Core'
    BY <1>2, CoreFrame, SoundTypes
  <2>4. Quiet({t})' /\ \A p \in OSThread : Gone(p)' \/ Up(p)'
    BY <1>0, <1>2, <2>2, ServedKept DEF StopCalled
  <2>5. OnAction' = <<h>> /\ OnlyLeftovers'
    BY <1>2, ActionAdds, AppendTuples, SoundTypes DEF StopCalled
  <2>6. StopCalled(t)'
    BY <1>2, <2>2, <2>4, <2>5 DEF StopCalled
  <2> QED
    BY <2>3, <2>6 DEF Placed, Somewhere
<1>3. CASE Execute(t) /\ todo[t] = <<"OnLogoutComplete">> /\ lock /\ OnAction = <<>>
  <2>1. OnLogoutComplete(t)
    BY <1>3, Turn, Tuples DEF At
  <2>2. /\ Call(t, <<"Stop">>) /\ AddHandler("onActionComplete", "onLogoutComplete2")
        /\ UNCHANGED <<handle, running, term, job, at, State, front, session, lock>>
    BY <2>1 DEF OnLogoutComplete, moduleVars, dialogVars
  <2>3. lock' = TRUE
    <3>1. lock \in BOOLEAN
      BY DEF Sound, Typed, DialogData
    <3> QED
      BY <1>3, <2>2, <3>1
  <2> QED
    BY <1>2, <1>3, <2>2, <2>3 DEF EndHandler
<1>4. CASE Execute(t) /\ todo[t] = <<"OnDisconnect">> /\ OnAction = <<>>
  <2>1. OnDisconnect(t)
    BY <1>4, Turn, Tuples DEF At
  <2>2. /\ Call(t, <<"Stop">>) /\ AddHandler("onActionComplete", "onDisconnectComplete")
        /\ lock' = TRUE
        /\ UNCHANGED <<handle, running, term, job, at, State, front, session>>
    BY <2>1 DEF OnDisconnect, moduleVars
  <2> QED
    BY <1>2, <1>4, <2>2 DEF EndHandler
<1>5. CASE Execute(t) /\ todo[t] = <<"Stop">> /\ lock /\ \E h \in EndHandler : OnAction = <<h>>
  <2>1. Stop(t) /\ UNCHANGED dialogVars
    BY <1>5, Turn, Tuples DEF At
  <2>2. /\ Call(t, <<"StopSearch">>) /\ State' = "STOPPING"
        /\ UNCHANGED <<handle, running, term, job, at, list, front, session, lock>>
    BY <2>1 DEF Stop, dialogVars, StopCalled
  <2>3. <<"StopSearch">> \in Seq(Op)
    BY Names DEF GameOp
  <2>4. todo'[t] = <<"StopSearch">> /\ \A u \in Thread \ {t} : todo'[u] = todo[u]
    <3>1. Tail(todo[t]) = <<>> /\ todo[t] # <<>>
      BY <1>5, Tuples
    <3> QED
      BY <1>0, <2>2, <2>3, <3>1, CalledLast, SoundTypes
  <2>5. Core'
    BY <2>2, CoreFrame, SoundTypes
  <2>6. Quiet({t})' /\ \A p \in OSThread : /\ Gone(p) => Gone(p)'
                                           /\ Up(p) => Up(p)'
    BY <1>0, <2>2, <2>4, ServedKept DEF StopCalled
  <2>7. ASSUME NEW p \in OSThread
        PROVE  /\ todo'[p] = <<>>
               /\ at'[p] # "free" => Up(p)'
    BY <2>6 DEF StopCalled, Gone, Up
  <2>8. \A p \in OSThread : /\ Ending(p, StopHandler)'
                            /\ ~At(p, "ModuleCleanupPipe")' /\ ~At(p, "DoStop")'
    BY <2>7 DEF Ending, At
  <2>9. todo'[t] \in StopCall
    BY <2>4 DEF StopCall
  <2>10. OnlyLeftovers' /\ \E h \in EndHandler : OnAction' = <<h>>
    BY <1>5, <2>2 DEF StopCalled, OnlyLeftovers, OnAction
  <2>11. Stopping(t)'
    BY <1>5, <2>2, <2>6, <2>7, <2>8, <2>9, <2>10 DEF StopCalled, Stopping
  <2> QED
    BY <2>5, <2>11 DEF Placed, Somewhere
<1>6. ASSUME NEW p \in OSThread, Operate(p) PROVE Placed'
  <2>1. UNCHANGED <<session, front, lock>> /\ (WorkStep(p) \/ GameAct(p))
    BY <1>6 DEF Operate, dialogVars
  <2>2. Up(p)
    BY <2>1, GoneRests DEF StopCalled, Gone
  <2>3. /\ Up(p)' /\ Core'
        /\ UNCHANGED <<handle, running, job, list, todo, State>>
        /\ \A q \in OSThread \ {p} : at'[q] = at[q]
        /\ \A w \in Worker : term'[w] => term[w]
    BY <2>1, <2>2, UpWorks, SoundTypes
  <2>4. \A q \in OSThread : Gone(q)' \/ Up(q)'
    BY <2>3, OthersUp, SoundTypes DEF StopCalled
  <2>5. StopCalled(t)'
    BY <2>1, <2>3, <2>4 DEF StopCalled, Quiet, OnAction, OnlyLeftovers
  <2> QED
    BY <2>3, <2>5 DEF Placed, Somewhere
<1>7. ASSUME User \/ AuthStep \/ WaitClose PROVE FALSE
  <2>1. LoginFails \/ WaitClose
    BY <1>0, <1>7, Busies, Outside, SoundTypes
  <2> QED
    BY <2>1 DEF LoginFails, WaitClose, StopCalled
<1> QED
  BY <1>0, <1>1, <1>3, <1>4, <1>5, <1>6, <1>7, NextCases DEF StopCalled

-----------------------------------------------------------------------------
(* The handlers of threads that have been told to stop.                    *)

(* A handler calls one operation: what is behind it are leftovers.         *)
LEMMA EndingCalls ==
  ASSUME Agendas, NEW p \in OSThread, NEW ops, Ending(p, ops), todo[p] # <<>>,
         NEW x, Call(p, <<x>>), at'[p] = at[p]
  PROVE  /\ at[p] = "callbacks" /\ todo'[p] # <<>>
         /\ At(p, x)' /\ \A y : At(p, y)' => y = x
         /\ x \in ops => Ending(p, ops)'
         /\ \A u \in Thread \ {p} : todo'[u] = todo[u]
<1>1. p \in Thread
  BY Names
<1>2. at[p] = "callbacks" /\ Tail(todo[p]) \in Seq(Leftover)
  BY DEF Ending
<1>3. todo'[p] = <<x>> \o Tail(todo[p]) /\ \A u \in Thread \ {p} : todo'[u] = todo[u]
  BY <1>1, Called
<1>4. todo'[p] # <<>> /\ Head(todo'[p]) = x /\ Tail(todo'[p]) = Tail(todo[p])
  BY <1>2, <1>3, Conses
<1> QED
  BY <1>2, <1>3, <1>4 DEF Ending, At

(* A handler calls nothing: leftovers come next.                           *)
LEMMA EndingReturns ==
  ASSUME Agendas, NEW p \in OSThread, NEW ops, Ending(p, ops), todo[p] # <<>>,
         Return(p), at'[p] = at[p], Leftover \subseteq ops
  PROVE  /\ at[p] = "callbacks"
         /\ \A y : At(p, y)' => y = "onThreadEndForModuleCleanup"
         /\ Ending(p, ops)'
         /\ \A u \in Thread \ {p} : todo'[u] = todo[u]
<1>1. p \in Thread
  BY Names
<1>2. at[p] = "callbacks" /\ Tail(todo[p]) \in Seq(Leftover)
  BY DEF Ending
<1>3. todo'[p] = Tail(todo[p]) /\ \A u \in Thread \ {p} : todo'[u] = todo[u]
  BY <1>1, Returned
<1>4. todo'[p] # <<>> => /\ Head(todo'[p]) = "onThreadEndForModuleCleanup"
                         /\ Tail(todo'[p]) \in Seq(Leftover)
  BY <1>2, <1>3, Leftovers
<1> QED
  BY <1>2, <1>3, <1>4 DEF Ending, At, Leftover

(* Others go on.                                                           *)
LEMMA EndingKept ==
  ASSUME NEW q, NEW ops, todo'[q] = todo[q], at'[q] = at[q]
  PROVE  Ending(q, ops) => Ending(q, ops)'
BY DEF Ending

(* onThreadEndForModuleCleanup finds nothing to remove.                    *)
LEMMA NothingToRemove ==
  ASSUME Sound, OnlyLeftovers, NEW w \in GameWorker,
         RemoveHandler(w, "onThreadEndForCleanup")
  PROVE  list' = list
<1>1. list[w] \in Seq(Leftover) /\ w \in Delegate
  BY Names DEF OnlyLeftovers, GameWorker
<1>2. RemoveFirst(list[w], "onThreadEndForCleanup") = list[w]
  BY <1>1, Leftovers
<1> QED
  BY <1>1, <1>2, SoundTypes DEF RemoveHandler, Lists

(* ThreadProc of a thread that has been told to stop.                      *)
LEMMA EndingProc ==
  ASSUME Sound, OnlyLeftovers, NEW p \in OSThread, ThreadProc(p), NEW ops,
         Ending(p, ops), Leftover \subseteq ops
  PROVE  /\ Ending(p, ops)'
         /\ \A u \in Thread \ {p} : todo'[u] = todo[u]
         /\ \A y : At(p, y)' => y = "onThreadEndForModuleCleanup"
<1>0. p \in Thread /\ job[p] \in Worker
  BY Names, SoundTypes
<1>1. CASE DropHandle(p) \/ ClearRunning(p)
  <2>1. at[p] \in {"left", "unhandled"} /\ todo' = todo
    BY <1>1 DEF DropHandle, ClearRunning
  <2>2. todo[p] = <<>>
    BY <2>1 DEF Ending
  <2> QED
    BY <2>1, <2>2 DEF Ending, At
<1>2. CASE InvokeComplete(p)
  <2>1. at[p] = "invoke" /\ at'[p] = "callbacks"
    BY <1>2, SoundTypes DEF InvokeComplete, Backed, ThreadCore
  <2>2. job[p] \in GameWorker
    BY <2>1, SoundTypes DEF Core, Known
  <2>3. todo'[p] = list[job[p]] /\ \A u \in Thread \ {p} : todo'[u] = todo[u]
    BY <1>0, <1>2, SoundTypes DEF InvokeComplete, Agendas
  <2>4. todo'[p] \in Seq(Leftover)
    BY <2>2, <2>3 DEF OnlyLeftovers, GameWorker
  <2>5. todo'[p] # <<>> => /\ Head(todo'[p]) = "onThreadEndForModuleCleanup"
                           /\ Tail(todo'[p]) \in Seq(Leftover)
    BY <2>4, Leftovers
  <2> QED
    BY <2>1, <2>3, <2>5 DEF Ending, At, Leftover
<1>3. CASE ExitThread(p)
  <2>1. todo[p] = <<>> /\ todo' = todo
    BY <1>3 DEF ExitThread
  <2> QED
    BY <2>1 DEF Ending, At
<1> QED
  BY <1>1, <1>2, <1>3 DEF ThreadProc

-----------------------------------------------------------------------------
(* The module stops.                                                       *)

(* The caller of Stop signals the search thread and the pipe thread.       *)
LEMMA StoppingCalls ==
  ASSUME Sound, NEW t \in Auths, Stopping(t), Execute(t)
  PROVE  Placed'
<1>0. t \in Callers /\ t \in Thread /\ t \notin OSThread /\ todo[t] # <<>>
  BY Names, Turn
<1>1. \/ todo[t] = <<"ClosePipe">>
      \/ /\ todo[t] \in StopCall /\ running["pipe"]
         /\ \A p \in OSThread : at[p] # "free" /\ job[p] = "pipe" => Up(p)
  BY <1>0 DEF Stopping, Signalled
(* What every step of it keeps.                                            *)
<1>2. ASSUME \A u \in Thread \ {t} : todo'[u] = todo[u],
             UNCHANGED <<handle, running, job, at, State, session, front, lock>>,
             OnlyLeftovers', OnAction' = OnAction,
             \/ Signalled(t)'
             \/ /\ todo[t] # <<"ClosePipe">>
                /\ todo'[t] \in StopCall /\ term'["pipe"] = term["pipe"]
      PROVE  Placed'
  <2>1. Core'
    BY <1>2, CoreFrame, SoundTypes
  <2>2. Quiet({t})'
    BY <1>2 DEF Stopping, Quiet, Thread
  <2>3. \A p \in OSThread : todo'[p] = todo[p]
    BY <1>0, <1>2, Names
  <2>4. \A p \in OSThread :
          /\ Ending(p, StopHandler)'
          /\ At(p, "ModuleCleanupPipe")' => ~running'["search"]
          /\ At(p, "DoStop")' => ~running'["search"] /\ ~running'["pipe"]
    BY <1>2, <2>3, EndingKept DEF Stopping, At
  <2>5. \/ Signalled(t)'
        \/ /\ todo'[t] \in StopCall /\ running'["pipe"]
           /\ \A p \in OSThread : at'[p] # "free" /\ job'[p] = "pipe" => Up(p)'
    <3> SUFFICES ASSUME ~Signalled(t)'
                 PROVE  \A p \in OSThread : at'[p] # "free" /\ job'[p] = "pipe" => Up(p)'
      BY <1>1, <1>2
    <3> QED
      BY <1>1, <1>2, <2>3 DEF Up
  <2>6. Stopping(t)'
    BY <1>2, <2>2, <2>4, <2>5 DEF Stopping
  <2> QED
    BY <2>1, <2>6 DEF Placed, Somewhere
<1>3. CASE todo[t] = <<"StopSearch">>
  <2>1. StopSearch(t) /\ UNCHANGED dialogVars
    BY <1>3, Turn, Tuples DEF At
  <2>2. /\ Call(t, IF running["search"] THEN <<"SignalSearch", "StopPipeWaiting">>
                                        ELSE <<"StopPipe">>)
        /\ UNCHANGED <<handle, running, term, job, at, list, State, session, front, lock>>
    BY <2>1 DEF StopSearch, moduleVars, dialogVars
  <2>3. <<"SignalSearch", "StopPipeWaiting">> \in Seq(Op) /\ <<"StopPipe">> \in Seq(Op)
    BY Names DEF GameOp
  <2>4. /\ todo'[t] = IF running["search"] THEN <<"SignalSearch", "StopPipeWaiting">>
                                           ELSE <<"StopPipe">>
        /\ \A u \in Thread \ {t} : todo'[u] = todo[u]
    <3>1. Tail(todo[t]) = <<>>
      BY <1>3, Tuples
    <3> QED
      BY <1>0, <2>2, <2>3, <3>1, CalledLast, SoundTypes
  <2>5. OnlyLeftovers' /\ OnAction' = OnAction
    BY <2>2 DEF Stopping, OnlyLeftovers, OnAction
  <2>6. todo'[t] \in StopCall /\ todo[t] # <<"ClosePipe">>
    BY <1>3, <2>4, Tuples DEF StopCall
  <2> QED
    BY <1>2, <2>2, <2>4, <2>5, <2>6
<1>4. CASE todo[t] = <<"SignalSearch", "StopPipeWaiting">>
  <2>1. SignalSearch(t) /\ UNCHANGED dialogVars
    BY <1>4, Turn, Tuples DEF At
  <2>2. /\ Return(t) /\ AddHandler("search", "onThreadEndForModuleCleanup")
        /\ term' = [term EXCEPT !["search"] = TRUE]
        /\ UNCHANGED <<handle, running, job, at, State, session, front, lock>>
    BY <2>1 DEF SignalSearch, moduleVars, dialogVars
  <2>3. todo'[t] = <<"StopPipeWaiting">> /\ \A u \in Thread \ {t} : todo'[u] = todo[u]
    <3>1. Tail(todo[t]) = <<"StopPipeWaiting">>
      BY <1>4, Tuples
    <3> QED
      BY <1>0, <2>2, <3>1, Returned, SoundTypes
  <2>4. /\ list'["search"] = Append(list["search"], "onThreadEndForModuleCleanup")
        /\ list'["pipe"] = list["pipe"] /\ OnAction' = OnAction
    BY <2>2, Names, SoundTypes DEF AddHandler, Lists, OnAction
  <2>5. OnlyLeftovers'
    BY <2>4, Leftovers DEF Stopping, OnlyLeftovers
  <2>6. term'["pipe"] = term["pipe"]
    BY <2>2, Names, SoundTypes
  <2>7. todo'[t] \in StopCall /\ todo[t] # <<"ClosePipe">>
    BY <1>4, <2>3, Tuples DEF StopCall
  <2> QED
    BY <1>2, <2>2, <2>3, <2>4, <2>5, <2>6, <2>7
<1>5. CASE todo[t] = <<"StopPipeWaiting">> \/ todo[t] = <<"StopPipe">>
  <2>1. At(t, "StopPipe") \/ At(t, "StopPipeWaiting")
    BY <1>5, Tuples DEF At
  <2>2. StopPipe(t) /\ UNCHANGED dialogVars
    BY <2>1, Turn
  <2>0. todo[t] # <<"ClosePipe">>
    BY <1>5, Tuples
  <2>3. /\ Call(t, <<"SignalPipe">>)
        /\ UNCHANGED <<handle, running, term, job, at, list, State, session, front, lock>>
    BY <1>1, <2>0, <2>2 DEF StopPipe, moduleVars, dialogVars
  <2>4. <<"SignalPipe">> \in Seq(Op)
    BY Names DEF GameOp
  <2>5. todo'[t] = <<"SignalPipe">> /\ \A u \in Thread \ {t} : todo'[u] = todo[u]
    <3>1. Tail(todo[t]) = <<>>
      BY <1>5, Tuples
    <3> QED
      BY <1>0, <2>3, <2>4, <3>1, CalledLast, SoundTypes
  <2>6. OnlyLeftovers' /\ OnAction' = OnAction
    BY <2>3 DEF Stopping, OnlyLeftovers, OnAction
  <2>7. todo'[t] \in StopCall
    BY <2>5 DEF StopCall
  <2> QED
    BY <1>2, <2>0, <2>3, <2>5, <2>6, <2>7
<1>6. CASE todo[t] = <<"SignalPipe">>
  <2>1. SignalPipe(t) /\ UNCHANGED dialogVars
    BY <1>6, Turn, Tuples DEF At
  <2>2. /\ PipeTerm(t, <<>>) /\ AddHandler("pipe", "onThreadEndForModuleCleanup")
        /\ UNCHANGED <<handle, running, job, at, State, session, front, lock>>
    BY <2>1 DEF SignalPipe, dialogVars
  <2>3. Signalled(t)' /\ \A u \in Thread \ {t} : todo'[u] = todo[u]
    <3>1. Tail(todo[t]) = <<>>
      BY <1>6, Tuples
    <3>2. <<"ClosePipe">> \in Seq(Op) /\ <<>> \in Seq(Op)
      BY Names DEF GameOp
    <3>3. <<"ClosePipe">> \o <<>> = <<"ClosePipe">>
      BY Concats
    <3>4. Call(t, <<>>) \/ Call(t, <<"ClosePipe">>)
      BY <2>2, <3>3 DEF PipeTerm
    <3> QED
      BY <1>0, <3>1, <3>2, <3>4, CalledLast, SoundTypes DEF Signalled
  <2>4. /\ list'["pipe"] = Append(list["pipe"], "onThreadEndForModuleCleanup")
        /\ list'["search"] = list["search"] /\ OnAction' = OnAction
    BY <2>2, Names, SoundTypes DEF AddHandler, Lists, OnAction
  <2>5. OnlyLeftovers'
    BY <2>4, Leftovers DEF Stopping, OnlyLeftovers
  <2> QED
    BY <1>2, <2>2, <2>3, <2>4, <2>5
<1>7. CASE todo[t] = <<"ClosePipe">>
  <2>1. ClosePipe(t) /\ UNCHANGED dialogVars
    BY <1>7, Turn, Tuples DEF At
  <2>2. /\ Return(t)
        /\ UNCHANGED <<handle, running, term, job, at, list, State, session, front, lock>>
    BY <2>1 DEF ClosePipe, dialogVars
  <2>3. Signalled(t)' /\ \A u \in Thread \ {t} : todo'[u] = todo[u]
    <3>1. Tail(todo[t]) = <<>>
      BY <1>7, Tuples
    <3> QED
      BY <1>0, <2>2, <3>1, Returned, SoundTypes DEF Signalled
  <2>4. OnlyLeftovers' /\ OnAction' = OnAction
    BY <2>2 DEF Stopping, OnlyLeftovers, OnAction
  <2> QED
    BY <1>2, <2>2, <2>3, <2>4
<1> QED
  BY <1>1, <1>3, <1>4, <1>5, <1>6, <1>7 DEF StopCall

(* A step on thread p that leaves the module stopping.                     *)
LEMMA StoppingKept ==
  ASSUME Sound, NEW t \in Auths, Stopping(t), NEW p \in OSThread,
         UNCHANGED <<session, front, lock, State, list>>, Core',
         \A u \in Thread \ {p} : todo'[u] = todo[u],
         \A q \in OSThread \ {p} : at'[q] = at[q] /\ job'[q] = job[q],
         \A w \in Worker : term'[w] => term[w],
         \A w \in Worker : running'[w] => running[w],
         Ending(p, StopHandler)',
         At(p, "ModuleCleanupPipe")' => ~running'["search"],
         At(p, "DoStop")' => ~running'["search"] /\ ~running'["pipe"],
         ~Signalled(t) => /\ running'["pipe"]
                          /\ at'[p] # "free" /\ job'[p] = "pipe" => Up(p)'
  PROVE  Placed'
<1>0. t \in Callers /\ t \in Thread /\ t # p
  BY Names
<1>1. todo'[t] = todo[t]
  BY <1>0
<1>2. Quiet({t})'
  BY ThreadAssumption DEF Stopping, Quiet, Thread
<1>3. "search" \in Worker /\ "pipe" \in Worker
  BY Names
<1>4. \A q \in OSThread \ {p} : todo'[q] = todo[q]
  BY Names
<1>5. ASSUME NEW q \in OSThread
      PROVE  /\ Ending(q, StopHandler)'
             /\ At(q, "ModuleCleanupPipe")' => ~running'["search"]
             /\ At(q, "DoStop")' => ~running'["search"] /\ ~running'["pipe"]
  <2>1. CASE q = p
    BY <2>1
  <2>2. CASE q # p
    BY <1>3, <1>4, <2>2, EndingKept DEF Stopping, At
  <2> QED
    BY <2>1, <2>2
<1>6. \/ Signalled(t)'
      \/ /\ todo'[t] \in StopCall /\ running'["pipe"]
         /\ \A q \in OSThread : at'[q] # "free" /\ job'[q] = "pipe" => Up(q)'
  <2> SUFFICES ASSUME ~Signalled(t)
               PROVE  \A q \in OSThread : at'[q] # "free" /\ job'[q] = "pipe" => Up(q)'
    BY <1>1 DEF Stopping, Signalled
  <2> TAKE q \in OSThread
  <2>1. CASE q = p
    BY <2>1
  <2>2. CASE q # p
    BY <1>4, <2>2, OthersUp, SoundTypes DEF Stopping
  <2> QED
    BY <2>1, <2>2
<1>7. Stopping(t)'
  BY <1>2, <1>5, <1>6 DEF Stopping, OnlyLeftovers, OnAction
<1> QED
  BY <1>7 DEF Placed, Somewhere

(* The handlers, up to DoStop.                                             *)
LEMMA StoppingHandles ==
  ASSUME Sound, NEW t \in Auths, Stopping(t), NEW p \in OSThread, Execute(p)
  PROVE  Placed'
<1>0. /\ p \in Thread /\ todo[p] # <<>> /\ Ending(p, StopHandler)
      /\ t \in Callers /\ t \in Thread /\ t \notin OSThread
  BY Names, Turn DEF Stopping
<1>1. at[p] = "callbacks" /\ job[p] \in GameWorker
  BY <1>0, SoundTypes DEF Ending, Core, Known
<1>2. /\ "ModuleCleanupPipe" \in StopHandler /\ "DoStop" \in StopHandler
      /\ Leftover \subseteq StopHandler
  BY DEF StopHandler, Leftover
(* A step that changes nothing but the agenda of p.                        *)
<1>3. ASSUME UNCHANGED <<handle, running, term, job, at, list, State, session, front, lock>>,
             \A u \in Thread \ {p} : todo'[u] = todo[u],
             Ending(p, StopHandler)',
             At(p, "ModuleCleanupPipe")' => ~running["search"],
             At(p, "DoStop")' => ~running["search"] /\ ~running["pipe"]
      PROVE  Placed'
  <2>1. Core'
    BY <1>3, CoreFrame, SoundTypes
  <2>2. job[p] # "pipe" \/ Signalled(t)
    BY <1>0, <1>1 DEF Stopping, Up
  <2>3. ~Signalled(t) => running["pipe"]
    BY DEF Stopping
  <2> QED
    BY <1>3, <2>1, <2>2, <2>3, StoppingKept
<1>4. CASE At(p, "onThreadEndForModuleCleanup")
  <2>1. onThreadEndForModuleCleanup(p) /\ UNCHANGED dialogVars
    BY <1>4, Turn
  <2>2. /\ RemoveHandler(job[p], "onThreadEndForCleanup")
        /\ Call(p, IF running["search"] THEN <<>> ELSE <<"ModuleCleanupPipe">>)
        /\ UNCHANGED <<handle, running, term, job, at, State, session, front, lock>>
    BY <2>1 DEF onThreadEndForModuleCleanup, moduleVars, dialogVars
  <2>3. list' = list
    BY <1>1, <2>2, NothingToRemove DEF Stopping
  <2>4. CASE running["search"]
    <3>1. Return(p) /\ at'[p] = at[p]
      BY <2>2, <2>4 DEF Return
    <3>2. /\ \A y : At(p, y)' => y = "onThreadEndForModuleCleanup"
          /\ Ending(p, StopHandler)'
          /\ \A u \in Thread \ {p} : todo'[u] = todo[u]
      BY <1>0, <1>2, <3>1, EndingReturns, SoundTypes
    <3>3. ~At(p, "ModuleCleanupPipe")' /\ ~At(p, "DoStop")'
      BY <3>2
    <3> QED
      BY <1>3, <2>2, <2>3, <3>2, <3>3
  <2>5. CASE ~running["search"]
    <3>1. Call(p, <<"ModuleCleanupPipe">>) /\ at'[p] = at[p]
      BY <2>2, <2>5
    <3>2. /\ \A y : At(p, y)' => y = "ModuleCleanupPipe"
          /\ Ending(p, StopHandler)'
          /\ \A u \in Thread \ {p} : todo'[u] = todo[u]
      BY <1>0, <1>2, <3>1, EndingCalls, SoundTypes
    <3>3. ~At(p, "DoStop")'
      BY <3>2
    <3> QED
      BY <1>3, <2>2, <2>3, <2>5, <3>2, <3>3
  <2> QED
    BY <2>4, <2>5
<1>5. CASE At(p, "ModuleCleanupPipe")
  <2>1. ModuleCleanupPipe(p) /\ UNCHANGED dialogVars
    BY <1>5, Turn
  <2>2. /\ Call(p, IF running["pipe"] THEN <<>> ELSE <<"DoStop">>)
        /\ UNCHANGED <<handle, running, term, job, at, list, State, session, front, lock>>
    BY <2>1 DEF ModuleCleanupPipe, moduleVars, dialogVars
  <2>3. CASE running["pipe"]
    <3>1. Return(p) /\ at'[p] = at[p]
      BY <2>2, <2>3 DEF Return
    <3>2. /\ \A y : At(p, y)' => y = "onThreadEndForModuleCleanup"
          /\ Ending(p, StopHandler)'
          /\ \A u \in Thread \ {p} : todo'[u] = todo[u]
      BY <1>0, <1>2, <3>1, EndingReturns, SoundTypes
    <3>3. ~At(p, "ModuleCleanupPipe")' /\ ~At(p, "DoStop")'
      BY <3>2
    <3> QED
      BY <1>3, <2>2, <3>2, <3>3
  <2>4. CASE ~running["pipe"]
    <3>1. Call(p, <<"DoStop">>) /\ at'[p] = at[p]
      BY <2>2, <2>4
    <3>2. /\ \A y : At(p, y)' => y = "DoStop"
          /\ Ending(p, StopHandler)'
          /\ \A u \in Thread \ {p} : todo'[u] = todo[u]
      BY <1>0, <1>2, <3>1, EndingCalls, SoundTypes
    <3>3. ~At(p, "ModuleCleanupPipe")' /\ ~running["search"]
      BY <1>5, <3>2 DEF Stopping
    <3> QED
      BY <1>3, <2>2, <2>4, <3>2, <3>3
  <2> QED
    BY <2>3, <2>4
<1>6. CASE At(p, "DoStop")
  <2>1. DoStop(p) /\ UNCHANGED dialogVars
    BY <1>6, Turn
  <2>2. /\ Call(p, <<"InvokeAction">>) /\ State' = "INITED"
        /\ UNCHANGED <<handle, running, term, job, at, list, session, front, lock>>
    BY <2>1 DEF DoStop, dialogVars
  <2>3. ~running["search"] /\ ~running["pipe"]
    BY <1>6 DEF Stopping
  <2>4. Core'
    BY <2>2, CoreFrame, SoundTypes
  <2>5. /\ At(p, "InvokeAction")'
        /\ \A y : At(p, y)' => y = "InvokeAction"
        /\ \A u \in Thread \ {p} : todo'[u] = todo[u]
        /\ Ending(p, EndOp)'
    <3>1. Ending(p, EndOp)
      BY <1>0 DEF Ending, EndOp
    <3>2. "InvokeAction" \in EndOp /\ at'[p] = at[p]
      BY <2>2 DEF EndOp
    <3> QED
      BY <1>0, <2>2, <3>1, <3>2, EndingCalls, SoundTypes
  <2>6. Signalled(t) /\ \A u \in Caller \ {t} : todo[u] = <<>>
    BY <2>3 DEF Stopping, Quiet
  <2>7. OutCallers' /\ todo'["main"] = <<>>
    <3>1. \A u \in Caller : todo'[u] = todo[u]
      BY <2>5, ThreadAssumption DEF Thread
    <3>2. "main" \in Caller \ {t} /\ Auths \subseteq Caller
      BY Names
    <3>3. <<>> \in Seq(CleanOp)
      OBVIOUS
    <3>4. todo'["main"] = <<>> /\ \A u \in Auths : Signalled(u)'
      BY <2>6, <3>1, <3>2 DEF Signalled
    <3> QED
      BY <2>6, <3>1, <3>3, <3>4 DEF OutCallers, Quiet
  <2>8. \A q \in OSThread : at'[q] \in {"free", "invoke", "callbacks"}
    <3>1. \A q \in OSThread : ~Busy(q)
      BY <2>3, SoundTypes DEF Core, Known, Busy, GameWorker, InWork
    <3> QED
      BY <2>2, <3>1, SoundTypes DEF Busy, Stage
  <2>9. ASSUME NEW q \in OSThread
        PROVE  Ending(q, EndOp)' /\ \A g \in EndHandler : ~At(q, g)'
    <3>1. CASE q = p
      BY <2>5, <3>1 DEF EndHandler
    <3>2. CASE q # p
      <4>1. todo'[q] = todo[q] /\ at'[q] = at[q] /\ Ending(q, StopHandler)
        BY <2>2, <2>5, <3>2, Names DEF Stopping
      <4>2. Ending(q, EndOp)'
        BY <4>1 DEF Ending, EndOp
      <4>3. \A g \in EndHandler : ~At(q, g)'
        BY <4>1 DEF Ending, At, EndHandler, StopHandler
      <4> QED
        BY <4>2, <4>3
    <3> QED
      BY <3>1, <3>2
  <2>10. OnlyLeftovers' /\ OnAction' = OnAction
    BY <2>2 DEF Stopping, OnlyLeftovers, OnAction
  <2>11. PICK h \in EndHandler : OnAction = <<h>>
    BY DEF Stopping
  <2>12. OnAction # <<>>
    BY <2>11, Tuples
  <2>13. front' = "main" /\ session' = "out"
    BY <2>2 DEF Stopping
  <2>14. Out'
    BY <2>2, <2>3, <2>5, <2>7, <2>8, <2>9, <2>10, <2>11, <2>12, <2>13 DEF Out
  <2> QED
    BY <2>4, <2>14 DEF Placed, Somewhere
<1>7. \E x \in StopHandler : At(p, x)
  BY <1>0 DEF Ending, At
<1> QED
  BY <1>4, <1>5, <1>6, <1>7 DEF StopHandler

(* Work and ThreadProc.                                                    *)
LEMMA StoppingWorks ==
  ASSUME Sound, NEW t \in Auths, Stopping(t), NEW p \in OSThread, Operate(p)
  PROVE  Placed'
<1>0. /\ UNCHANGED <<session, front, lock>> /\ (WorkStep(p) \/ GameAct(p))
      /\ Ending(p, StopHandler) /\ OnlyLeftovers /\ job[p] \in Worker
      /\ p \in Thread /\ "search" \in Worker /\ "pipe" \in Worker
  BY Names, SoundTypes DEF Operate, dialogVars, Stopping
<1>1. ~Signalled(t) => running["pipe"] /\ (at[p] # "free" /\ job[p] = "pipe" => Up(p))
  BY DEF Stopping
<1>2. CASE at[p] \in Serving
  <2>1. /\ UNCHANGED <<handle, running, job, list, todo, State>>
        /\ \A q \in OSThread \ {p} : at'[q] = at[q]
        /\ at'[p] \in Serving \cup {"left"}
        /\ \A w \in Worker \ {job[p]} : term'[w] = term[w]
        /\ IF at[p] = "work" THEN ~term'[job[p]] /\ at'[p] = "loop" ELSE term' = term
        /\ Core'
    BY <1>0, <1>2, OnlyLabour, Labours, SoundTypes
  <2>2. todo[p] = <<>>
    BY <1>0, <1>2 DEF Ending, Serving
  <2>3. \A w \in Worker : term'[w] => term[w]
    BY <2>1
  <2>4. Ending(p, StopHandler)' /\ ~At(p, "ModuleCleanupPipe")' /\ ~At(p, "DoStop")'
    BY <2>1, <2>2 DEF Ending, At
  <2>5. Up(p) => Up(p)'
    BY <1>0, UpWorks, SoundTypes
  <2>6. at[p] # "free"
    BY <1>2 DEF Serving
  <2> QED
    BY <1>0, <1>1, <2>1, <2>3, <2>4, <2>5, <2>6, StoppingKept
<1>3. CASE at[p] \notin Serving
  <2>1. ThreadProc(p) /\ State' = State
    BY <1>0, <1>3, OnlyProc DEF moduleVars
  <2>2. /\ Core' /\ UNCHANGED <<term, list>>
        /\ \A q \in OSThread \ {p} : at'[q] = at[q] /\ job'[q] = job[q]
        /\ at[p] # "callbacks" => job'[p] = job[p]
        /\ at[p] # "unhandled" => running' = running
        /\ at[p] = "unhandled" =>
             /\ ~running'[job[p]]
             /\ \A w \in Worker \ {job[p]} : running'[w] = running[w]
        /\ at[p] # "free"
        /\ at[p] = "callbacks" => at'[p] = "free"
    BY <2>1, CoreProc, ProcKeeps, SoundTypes
  <2>3. /\ Ending(p, StopHandler)'
        /\ \A u \in Thread \ {p} : todo'[u] = todo[u]
        /\ ~At(p, "ModuleCleanupPipe")' /\ ~At(p, "DoStop")'
    <3>1. Leftover \subseteq StopHandler
      BY DEF Leftover, StopHandler
    <3>2. /\ Ending(p, StopHandler)'
          /\ \A u \in Thread \ {p} : todo'[u] = todo[u]
          /\ \A y : At(p, y)' => y = "onThreadEndForModuleCleanup"
      BY <1>0, <2>1, <3>1, EndingProc
    <3> QED
      BY <3>2
  <2>4. \A w \in Worker : running'[w] => running[w]
    BY <2>2
  <2>5. ~Signalled(t) => job[p] # "pipe"
    BY <1>1, <1>3, <2>2 DEF Up, Serving
  <2>6. ~Signalled(t) => /\ running'["pipe"]
                         /\ at'[p] # "free" => job'[p] # "pipe"
    BY <1>0, <1>1, <2>2, <2>5
  <2> QED
    BY <1>0, <2>1, <2>2, <2>3, <2>4, <2>6, StoppingKept
<1> QED
  BY <1>2, <1>3

(* Stop, until DoStop.                                                     *)
LEMMA StoppingNext ==
  ASSUME Sound, NEW t \in Auths, Stopping(t), Next
  PROVE  Placed'
<1>1. ASSUME NEW u \in Thread, Execute(u) PROVE u = t \/ u \in OSThread
  <2>1. todo[u] # <<>>
    BY <1>1, Turn
  <2> QED
    BY <2>1 DEF Stopping, Quiet, Thread
<1>2. ~Login /\ ~CloseLogin /\ ~WaitClose
  BY DEF Stopping, Login, CloseLogin, WaitClose
<1>3. (\A m \in Method : ~UpdateInjectMethod(m)) /\ (\A e \in {"LOGOUT", "EXIT"} : ~Leaving(e))
  BY DEF Stopping, UpdateInjectMethod, Leaving, Clickable
<1>4. ~AuthStep
  BY DEF Stopping, AuthStep, LoginSucceeds, LoginFails, LogoutDone, Disconnected
<1> QED
  BY <1>1, <1>2, <1>3, <1>4, StoppingCalls, StoppingHandles, StoppingWorks, NextCases DEF User

-----------------------------------------------------------------------------
(* The module is stopped.                                                  *)

(* The callers do not move.                                                *)
LEMMA OutCallersKept ==
  ASSUME OutCallers, \A u \in Caller : todo'[u] = todo[u]
  PROVE  OutCallers' /\ todo'["main"] = todo["main"]
<1>1. "main" \in Caller /\ Auths \subseteq Caller
  BY Names
<1> QED
  BY <1>1 DEF OutCallers, Quiet, Signalled

(* Who may have something to execute then.                                 *)
LEMMA OutThreads ==
  ASSUME Out, NEW t \in Thread
  PROVE  t = "main" \/ t \in OSThread \/ todo[t] = <<>> \/ (t \in Auths /\ Signalled(t))
BY DEF Out, OutCallers, Quiet, Thread

(* A step on thread p that leaves the client logged out.                   *)
LEMMA OutKept ==
  ASSUME Sound, Out, NEW p \in OSThread,
         UNCHANGED <<session, front, running, list>>, State' \in {State, "INITED"}, Core',
         \A u \in Thread \ {p} : todo'[u] = todo[u],
         \A q \in OSThread \ {p} : at'[q] = at[q],
         at'[p] \in {"free", "invoke", "callbacks"}, Ending(p, EndOp)',
         \A g \in EndHandler : At(p, g)' => OnAction = <<g>>,
         At(p, "InvokeAction") \/ (\E g \in EndHandler : At(p, g)) =>
           At(p, "InvokeAction")' \/ OnAction = <<>> \/ (\E g \in EndHandler : At(p, g)')
  PROVE  Placed'
<1>1. \A q \in OSThread \ {p} : todo'[q] = todo[q]
  BY Names
<1>2. \A u \in Caller : todo'[u] = todo[u]
  BY ThreadAssumption DEF Thread
<1>3. OutCallers' /\ todo'["main"] = todo["main"]
  BY <1>2, OutCallersKept DEF Out
<1>4. ASSUME NEW q \in OSThread
      PROVE  at'[q] \in {"free", "invoke", "callbacks"} /\ Ending(q, EndOp)'
  <2>1. CASE q = p
    BY <2>1
  <2>2. CASE q # p
    BY <1>1, <2>2, EndingKept DEF Out
  <2> QED
    BY <2>1, <2>2
<1>5. OnAction' = OnAction /\ OnlyLeftovers'
  BY DEF OnAction, Out, OnlyLeftovers
<1>6. ASSUME OnAction # <<>>
      PROVE  \E h \in EndHandler :
               /\ OnAction = <<h>>
               /\ \E q \in OSThread : At(q, "InvokeAction")' \/ At(q, h)'
               /\ \A q \in OSThread, g \in EndHandler : At(q, g)' => g = h
  <2>1. PICK h \in EndHandler :
          /\ OnAction = <<h>>
          /\ \E q \in OSThread : At(q, "InvokeAction") \/ At(q, h)
          /\ \A q \in OSThread, g \in EndHandler : At(q, g) => g = h
    BY <1>6 DEF Out
  <2>2. \A g \in EndHandler : OnAction = <<g>> => g = h
    BY <2>1, Tuples
  <2>3. ASSUME NEW q \in OSThread, NEW g \in EndHandler, At(q, g)' PROVE g = h
    <3>1. CASE q = p
      BY <2>2, <2>3, <3>1
    <3>2. CASE q # p
      BY <1>1, <2>1, <2>3, <3>2 DEF At
    <3> QED
      BY <3>1, <3>2
  <2>4. PICK q \in OSThread : At(q, "InvokeAction") \/ At(q, h)
    BY <2>1
  <2>5. \E r \in OSThread : At(r, "InvokeAction")' \/ At(r, h)'
    <3>1. CASE q = p
      <4>1. At(p, "InvokeAction")' \/ (\E g \in EndHandler : At(p, g)')
        BY <1>6, <2>4, <3>1
      <4> QED
        BY <2>3, <4>1
    <3>2. CASE q # p
      BY <1>1, <2>4, <3>2 DEF At
    <3> QED
      BY <3>1, <3>2
  <2> QED
    BY <2>1, <2>3, <2>5
<1>7. session' = "out" /\ State' \in {"INITED", "UNINITED"} /\ ~running'["search"]
      /\ ~running'["pipe"] /\ front' \in {"login", "closed", "main"}
  BY DEF Out
<1>8. /\ todo'["main"] # <<>> \/ State' = "UNINITED" => front' = "closed"
      /\ (front' = "main" <=> OnAction' # <<>>)
  BY <1>3, <1>5 DEF Out
<1>9. Out'
  BY <1>3, <1>4, <1>5, <1>6, <1>7, <1>8 DEF Out
<1> QED
  BY <1>9 DEF Placed, Somewhere

(* The completion of the stop brings back the login dialog, or closes it.  *)
LEMMA OutBack ==
  ASSUME Sound, Out, NEW p \in OSThread, NEW g \in EndHandler, At(p, g),
         Return(p), RemoveHandler("onActionComplete", g),
         front' \in {"login", "closed"}, front = "closed" => front' = "closed",
         UNCHANGED <<handle, running, job, at, State, session>>
  PROVE  Placed'
<1>0. todo[p] # <<>> /\ Ending(p, EndOp) /\ Leftover \subseteq EndOp /\ OnlyLeftovers
  BY DEF At, Out, Leftover, EndOp, StopHandler
<1>1. Core'
  BY CoreFrame, SoundTypes
<1>2. OnAction = <<>> \/ OnAction = <<g>>
  BY DEF Out
<1>3. OnAction' = <<>> /\ OnlyLeftovers'
  BY <1>0, <1>2, ActionRemoves, RemoveTuples, SoundTypes
<1>4. Ending(p, EndOp)' /\ \A u \in Thread \ {p} : todo'[u] = todo[u]
  BY <1>0, EndingReturns, SoundTypes
<1>5. ASSUME NEW q \in OSThread
      PROVE  at'[q] \in {"free", "invoke", "callbacks"} /\ Ending(q, EndOp)'
  <2>1. CASE q = p
    BY <1>4, <2>1 DEF Out
  <2>2. CASE q # p
    BY <1>4, <2>2, EndingKept, Names DEF Out
  <2> QED
    BY <2>1, <2>2
<1>6. \A u \in Caller : todo'[u] = todo[u]
  BY <1>4, ThreadAssumption DEF Thread
<1>7. OutCallers' /\ todo'["main"] = todo["main"]
  BY <1>6, OutCallersKept DEF Out
<1>8. todo'["main"] # <<>> \/ State' = "UNINITED" => front' = "closed"
  BY <1>7 DEF Out
<1>9. front' # "main" /\ front' \in {"login", "closed", "main"}
  OBVIOUS
<1>10. Out'
  BY <1>3, <1>5, <1>7, <1>8, <1>9 DEF Out
<1> QED
  BY <1>1, <1>10 DEF Placed, Somewhere

(* The handlers of a stopped module: InvokeAction, the dialog's, leftovers *)
(* and a second DoStop.                                                    *)
LEMMA OutHandles ==
  ASSUME Sound, Out, NEW p \in OSThread, Execute(p)
  PROVE  Placed'
<1>0. /\ p \in Thread /\ todo[p] # <<>> /\ Ending(p, EndOp)
      /\ ~running["search"] /\ ~running["pipe"] /\ Leftover \subseteq EndOp
  BY Names, Turn DEF Out, Leftover, EndOp, StopHandler
<1>1. at[p] = "callbacks" /\ job[p] \in GameWorker
  BY <1>0, SoundTypes DEF Ending, Core, Known
(* A step that calls one operation, from a stop handler.                   *)
<1>2. ASSUME NEW op \in StopHandler, At(p, op),
             NEW x \in EndOp \ EndHandler, Call(p, <<x>>), State' \in {State, "INITED"},
             UNCHANGED <<handle, running, job, at, list, session, front>>
      PROVE  Placed'
  <2>1. /\ Ending(p, EndOp)'
        /\ \A y : At(p, y)' => y = x
        /\ \A u \in Thread \ {p} : todo'[u] = todo[u]
    BY <1>0, <1>2, EndingCalls, SoundTypes
  <2>2. Core'
    BY <1>2, CoreFrame, SoundTypes
  <2>3. ~At(p, "InvokeAction") /\ \A g \in EndHandler : ~At(p, g)
    BY <1>2 DEF At, StopHandler, EndHandler
  <2>4. \A g \in EndHandler : ~At(p, g)'
    BY <1>2, <2>1
  <2> QED
    BY <1>1, <1>2, <2>1, <2>2, <2>3, <2>4, OutKept
<1>3. CASE At(p, "onThreadEndForModuleCleanup")
  <2>1. onThreadEndForModuleCleanup(p) /\ UNCHANGED dialogVars
    BY <1>3, Turn
  <2>2. /\ RemoveHandler(job[p], "onThreadEndForCleanup")
        /\ Call(p, <<"ModuleCleanupPipe">>)
        /\ UNCHANGED <<handle, running, job, at, State, session, front>>
    BY <1>0, <2>1 DEF onThreadEndForModuleCleanup, moduleVars, dialogVars
  <2>3. list' = list
    BY <1>1, <2>2, NothingToRemove DEF Out
  <2> QED
    BY <1>2, <1>3, <2>2, <2>3 DEF EndOp, EndHandler, StopHandler
<1>4. CASE At(p, "ModuleCleanupPipe")
  <2>1. ModuleCleanupPipe(p) /\ UNCHANGED dialogVars
    BY <1>4, Turn
  <2>2. /\ Call(p, <<"DoStop">>)
        /\ UNCHANGED <<handle, running, job, at, list, State, session, front>>
    BY <1>0, <2>1 DEF ModuleCleanupPipe, moduleVars, dialogVars
  <2> QED
    BY <1>2, <1>4, <2>2 DEF EndOp, EndHandler, StopHandler
<1>5. CASE At(p, "DoStop")
  <2>1. DoStop(p) /\ UNCHANGED dialogVars
    BY <1>5, Turn
  <2>2. /\ Call(p, <<"InvokeAction">>) /\ State' = "INITED"
        /\ UNCHANGED <<handle, running, job, at, list, session, front>>
    BY <2>1 DEF DoStop, dialogVars
  <2> QED
    BY <1>2, <1>5, <2>2 DEF EndOp, EndHandler, StopHandler
<1>6. CASE At(p, "InvokeAction")
  <2>1. InvokeAction(p) /\ UNCHANGED dialogVars
    BY <1>6, Turn
  <2>2. /\ Call(p, OnAction)
        /\ UNCHANGED <<handle, running, job, at, list, State, session, front>>
    BY <2>1 DEF InvokeAction, Invoke, OnAction, moduleVars, dialogVars
  <2>3. Core'
    BY <2>2, CoreFrame, SoundTypes
  <2>4. CASE OnAction = <<>>
    <3>1. Return(p)
      BY <2>2, <2>4 DEF Return
    <3>2. /\ Ending(p, EndOp)'
          /\ \A y : At(p, y)' => y = "onThreadEndForModuleCleanup"
          /\ \A u \in Thread \ {p} : todo'[u] = todo[u]
      BY <1>0, <2>2, <3>1, EndingReturns, SoundTypes
    <3>3. \A g \in EndHandler : ~At(p, g)'
      BY <3>2 DEF EndHandler
    <3> QED
      BY <1>1, <2>2, <2>3, <2>4, <3>2, <3>3, OutKept
  <2>5. CASE OnAction # <<>>
    <3>1. PICK h \in EndHandler : OnAction = <<h>>
      BY <2>5 DEF Out
    <3>2. Call(p, <<h>>) /\ h \in EndOp
      BY <2>2, <3>1 DEF EndOp
    <3>3. /\ Ending(p, EndOp)' /\ At(p, h)'
          /\ \A y : At(p, y)' => y = h
          /\ \A u \in Thread \ {p} : todo'[u] = todo[u]
      BY <1>0, <2>2, <3>2, EndingCalls, SoundTypes
    <3>4. \A g \in EndHandler : At(p, g)' => OnAction = <<g>>
      BY <3>1, <3>3
    <3> QED
      BY <1>1, <2>2, <2>3, <3>3, <3>4, OutKept
  <2> QED
    BY <2>4, <2>5
<1>7. CASE At(p, "onLogoutComplete2")
  <2>1. onLogoutComplete2(p)
    BY <1>7, Turn
  <2>2. /\ Return(p) /\ RemoveHandler("onActionComplete", "onLogoutComplete2")
        /\ front' \in {"login", "closed"} /\ (front = "closed" => front' = "closed")
        /\ UNCHANGED <<handle, running, job, at, State, session>>
    BY <2>1 DEF onLogoutComplete2, Back, moduleVars
  <2> QED
    BY <1>7, <2>2, OutBack DEF EndHandler
<1>8. CASE At(p, "onDisconnectComplete")
  <2>1. onDisconnectComplete(p)
    BY <1>8, Turn
  <2>2. /\ Return(p) /\ RemoveHandler("onActionComplete", "onDisconnectComplete")
        /\ front' \in {"login", "closed"} /\ (front = "closed" => front' = "closed")
        /\ UNCHANGED <<handle, running, job, at, State, session>>
    BY <2>1 DEF onDisconnectComplete, Back, moduleVars
  <2> QED
    BY <1>8, <2>2, OutBack DEF EndHandler
<1>9. \E x \in EndOp : At(p, x)
  BY <1>0 DEF Ending, At
<1> QED
  BY <1>3, <1>4, <1>5, <1>6, <1>7, <1>8, <1>9 DEF EndOp, StopHandler, EndHandler

(* The threads that have stopped exit.                                     *)
LEMMA OutWorks ==
  ASSUME Sound, Out, NEW p \in OSThread, Operate(p)
  PROVE  Placed'
<1>0. /\ UNCHANGED <<session, front>> /\ (WorkStep(p) \/ GameAct(p))
      /\ Ending(p, EndOp) /\ OnlyLeftovers
      /\ at[p] \in {"free", "invoke", "callbacks"} /\ at[p] \notin Serving
  BY DEF Operate, dialogVars, Out, Serving
<1>1. ThreadProc(p) /\ State' = State
  BY <1>0, OnlyProc DEF moduleVars
<1>2. /\ Core' /\ UNCHANGED <<list, running>>
      /\ \A q \in OSThread \ {p} : at'[q] = at[q]
      /\ at'[p] \in {"free", "invoke", "callbacks"}
  BY <1>0, <1>1, CoreProc, ProcKeeps, SoundTypes
<1>3. /\ Ending(p, EndOp)'
      /\ \A u \in Thread \ {p} : todo'[u] = todo[u]
      /\ \A y : At(p, y)' => y = "onThreadEndForModuleCleanup"
  <2>1. Leftover \subseteq EndOp
    BY DEF Leftover, EndOp, StopHandler
  <2> QED
    BY <1>0, <1>1, <2>1, EndingProc
<1>4. \A g \in EndHandler : ~At(p, g)'
  BY <1>3 DEF EndHandler
<1>5. todo[p] = <<>>
  BY <1>0, <1>1 DEF Ending, ThreadProc, DropHandle, ClearRunning, InvokeComplete, ExitThread
<1>6. ~At(p, "InvokeAction") /\ \A g : ~At(p, g)
  BY <1>5 DEF At
<1> QED
  BY <1>0, <1>1, <1>2, <1>3, <1>4, <1>6, OutKept

(* WinMain's thread cleans up.                                             *)
LEMMA OutCleans ==
  ASSUME Sound, Out, Execute("main")
  PROVE  Placed'
<1> DEFINE t == "main"
<1>0. t \in Callers /\ t \in Thread /\ t \notin OSThread /\ todo[t] # <<>> /\ Execute(t)
  BY Names, Turn
<1>1. todo[t] \in Seq(CleanOp)
  BY DEF Out, OutCallers
<1> HIDE DEF t
<1>2. Head(todo[t]) \in CleanOp /\ Tail(todo[t]) \in Seq(CleanOp)
  BY <1>0, <1>1, HeadTailProperties
<1>3. front = "closed" /\ OnAction = <<>>
  BY <1>0 DEF Out, t
(* Every operation calls some of CleanOp.                                  *)
<1>4. ASSUME NEW ops \in Seq(CleanOp), Call(t, ops), State' \in {State, "UNINITED"},
             UNCHANGED <<handle, running, job, at, list, session, front>>
      PROVE  Placed'
  <2>1. /\ todo'[t] = ops \o Tail(todo[t])
        /\ \A u \in Thread \ {t} : todo'[u] = todo[u]
    BY <1>0, <1>4, Called, SoundTypes
  <2>2. todo'[t] \in Seq(CleanOp)
    BY <1>2, <2>1, ConcatProperties
  <2>3. Core'
    BY <1>4, CoreFrame, SoundTypes
  <2>4. OutCallers'
    <3>1. Auths \subseteq Thread \ {t}
      BY Names DEF t
    <3> QED
      BY <2>1, <2>2, <3>1 DEF Out, OutCallers, Quiet, Signalled, Thread, t
  <2>5. \A p \in OSThread : todo'[p] = todo[p]
    BY <1>0, <2>1, Names
  <2>6. \A p \in OSThread :
          at'[p] \in {"free", "invoke", "callbacks"} /\ Ending(p, EndOp)'
    BY <1>4, <2>5, EndingKept DEF Out
  <2>7. OnAction' = <<>> /\ OnlyLeftovers' /\ front' = "closed"
    BY <1>3, <1>4 DEF OnAction, OnlyLeftovers, Out
  <2>8. Out'
    BY <1>4, <2>2, <2>4, <2>6, <2>7 DEF Out, t
  <2> QED
    BY <2>3, <2>8 DEF Placed, Somewhere
<1>5. /\ <<>> \in Seq(CleanOp)
      /\ <<"JoinSearch">> \in Seq(CleanOp) /\ <<"JoinPipe">> \in Seq(CleanOp)
      /\ <<"CleanupWait", "WaitSearch", "DeleteSearch", "WaitPipe", "DeletePipe">>
           \in Seq(CleanOp)
  BY DEF CleanOp
<1>6. CASE At(t, "Cleanup")
  <2>1. Cleanup(t) /\ UNCHANGED dialogVars
    BY <1>0, <1>6, Turn
  <2> DEFINE more == <<"CleanupWait", "WaitSearch", "DeleteSearch", "WaitPipe", "DeletePipe">>
             none == <<>>
  <2>2. /\ Call(t, none \o more)
        /\ UNCHANGED <<handle, running, job, at, list, State, session, front>>
    BY <2>1 DEF Cleanup, moduleVars, dialogVars, Out
  <2>3. none \o more \in Seq(CleanOp)
    <3>1. none \in Seq(CleanOp) /\ more \in Seq(CleanOp)
      BY <1>5
    <3> HIDE DEF none, more
    <3> QED
      BY <3>1, ConcatProperties
  <2> QED
    BY <1>4, <2>2, <2>3
<1>7. CASE At(t, "CleanupWait")
  <2>1. CleanupWait(t) /\ UNCHANGED dialogVars
    BY <1>0, <1>7, Turn
  <2> QED
    BY <1>4, <1>5, <2>1 DEF CleanupWait, Return, moduleVars, dialogVars
<1>8. CASE At(t, "WaitSearch")
  <2>1. WaitSearch(t) /\ UNCHANGED dialogVars
    BY <1>0, <1>8, Turn
  <2> QED
    BY <1>4, <1>5, <2>1 DEF WaitSearch, moduleVars, dialogVars
<1>9. CASE At(t, "WaitPipe")
  <2>1. WaitPipe(t) /\ UNCHANGED dialogVars
    BY <1>0, <1>9, Turn
  <2>2. ~ConnectedGame
    BY DEF Out, ConnectedGame
  <2> QED
    BY <1>4, <1>5, <2>1, <2>2 DEF WaitPipe, PipeTerm, dialogVars
<1>10. CASE At(t, "JoinSearch") \/ At(t, "JoinPipe")
  <2>1. Join(t) /\ UNCHANGED dialogVars
    BY <1>0, <1>10, Turn
  <2> QED
    BY <1>4, <1>5, <2>1 DEF Join, Return, moduleVars, dialogVars
<1>11. CASE At(t, "DeleteSearch") \/ At(t, "DeletePipe")
  <2>1. Delete(t) /\ UNCHANGED dialogVars
    BY <1>0, <1>11, Turn
  <2> QED
    BY <1>4, <1>5, <2>1 DEF Delete, Return, dialogVars
<1> QED
  BY <1>0, <1>2, <1>6, <1>7, <1>8, <1>9, <1>10, <1>11 DEF CleanOp, At

(* The Pipe_Term of the stop returns.                                      *)
LEMMA OutCloses ==
  ASSUME Sound, Out, NEW t \in Auths, Execute(t)
  PROVE  Placed'
<1>0. t \in Thread /\ t \notin OSThread /\ t # "main" /\ todo[t] # <<>>
  BY Names, Turn
<1>1. todo[t] = <<"ClosePipe">>
  BY <1>0 DEF Out, OutCallers, Signalled
<1>2. ClosePipe(t) /\ UNCHANGED dialogVars
  BY <1>1, Turn, Tuples DEF At
<1>3. /\ Return(t)
      /\ UNCHANGED <<handle, running, job, at, list, State, session, front>>
  BY <1>2 DEF ClosePipe, dialogVars
<1>4. todo'[t] = <<>> /\ \A u \in Thread \ {t} : todo'[u] = todo[u]
  <2>1. Tail(todo[t]) = <<>>
    BY <1>1, Tuples
  <2> QED
    BY <1>0, <1>3, <2>1, Returned, SoundTypes
<1>5. OutCallers' /\ todo'["main"] = todo["main"]
  <2>1. todo'["main"] = todo["main"]
    BY <1>0, <1>4, Names
  <2>2. \A u \in Auths : Signalled(u)'
    <3>1. Auths \subseteq Thread
      BY Names
    <3> QED
      BY <1>4, <3>1 DEF Out, OutCallers, Signalled
  <2>3. Quiet(Auths \cup {"main"})'
    BY <1>4 DEF Out, OutCallers, Quiet, Thread
  <2> QED
    BY <2>1, <2>2, <2>3 DEF Out, OutCallers
<1>6. \A p \in OSThread : todo'[p] = todo[p]
  BY <1>0, <1>4, Names
<1>7. \A p \in OSThread : Ending(p, EndOp)'
  BY <1>3, <1>6, EndingKept DEF Out
<1>8. \A p \in OSThread : \A x : At(p, x)' <=> At(p, x)
  BY <1>6 DEF At
<1>9. OnAction' = OnAction /\ OnlyLeftovers'
  BY <1>3 DEF Out, OnAction, OnlyLeftovers
<1>10. Core'
  BY <1>3, CoreFrame, SoundTypes
<1>11. Out'
  BY <1>3, <1>5, <1>7, <1>8, <1>9 DEF Out
<1> QED
  BY <1>10, <1>11 DEF Placed, Somewhere

(* The next login, or the user leaves.                                     *)
LEMMA OutUser ==
  ASSUME Sound, Out, User \/ AuthStep \/ WaitClose
  PROVE  Placed'
<1>0. "main" \in Callers /\ "main" \in Thread /\ "main" \notin OSThread
  BY Names
<1>1. MayAct => /\ \A t \in Thread : todo[t] = <<>>
                /\ \A p \in OSThread : Gone(p)
                /\ front # "main"
  <2> SUFFICES ASSUME Idle
               PROVE  /\ \A t \in Thread : todo[t] = <<>>
                      /\ \A p \in OSThread : Gone(p)
                      /\ front # "main"
    BY SoundTypes DEF MayAct
  <2>1. \A t \in Thread : todo[t] = <<>>
    BY DEF Idle
  <2>2. \A p \in OSThread : Gone(p)
    BY <2>1, Names DEF Idle, Resting, Out, Gone
  <2>3. OnAction = <<>>
    BY <2>1, Names DEF Out, At
  <2> QED
    BY <2>1, <2>2, <2>3 DEF Out
<1>2. CASE Login
  <2>1. /\ MayAct /\ front = "login" /\ session' = "entering"
        /\ UNCHANGED <<handle, running, job, at, list, todo, State, front>>
    BY <1>2 DEF Login, gameVars, workerVars, moduleVars
  <2>2. State = "INITED" /\ OnAction = <<>>
    BY <2>1 DEF Out
  <2>3. Core'
    BY <2>1, CoreFrame, SoundTypes
  <2>4. Quiet({})' /\ \A p \in OSThread : Gone(p)'
    BY <1>1, <2>1 DEF Quiet, Gone, Thread
  <2>5. Entering'
    BY <2>1, <2>2, <2>4 DEF Entering, Out, OnAction, OnlyLeftovers
  <2> QED
    BY <2>3, <2>5 DEF Placed, Somewhere
<1>3. CASE CloseLogin
  <2>1. /\ front = "login" /\ front' = "closed"
        /\ UNCHANGED <<handle, running, job, at, list, todo, State, session>>
    BY <1>3 DEF CloseLogin, gameVars, workerVars, moduleVars
  <2>2. Core'
    BY <2>1, CoreFrame, SoundTypes
  <2>3. OnAction' = <<>> /\ OnlyLeftovers'
    BY <2>1 DEF Out, OnAction, OnlyLeftovers
  <2>4. OutCallers' /\ \A p \in OSThread : Ending(p, EndOp)'
    BY <2>1, OutCallersKept DEF Out, Ending
  <2>5. Out'
    BY <2>1, <2>3, <2>4 DEF Out
  <2> QED
    BY <2>2, <2>5 DEF Placed, Somewhere
<1>4. CASE WaitClose
  <2>1. /\ front = "closed" /\ todo' = [todo EXCEPT !["main"] = <<"Cleanup">>]
        /\ UNCHANGED <<handle, running, job, at, list, State, session, front>>
    BY <1>4 DEF WaitClose, moduleVars, dialogVars
  <2>2. Core'
    BY <2>1, CoreFrame, SoundTypes
  <2>3. todo'["main"] = <<"Cleanup">> /\ \A u \in Thread \ {"main"} : todo'[u] = todo[u]
    BY <1>0, <2>1, SoundTypes DEF Agendas
  <2>4. <<"Cleanup">> \in Seq(CleanOp)
    BY DEF CleanOp
  <2>5. OutCallers' /\ \A p \in OSThread : todo'[p] = todo[p]
    <3>1. Auths \subseteq Thread \ {"main"}
      BY Names
    <3> QED
      BY <1>0, <2>3, <2>4, <3>1, Names DEF Out, OutCallers, Quiet, Signalled, Thread
  <2>6. \A p \in OSThread : Ending(p, EndOp)'
    BY <2>1, <2>5, EndingKept DEF Out
  <2>7. OnAction' = <<>> /\ OnlyLeftovers'
    BY <2>1 DEF Out, OnAction, OnlyLeftovers
  <2>8. Out'
    BY <2>1, <2>3, <2>4, <2>5, <2>6, <2>7 DEF Out
  <2> QED
    BY <2>2, <2>8 DEF Placed, Somewhere
<1>5. ~LoginFails /\ ~LoginSucceeds /\ ~LogoutDone /\ ~Disconnected
  BY DEF Out, LoginFails, LoginSucceeds, LogoutDone, Disconnected
<1>6. (\A m \in Method : ~UpdateInjectMethod(m)) /\ (\A e \in {"LOGOUT", "EXIT"} : ~Leaving(e))
  BY <1>1 DEF UpdateInjectMethod, Leaving, Clickable
<1> QED
  BY <1>2, <1>3, <1>4, <1>5, <1>6 DEF User, AuthStep

(* Logged out, or leaving.                                                 *)
LEMMA OutNext ==
  ASSUME Sound, Out, Next
  PROVE  Placed'
<1>1. ASSUME NEW u \in Thread, Execute(u) PROVE u = "main" \/ u \in OSThread \/ u \in Auths
  <2>1. todo[u] # <<>>
    BY <1>1, Turn
  <2> QED
    BY <2>1, OutThreads
<1> QED
  BY <1>1, OutWorks, OutCleans, OutCloses, OutUser, OutHandles, NextCases

-----------------------------------------------------------------------------
(* The stages are an invariant.                                            *)

(* The client starts logged out.                                           *)
LEMMA InitPlaced == Init => Placed
<1> SUFFICES ASSUME Init PROVE Placed
  OBVIOUS
<1>1. \A p \in OSThread : at[p] = "free"
  BY DEF Init, ThreadInit
<1>2. \A t \in Thread : todo[t] = <<>>
  BY DEF Init, ThreadInit
<1>3. ~running["search"] /\ ~running["pipe"]
  BY Names DEF Init, ThreadInit
<1>4. OnAction = <<>> /\ list["search"] = <<>> /\ list["pipe"] = <<>>
  BY Names DEF Init, ThreadInit, OnAction
<1>5. session = "out" /\ State = "INITED" /\ front = "login"
  BY DEF Init, GameInit
<1>6. Core
  BY <1>1 DEF Core, OneThread, Known, Busy, InWork
<1>7. \A S : <<>> \in Seq(S)
  OBVIOUS
<1>8. OnlyLeftovers /\ OutCallers /\ todo["main"] = <<>>
  BY <1>2, <1>4, <1>7, Names DEF OnlyLeftovers, OutCallers, Signalled, Quiet, Thread
<1>9. \A p \in OSThread : Ending(p, EndOp)
  BY <1>2, Names DEF Ending
<1>10. Out
  BY <1>1, <1>3, <1>4, <1>5, <1>8, <1>9 DEF Out
<1> QED
  BY <1>6, <1>10 DEF Placed, Somewhere

(* The stages are about the variables only.                                *)
LEMMA PlacedStutters ==
  ASSUME Placed, UNCHANGED vars
  PROVE  Placed'
<1>1. UNCHANGED <<handle, running, term, job, at, list, todo, State, front, lock, session>>
  BY DEF vars, gameVars, workerVars, moduleVars, dialogVars
<1>2. Core'
  BY <1>1, CoreFrame DEF Placed
<1>3. \A p \in OSThread : /\ Gone(p)' <=> Gone(p)
                          /\ Up(p)' <=> Up(p)
                          /\ Spent(p)' <=> Spent(p)
                          /\ Told(p)' <=> Told(p)
                          /\ Cleaning(p)' <=> Cleaning(p)
  BY <1>1 DEF Gone, Up, Spent, Told, Cleaning, At
<1>4. /\ OnAction' = OnAction /\ (OnlyLeftovers => OnlyLeftovers')
      /\ \A c : Quiet(c) => Quiet(c)'
      /\ \A t : Changing(t) => Changing(t)'
  BY <1>1 DEF OnAction, OnlyLeftovers, Quiet, Changing
<1>5. \A p, ops : /\ Ending(p, ops) => Ending(p, ops)'
                  /\ At(p, ops)' <=> At(p, ops)
  BY <1>1 DEF Ending, At
<1>6. Entering => Entering'
  BY <1>1, <1>3, <1>4 DEF Entering
<1>7. Opening => Opening'
  BY <1>1, <1>3, <1>4 DEF Opening
<1>8. Starting => Starting'
  BY <1>1, <1>3, <1>4 DEF Starting, StartingPipe, StartingSearch
<1>9. Logged => Logged'
  BY <1>1, <1>4 DEF Logged
<1>10. Ready => Ready'
  BY <1>1, <1>3, <1>4, <1>9 DEF Ready
<1>11. Locked => Locked'
  BY <1>1, <1>4, <1>9 DEF Locked
<1>12. ChangeAsked => ChangeAsked'
  BY <1>1, <1>3, <1>4, <1>11 DEF ChangeAsked
<1>13. ChangeWaiting => ChangeWaiting'
  BY <1>1, <1>3, <1>11 DEF ChangeWaiting
<1>14. \A t : Changed(t) => Changed(t)'
  BY <1>1, <1>3, <1>4, <1>11 DEF Changed
<1>15. \A t : StopCalled(t) => StopCalled(t)'
  BY <1>1, <1>3, <1>4 DEF StopCalled
<1>16. \A t : Stopping(t) => Stopping(t)'
  BY <1>1, <1>3, <1>4, <1>5 DEF Stopping, Signalled
<1>17. Out => Out'
  BY <1>1, <1>4, <1>5 DEF Out, OutCallers, Signalled
<1> QED
  BY <1>2, <1>6, <1>7, <1>8, <1>10, <1>12, <1>13, <1>14, <1>15, <1>16, <1>17
     DEF Placed, Somewhere

(* Each stage leads to itself or to another.                               *)
LEMMA PlacedNext ==
  ASSUME Pace = "idle", Typed, Placed, [Next]_vars
  PROVE  Placed'
<1>1. Sound
  BY DEF Sound, Placed
<1>2. CASE Next
  BY <1>1, <1>2, EnteringNext, OpeningNext, StartingNext, ReadyNext, ChangeAskedNext,
     ChangeWaitingNext, ChangedNext, StopCalledNext, StoppingNext, OutNext
     DEF Placed, Somewhere
<1>3. CASE UNCHANGED vars
  BY <1>3, PlacedStutters
<1> QED
  BY <1>2, <1>3

(***************************************************************************)
(* The session's stages: whatever the threads do, the client is logging    *)
(* in, starting, ready, changing the inject method, stopping or logged     *)
(* out, and agendas, delegates, threads and module fit together.           *)
(***************************************************************************)
THEOREM StagesKept ==
  ASSUME Pace = "idle"
  PROVE  Spec => [](Typed /\ Placed)
<1>1. Init => Typed /\ Placed
  BY InitTyped, InitPlaced
<1>2. (Typed /\ Placed) /\ [Next]_vars => (Typed /\ Placed)'
  BY NextTyped, PlacedNext
<1> QED
  BY <1>1, <1>2, PTL DEF Spec

-----------------------------------------------------------------------------
(* What the stages say of agendas, lists and the module's state.           *)

(* What t executes next, if anything, is among ops.                        *)
Does(t, ops) == todo[t] # <<>> => Head(todo[t]) \in ops

(* An operation of this kind is executed when the module is ready for it.  *)
Heeded(t) ==
  /\ At(t, "Start") => State = "INITED"
  /\ At(t, "Stop") => State = "STARTED"
  /\ At(t, "StartChangeComplete") => State = "STARTING"
  /\ At(t, "DoStop") => State # "STARTED" /\ State # "STARTING"
  /\ At(t, "DeletePipe") => State \in {"INITED", "UNINITED"}
  /\ At(t, "RunSearch") \/ At(t, "CreateSearch") => ~running["search"]
  /\ At(t, "RunPipe") \/ At(t, "CreatePipe") => ~running["pipe"]

(* A thread with nothing to execute.                                       *)
LEMMA QuietHeeded ==
  ASSUME NEW t, todo[t] = <<>>
  PROVE  Heeded(t)
BY DEF Heeded, At

(* Nobody executes anything.                                               *)
LEMMA EnteringHeeded ==
  ASSUME Entering, NEW t \in Thread
  PROVE  Heeded(t)
<1>1. todo[t] = <<>>
  BY DEF Entering, Quiet, Gone, Thread
<1> QED
  BY <1>1, QuietHeeded

(* The login thread calls Start on a stopped module.                       *)
LEMMA OpeningHeeded ==
  ASSUME Opening, NEW t \in Thread
  PROVE  Heeded(t)
<1>1. CASE t # "login"
  <2>1. todo[t] = <<>>
    BY <1>1 DEF Opening, Quiet, Gone, Thread
  <2> QED
    BY <2>1, QuietHeeded
<1>2. CASE t = "login"
  <2>1. Does(t, {"MainDialog", "MainLock", "Start"})
    BY <1>2, Tuples DEF Opening, Does
  <2>2. State = "INITED"
    BY DEF Opening
  <2> QED
    BY <2>1, <2>2 DEF Does, Heeded, At
<1> QED
  BY <1>1, <1>2

(* DoChange runs the search thread when there is none.                     *)
LEMMA ChangingHeeded ==
  ASSUME NEW t, Changing(t)
  PROVE  Heeded(t)
<1>1. \/ Does(t, {"DoChange", "RunSearch", "CreateSearch"}) /\ ~running["search"]
      \/ Does(t, {"SetMethod", "InvokeAction"})
  BY Tuples DEF Changing, Does
<1> QED
  BY <1>1 DEF Does, Heeded, At

(* Start runs the pipe thread when there is none.                          *)
LEMMA StartingHeeded ==
  ASSUME Starting, NEW t \in Thread
  PROVE  Heeded(t)
<1>1. CASE t # "login"
  <2>1. todo[t] = <<>>
    BY <1>1 DEF Starting, Quiet, Gone, Up, Thread
  <2> QED
    BY <2>1, QuietHeeded
<1>2. CASE t = "login" /\ ~Changing(t)
  <2>1. \/ Does(t, {"RunPipe", "CreatePipe"}) /\ ~running["pipe"]
        \/ Does(t, {"StartAdd", "Change", "SetTo", "UpdateInjectMethodComplete",
                    "StartChangeComplete"})
    BY <1>2, Tuples DEF Starting, StartingPipe, StartingSearch, Does
  <2>2. State = "STARTING"
    BY DEF Starting
  <2> QED
    BY <2>1, <2>2 DEF Does, Heeded, At
<1> QED
  BY <1>1, <1>2, ChangingHeeded

(* A change neither starts nor stops the module.                           *)
LEMMA LoggedHeeded ==
  ASSUME NEW t \in Thread, Ready \/ ChangeAsked \/ ChangeWaiting \/ \E u \in Thread : Changed(u)
  PROVE  Heeded(t)
<1>1. CASE Does(t, {"SetTo", "Change", "ChangeWait", "UpdateInjectMethodComplete",
                    "onThreadEndForCleanup", "onThreadEndForModuleCleanup",
                    "ModuleCleanupPipe"})
  BY <1>1 DEF Does, Heeded, At
<1> DEFINE quiet == todo[t] = <<>>
           none == Does(t, {"SetTo", "Change", "ChangeWait", "UpdateInjectMethodComplete",
                    "onThreadEndForCleanup", "onThreadEndForModuleCleanup",
                    "ModuleCleanupPipe"})
<1>2. quiet => none
  BY DEF Does
<1>3. CASE Ready
  <2>1. t = "ui" \/ quiet
    BY <1>3 DEF Ready, Logged, Quiet, Gone, Up, Spent, Thread
  <2>2. t = "ui" => none
    BY <1>3, Tuples DEF Ready, Does
  <2> QED
    BY <1>1, <1>2, <2>1, <2>2
<1>4. CASE ChangeAsked
  <2>1. t = "ui" \/ quiet
    BY <1>4 DEF ChangeAsked, Locked, Logged, Quiet, Gone, Up, Thread
  <2>2. t = "ui" => none
    BY <1>4, Tuples DEF ChangeAsked, Does
  <2> QED
    BY <1>1, <1>2, <2>1, <2>2
<1>5. CASE ChangeWaiting
  <2>1. PICK s \in OSThread : Waits(s)
    BY <1>5 DEF ChangeWaiting, Waits
  <2>2. t = "ui" \/ t = s \/ quiet
    BY <2>1 DEF Waits, Locked, Logged, Quiet, Gone, Up, Thread
  <2>3. t = "ui" => none
    BY <2>1, Tuples DEF Waits, Does
  <2>4. t = s => none
    BY <2>1, ToChanges DEF Waits, Told, Cleaning, At, Does
  <2> QED
    BY <1>1, <1>2, <2>2, <2>3, <2>4
<1>6. ASSUME NEW u \in Thread, Changed(u) PROVE Heeded(t)
  <2>1. t = u \/ t = "ui" \/ quiet
    BY <1>6 DEF Changed, Locked, Logged, Quiet, Gone, Up, Thread
  <2>2. t = u => Changing(t) \/ none
    BY <1>6, Tuples DEF Changed, Does
  <2>3. t # u /\ t = "ui" => none
    BY <1>6, Tuples DEF Changed, Does
  <2> QED
    BY <1>1, <1>2, <2>1, <2>2, <2>3, ChangingHeeded
<1> QED
  BY <1>3, <1>4, <1>5, <1>6

(* Stop is called on a started module.                                     *)
LEMMA StoppingHeeded ==
  ASSUME NEW t \in Thread, NEW u \in Auths, StopCalled(u) \/ Stopping(u)
  PROVE  Heeded(t)
<1>1. CASE StopCalled(u)
  <2>1. t = u \/ todo[t] = <<>>
    BY <1>1 DEF StopCalled, Quiet, Gone, Up, Thread
  <2>2. t = u => Does(t, {"OnLogoutComplete", "OnDisconnect", "Stop"})
    BY <1>1, Tuples DEF StopCalled, Does
  <2>3. State = "STARTED"
    BY <1>1 DEF StopCalled
  <2> QED
    BY <2>1, <2>2, <2>3, QuietHeeded DEF Does, Heeded, At
<1>2. CASE Stopping(u)
  <2>1. t = u \/ t \in OSThread \/ todo[t] = <<>>
    BY <1>2 DEF Stopping, Quiet, Thread
  <2>2. t = u => Does(t, {"StopSearch", "SignalSearch", "StopPipe", "StopPipeWaiting",
                          "SignalPipe", "ClosePipe"})
    BY <1>2, Tuples DEF Stopping, Signalled, StopCall, Does
  <2>3. t \in OSThread => Does(t, StopHandler)
    BY <1>2 DEF Stopping, Ending, Does
  <2>4. State = "STOPPING"
    BY <1>2 DEF Stopping
  <2> QED
    BY <2>1, <2>2, <2>3, <2>4, QuietHeeded DEF Does, Heeded, At, StopHandler
<1> QED
  BY <1>1, <1>2

(* Of the stop handlers only a second DoStop is left.                      *)
LEMMA OutHeeded ==
  ASSUME Out, NEW t \in Thread
  PROVE  Heeded(t)
<1>1. t = "main" \/ t \in OSThread \/ todo[t] = <<>> \/ (t \in Auths /\ Signalled(t))
  BY OutThreads
<1>2. t = "main" => Does(t, CleanOp)
  BY HeadTailProperties DEF Out, OutCallers, Does
<1>3. Signalled(t) => todo[t] = <<>> \/ Does(t, {"ClosePipe"})
  BY Tuples DEF Signalled, Does
<1>4. t \in OSThread => Does(t, EndOp)
  BY DEF Out, Ending, Does
<1>5. State \in {"INITED", "UNINITED"}
  BY DEF Out
<1> QED
  BY <1>1, <1>2, <1>4, <1>5, <1>3, QuietHeeded
     DEF Does, Heeded, At, CleanOp, EndOp, EndHandler, StopHandler

(* In every stage, operations find the module as they expect it.           *)
LEMMA PlacedHeeded ==
  ASSUME Placed, NEW t \in Thread
  PROVE  Heeded(t)
BY EnteringHeeded, OpeningHeeded, StartingHeeded, LoggedHeeded, StoppingHeeded, OutHeeded
   DEF Placed, Somewhere

(* The completions somebody waits for.                                     *)
LEMMA PlacedLists ==
  ASSUME Placed
  PROVE  /\ \/ OnAction = <<>>
            \/ \E h : OnAction = <<h>>
            \/ OnAction = <<"UpdateInjectMethodComplete", "StartChangeComplete">>
         /\ list["search"] \in Seq(Leftover) \/ ToChange(list["search"])
<1>1. CASE Entering \/ Opening
  BY <1>1 DEF Entering, Opening, OnlyLeftovers
<1>2. CASE Starting
  BY <1>2 DEF Starting, StartingPipe, StartingSearch, OnlyLeftovers
<1>3. CASE Ready \/ ChangeAsked \/ \E t \in Thread : Changed(t)
  BY <1>3 DEF Ready, ChangeAsked, Changed, Locked, OnlyLeftovers
<1>4. CASE ChangeWaiting
  BY <1>4 DEF ChangeWaiting, Locked, Told, Cleaning
<1>5. CASE (\E t \in Auths : StopCalled(t) \/ Stopping(t)) \/ Out
  BY <1>5 DEF StopCalled, Stopping, Out, OnlyLeftovers
<1> QED
  BY <1>1, <1>2, <1>3, <1>4, <1>5 DEF Placed, Somewhere

(* Nobody adds a handler that is still in the list.                        *)
LEMMA PlacedAddedOnce ==
  ASSUME Placed
  PROVE  AddedOnce
<1>1. IsInjective(OnAction)
  <2>1. CASE OnAction = <<>> \/ \E h : OnAction = <<h>>
    BY <2>1 DEF IsInjective
  <2>2. CASE OnAction = <<"UpdateInjectMethodComplete", "StartChangeComplete">>
    <3>1. /\ DOMAIN OnAction = 1..2
          /\ OnAction[1] = "UpdateInjectMethodComplete"
          /\ OnAction[2] = "StartChangeComplete"
      BY <2>2
    <3> QED
      BY <3>1 DEF IsInjective
  <2> QED
    BY <2>1, <2>2, PlacedLists
<1> DEFINE s == list["search"]
           e == "onThreadEndForCleanup"
           I == {i \in DOMAIN s : s[i] = e}
<1>2. CASE s \in Seq(Leftover)
  <2>1. \A i \in DOMAIN s : s[i] \in Leftover
    BY <1>2
  <2>2. I = {}
    BY <2>1 DEF Leftover
  <2> QED
    BY <1>1, <2>2, FS_EmptySet DEF AddedOnce, OnAction
<1>3. CASE ToChange(s)
  <2>1. PICK r \in Seq(Leftover) : s = Append(r, e)
    BY <1>3 DEF ToChange
  <2> HIDE DEF s
  <2>2. Len(r) \in Nat /\ DOMAIN r = 1..Len(r) /\ \A i \in 1..Len(r) : r[i] # e
    BY LenProperties, ElementOfSeq DEF Leftover
  <2>3. r \in Seq(Leftover \cup {e}) /\ e \in Leftover \cup {e}
    BY SeqMonotonic
  <2>4. /\ s \in Seq(Leftover \cup {e}) /\ Len(s) = Len(r) + 1
        /\ (\A i \in 1..Len(r) : s[i] = r[i]) /\ s[Len(r) + 1] = e
    BY <2>1, <2>3, AppendProperties
  <2>5. DOMAIN s = 1..(Len(r) + 1)
    BY <2>4, LenProperties
  <2>6. I = {Len(r) + 1}
    BY <2>2, <2>4, <2>5
  <2>7. Cardinality(I) = 1
    BY <2>6, FS_Singleton
  <2> QED
    BY <1>1, <2>7 DEF AddedOnce, OnAction, s
<1> QED
  BY <1>2, <1>3, PlacedLists

(***************************************************************************)
(* The lock.  Where the main dialog takes a click, each agenda is one of   *)
(* few.                                                                    *)
(***************************************************************************)
LEMMA NotPending ==
  ASSUME NEW op, \A t \in Thread : \E S : todo[t] \in Seq(S) /\ op \notin S
  PROVE  ~Pending(op)
<1> SUFFICES ASSUME NEW t \in Thread, op \in Range(todo[t])
             PROVE  FALSE
  BY DEF Pending
<1>1. PICK S : todo[t] \in Seq(S) /\ op \notin S
  OBVIOUS
<1>2. PICK i \in DOMAIN todo[t] : todo[t][i] = op
  BY DEF Range
<1>3. todo[t][i] \in S
  BY <1>1, <1>2
<1> QED
  BY <1>1, <1>2, <1>3

(* Leftovers do not change the inject method.                              *)
LEMMA NoCleanup ==
  ASSUME list["search"] \in Seq(Leftover)
  PROVE  "onThreadEndForCleanup" \notin Range(list["search"])
<1>1. \A i \in DOMAIN list["search"] : list["search"][i] \in Leftover
  OBVIOUS
<1> QED
  BY <1>1 DEF Range, Leftover

(* What remains of an agenda whose head is done.                           *)
LEMMA Headed ==
  ASSUME NEW A, NEW s \in Seq(A), s # <<>>, NEW S, NEW B, B \subseteq S, Head(s) \in S,
         Tail(s) \in Seq(B)
  PROVE  s \in Seq(S)
<1>1. Len(s) \in Nat /\ Head(s) = s[1]
      /\ Len(Tail(s)) = Len(s) - 1 /\ \A i \in 1..Len(Tail(s)) : Tail(s)[i] = s[i + 1]
  BY HeadTailProperties, LenProperties
<1>2. \A i \in 1..Len(Tail(s)) : Tail(s)[i] \in B
  BY ElementOfSeq
<1>3. ASSUME NEW i \in 1..Len(s) PROVE s[i] \in S
  <2>1. CASE i = 1
    BY <1>1, <2>1
  <2>2. CASE i # 1
    <3>1. i - 1 \in 1..Len(Tail(s)) /\ (i - 1) + 1 = i
      BY <1>1, <2>2
    <3>2. Tail(s)[i - 1] = s[(i - 1) + 1]
      BY <1>1, <3>1
    <3>3. Tail(s)[i - 1] \in B
      BY <1>2, <3>1
    <3> QED
      BY <3>1, <3>2, <3>3
  <2> QED
    BY <2>1, <2>2
<1> QED
  BY <1>3, IsASeq

Clicking == {"Change", "ChangeWait", "DoChange"}

(* No change is in progress when the main dialog takes a click.            *)
LEMMA PlacedChangeLocked ==
  ASSUME Typed, Placed
  PROVE  ChangeLocked
<1> SUFFICES ASSUME front = "main", ~lock, todo["ui"] = <<>>
             PROVE  /\ \A op \in Clicking : ~Pending(op)
                    /\ list["search"] \in Seq(Leftover)
  BY NoCleanup DEF ChangeLocked, Clicking
<1>0. \A S : <<>> \in Seq(S)
  OBVIOUS
<1> DEFINE Fine(t) == \E S : todo[t] \in Seq(S) /\ S \cap Clicking = {}
<1>1. ASSUME \A t \in Thread : Fine(t) PROVE \A op \in Clicking : ~Pending(op)
  <2> TAKE op \in Clicking
  <2>1. \A t \in Thread : \E S : todo[t] \in Seq(S) /\ op \notin S
    BY <1>1
  <2> QED
    BY <2>1, NotPending
<1>2. ASSUME NEW t, todo[t] = <<>> PROVE Fine(t)
  BY <1>0, <1>2
<1>3. ASSUME NEW t, NEW S, S \cap Clicking = {}, todo[t] \in Seq(S) PROVE Fine(t)
  BY <1>3
<1> HIDE DEF Fine
<1>4. CASE Opening
  <2>1. todo["login"] = <<"MainLock", "Start">> /\ list["search"] \in Seq(Leftover)
    BY <1>4 DEF Opening, OnlyLeftovers
  <2>2. /\ todo["login"] \in Seq({"MainLock", "Start"})
        /\ {"MainLock", "Start"} \cap Clicking = {}
    BY <2>1 DEF Clicking
  <2>3. Fine("login")
    BY <1>3, <2>2
  <2>4. \A t \in Thread : t = "login" \/ todo[t] = <<>>
    BY <1>4 DEF Opening, Quiet, Gone, Thread
  <2> QED
    BY <1>1, <1>2, <2>1, <2>3, <2>4
<1>5. CASE Starting
  <2>1. todo["login"] = <<"StartChangeComplete">> /\ list["search"] \in Seq(Leftover)
    BY <1>5 DEF Starting, OnlyLeftovers
  <2>2. /\ todo["login"] \in Seq({"StartChangeComplete"})
        /\ {"StartChangeComplete"} \cap Clicking = {}
    BY <2>1 DEF Clicking
  <2>3. Fine("login")
    BY <1>3, <2>2
  <2>4. \A t \in Thread : t = "login" \/ todo[t] = <<>>
    BY <1>5 DEF Starting, Quiet, Gone, Up, Thread
  <2> QED
    BY <1>1, <1>2, <2>1, <2>3, <2>4
<1>6. CASE Ready
  <2>1. \A t \in Thread : todo[t] = <<>>
    BY <1>6 DEF Ready, Logged, Quiet, Gone, Up, Spent, Thread
  <2>2. list["search"] \in Seq(Leftover)
    BY <1>6 DEF Ready, OnlyLeftovers
  <2> QED
    BY <1>1, <1>2, <2>1, <2>2
<1>7. ASSUME NEW u \in Auths, StopCalled(u)
      PROVE  /\ \A op \in Clicking : ~Pending(op)
             /\ list["search"] \in Seq(Leftover)
  <2>1. todo[u] = <<"OnDisconnect">> /\ list["search"] \in Seq(Leftover)
    BY <1>7 DEF StopCalled, OnlyLeftovers
  <2>2. /\ todo[u] \in Seq({"OnDisconnect"})
        /\ {"OnDisconnect"} \cap Clicking = {}
    BY <2>1 DEF Clicking
  <2>3. Fine(u)
    BY <1>3, <2>2
  <2>4. \A t \in Thread : t = u \/ todo[t] = <<>>
    BY <1>7 DEF StopCalled, Quiet, Gone, Up, Thread
  <2> QED
    BY <1>1, <1>2, <2>1, <2>3, <2>4
<1>8. CASE Out
  <2>1. \A t \in Thread :
          t = "main" \/ t \in OSThread \/ todo[t] = <<>> \/ (t \in Auths /\ Signalled(t))
    BY <1>8, OutThreads
  <2>2. Fine("main")
    <3>1. todo["main"] \in Seq(CleanOp) /\ CleanOp \cap Clicking = {}
      BY <1>8 DEF Out, OutCallers, CleanOp, Clicking
    <3> QED
      BY <1>3, <3>1
  <2>3. ASSUME NEW t \in Auths, Signalled(t) PROVE Fine(t)
    <3> DEFINE S == {"ClosePipe"}
    <3>1. <<>> \in Seq(S) /\ <<"ClosePipe">> \in Seq(S)
      OBVIOUS
    <3>2. S \cap Clicking = {}
      BY DEF Clicking
    <3> HIDE DEF S
    <3>3. todo[t] \in Seq(S)
      BY <2>3, <3>1 DEF Signalled
    <3> QED
      BY <1>3, <3>2, <3>3
  <2>4. ASSUME NEW p \in OSThread PROVE Fine(p)
    <3>1. CASE todo[p] = <<>>
      BY <1>2, <3>1
    <3>2. CASE todo[p] # <<>>
      <4>1. Head(todo[p]) \in EndOp /\ Tail(todo[p]) \in Seq(Leftover)
        BY <1>8, <3>2 DEF Out, Ending
      <4>2. todo[p] \in Seq(Op)
        BY Names DEF Typed, Agendas
      <4>3. Leftover \subseteq EndOp
        BY DEF Leftover, EndOp, StopHandler
      <4>4. todo[p] \in Seq(EndOp)
        BY <3>2, <4>1, <4>2, <4>3, Headed
      <4>5. EndOp \cap Clicking = {}
        BY DEF EndOp, EndHandler, StopHandler, Clicking
      <4> QED
        BY <1>3, <4>4, <4>5
    <3> QED
      BY <3>1, <3>2
  <2>5. list["search"] \in Seq(Leftover)
    BY <1>8 DEF Out, OnlyLeftovers
  <2> QED
    BY <1>1, <1>2, <2>1, <2>2, <2>4, <2>5, <2>3
<1>9. ~Entering /\ ~ChangeAsked /\ ~ChangeWaiting /\ (\A t \in Thread : ~Changed(t))
      /\ \A u \in Auths : ~Stopping(u)
  BY DEF Entering, ChangeAsked, ChangeWaiting, Changed, Locked, Stopping
<1> QED
  BY <1>4, <1>5, <1>6, <1>7, <1>8, <1>9 DEF Placed, Somewhere

-----------------------------------------------------------------------------
(***************************************************************************)
(* Between two sessions no thread of the module is left running; while the *)
(* main dialog takes a click no change is in progress; and no handler of   *)
(* onActionComplete, nor onThreadEndForCleanup, is in its list twice       *)
(* (GameModule.cpp 124-135, Loggedin.cpp 130).                             *)
(***************************************************************************)
THEOREM RestsBetween ==
  ASSUME Pace = "idle"
  PROVE  Spec => []AtRest
<1>1. ASSUME Placed PROVE InitedQuiet
  BY <1>1 DEF Placed, Somewhere, InitedQuiet, Entering, Opening, Starting, Ready, ChangeAsked,
              ChangeWaiting, Changed, Locked, Logged, StopCalled, Stopping, Out
<1>2. Typed /\ Placed => AtRest
  BY <1>1, PlacedChangeLocked, PlacedAddedOnce DEF AtRest
<1> QED
  BY <1>2, StagesKept, PTL

(***************************************************************************)
(* Start finds STATE_INITED and Stop finds STATE_STARTED: the assertions   *)
(* of GameModule.cpp 104 and 138 hold.                                     *)
(***************************************************************************)
THEOREM AssertionsHold ==
  ASSUME Pace = "idle"
  PROVE  Spec => []Assertions
<1>1. Typed /\ Placed => Assertions
  BY PlacedHeeded DEF Heeded, Assertions, StartAssertion, StopAssertion
<1> QED
  BY <1>1, StagesKept, PTL

(***************************************************************************)
(* Run never finds that its object still has a thread, so no Run is lost,  *)
(* and no object gets two (WorkerThread.cpp 9-16, GameModule.cpp 65-67,    *)
(* 118).                                                                   *)
(***************************************************************************)
THEOREM RunsHeeded ==
  ASSUME Pace = "idle"
  PROVE  Spec => []RunHeeded
<1>1. ASSUME Typed, Placed, NEW w \in GameWorker, handle[w] PROVE running[w]
  <2>1. PICK p \in OSThread : at[p] \in InWork /\ job[p] = w
    BY <1>1, Names DEF Typed, Backed, ThreadBacked, GameWorker
  <2> QED
    BY <1>1, <2>1 DEF Placed, Core, Known, Busy
<1>2. Typed /\ Placed => RunHeeded
  BY <1>1, PlacedHeeded DEF Heeded, RunHeeded
<1> QED
  BY <1>2, StagesKept, PTL

(***************************************************************************)
(* No object has two threads in its Work: the thread a Change or a Stop    *)
(* has told to end is gone before Run creates the next (GameModule.cpp     *)
(* 64-67, 118, WorkerThread.cpp 18-27).                                    *)
(***************************************************************************)
THEOREM OneThreadEach ==
  ASSUME Pace = "idle"
  PROVE  Spec => []OneThread
<1>1. Typed /\ Placed => OneThread
  BY DEF Placed, Core
<1> QED
  BY <1>1, StagesKept, PTL

-----------------------------------------------------------------------------
(* What changes the module's state.                                        *)

Turned ==
  \E t \in Thread :
    \/ At(t, "Start") /\ (State = "INITED" => State' = "STARTING")
    \/ At(t, "StartChangeComplete") /\ State' = "STARTED"
    \/ At(t, "Stop") /\ (State = "STARTED" => State' = "STOPPING")
    \/ At(t, "DoStop") /\ State' = "INITED"
    \/ At(t, "DeletePipe") /\ State' = "UNINITED"

(* The operations that assign State.                                       *)
LEMMA StateTurns ==
  ASSUME Next, State' # State
  PROVE  Turned
<1>1. ASSUME NEW t \in Thread, GameStep(t) PROVE Turned
  <2>1. CASE Start(t) \/ Stop(t)
    BY <1>1, <2>1 DEF Start, Stop, Turned
  <2>2. CASE StartChangeComplete(t) \/ DoStop(t)
    BY <1>1, <2>2 DEF StartChangeComplete, DoStop, Turned
  <2>3. CASE Delete(t)
    BY <1>1, <2>3 DEF Delete, Turned
  <2>4. CASE \/ Change(t) \/ ChangeWait(t) \/ SetTo(t) \/ DoChange(t) \/ RunSearch(t)
             \/ CreateSearch(t) \/ SetMethod(t) \/ InvokeAction(t) \/ RunPipe(t)
             \/ CreatePipe(t) \/ StartAdd(t) \/ StopSearch(t) \/ SignalSearch(t)
    BY <2>4 DEF Change, ChangeWait, SetTo, DoChange, RunSearch, CreateSearch, SetMethod,
                InvokeAction, RunPipe, CreatePipe, StartAdd, StopSearch, SignalSearch,
                moduleVars
  <2>5. CASE \/ StopPipe(t) \/ SignalPipe(t) \/ ClosePipe(t) \/ Cleanup(t) \/ CleanupWait(t)
             \/ WaitSearch(t) \/ WaitPipe(t) \/ Join(t)
    BY <2>5 DEF StopPipe, SignalPipe, ClosePipe, Cleanup, CleanupWait, WaitSearch,
                WaitPipe, Join, moduleVars
  <2> QED
    BY <1>1, <2>1, <2>2, <2>3, <2>4, <2>5 DEF GameStep
<1>2. ASSUME NEW t \in Thread, DialogStep(t) PROVE FALSE
  BY <1>2 DEF DialogStep, MainDialog, MainLock, UpdateInjectMethodComplete, OnLogoutComplete,
              OnDisconnect, onLogoutComplete2, onDisconnectComplete, moduleVars
<1>3. ASSUME NEW p \in OSThread, HandlerStep(p) \/ WorkStep(p) \/ GameAct(p) PROVE FALSE
  BY <1>3 DEF HandlerStep, onThreadEndForCleanup, onThreadEndForModuleCleanup,
              ModuleCleanupPipe, WorkStep, SearchWork, PipeWork, ResetTerm, Leave, PipeLoop,
              PipeCreate, PipeListenFails, GameAct, PipeConnect, GameEarly, GameLeaves,
              PipeServed, moduleVars
<1>4. ASSUME User \/ AuthStep \/ WaitClose PROVE FALSE
  BY <1>4 DEF User, Login, CloseLogin, UpdateInjectMethod, Leaving, AuthStep, LoginSucceeds,
              LoginFails, LogoutDone, Disconnected, WaitClose, gameVars, moduleVars
<1> QED
  BY <1>1, <1>2, <1>3, <1>4 DEF Next

(***************************************************************************)
(* The module goes around its states and never jumps: neither the second   *)
(* DoStop of a stop nor a StartChangeComplete that was left behind reaches *)
(* into the next session (GameModule.cpp 98-101, 124-135).                 *)
(***************************************************************************)
THEOREM StatesCycle ==
  ASSUME Pace = "idle"
  PROVE  Spec => StateCycle
<1> DEFINE Cycle ==
      State' \in CASE State = "INITED"   -> {"STARTING", "UNINITED"}
                   [] State = "STARTING" -> {"STARTED"}
                   [] State = "STARTED"  -> {"STOPPING"}
                   [] State = "STOPPING" -> {"INITED"}
                   [] State = "UNINITED" -> {"INITED"}
<1>1. ASSUME Typed, Placed, [Next]_vars PROVE [Cycle]_State
  <2> SUFFICES ASSUME State' # State PROVE Cycle
    OBVIOUS
  <2>1. Next
    BY <1>1 DEF vars, gameVars, moduleVars
  <2>2. Turned
    BY <2>1, StateTurns
  <2>3. State \in StateEnum
    BY <1>1 DEF Typed, GameData, GameTypeOK
  <2> QED
    BY <1>1, <2>2, <2>3, PlacedHeeded DEF Turned, Heeded, StateEnum
<1>2. (Typed /\ Placed) /\ [Next]_vars => [Cycle]_State
  BY <1>1
<1> QED
  BY <1>2, StagesKept, PTL DEF Spec, StateCycle

=============================================================================
