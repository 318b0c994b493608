---------------------------- MODULE WorkerThread ----------------------------
(***************************************************************************)
(* The thread layer of the DreamAuth2 client: class WorkerThread           *)
(* (DreamAuth2/WorkerThread.h, .cpp) and SimpleUI::Delegate, the handler   *)
(* lists through which worker threads report what they have done.          *)
(*                                                                         *)
(* Every piece of client code runs on some thread, and what a thread still *)
(* has to execute is its agenda todo[t]: a sequence of operation names     *)
(* whose head is executed next.  A call prepends the callee's operations,  *)
(* and Delegate::Invoke prepends a copy of the handler list, so handlers   *)
(* run one after the other on the invoking thread, nested calls first.     *)
(***************************************************************************)
EXTENDS Naturals, Sequences, SequencesExt

CONSTANTS
  Worker,    (* WorkerThread objects                                       *)
  OSThread,  (* operating system threads Run can create; bounds the model  *)
  Caller,    (* threads that are no WorkerThread of this model             *)
  Event,     (* delegates other than the workers' onThreadComplete         *)
  Handler,   (* functions that can be added to a delegate                  *)
  Op         (* operations a thread can have on its agenda                 *)

ASSUME ThreadAssumption ==
  /\ OSThread \cap Caller = {}
  /\ Worker # {}
  /\ Worker \cap Event = {}
  /\ Handler \subseteq Op

Thread   == OSThread \cup Caller
Delegate == Worker \cup Event

VARIABLES
  handle,    (* thread_ # NULL, per WorkerThread object                    *)
  running,   (* running_                                                   *)
  term,      (* term_, the stop request each Work polls                    *)
  job,       (* the WorkerThread object an OS thread executes              *)
  at,        (* where an OS thread is in ThreadProc                        *)
  list,      (* handler_list_ of every delegate                            *)
  todo       (* the agenda of every thread                                 *)

workerVars == <<handle, running, term, job, at, list, todo>>

(***************************************************************************)
(* ThreadProc from the first instruction of Work to the return.  "free" is *)
(* a thread that does not exist (yet, or any more); "loop" to "request"    *)
(* are places in the Work of one subclass or another.                      *)
(***************************************************************************)
InWork == {"work", "loop", "create", "listen", "serve", "checked", "request", "left"}
Stage == InWork \cup {"free", "unhandled", "invoke", "callbacks"}

(* The job of an OS thread that does not exist means nothing.              *)
NoJob == CHOOSE w \in Worker : TRUE

ThreadInit ==
  /\ handle  = [w \in Worker |-> FALSE]
  /\ running = [w \in Worker |-> FALSE]
  /\ term    = [w \in Worker |-> FALSE]
  /\ job     = [p \in OSThread |-> NoJob]
  /\ at      = [p \in OSThread |-> "free"]
  /\ list    = [d \in Delegate |-> <<>>]
  /\ todo    = [t \in Thread |-> <<>>]

-----------------------------------------------------------------------------
(* Agendas and delegates.                                                  *)

At(t, op) == todo[t] # <<>> /\ Head(todo[t]) = op

(* The head of t's agenda is done and calls ops.                           *)
Call(t, ops) == todo' = [todo EXCEPT ![t] = ops \o Tail(@)]

Return(t) == Call(t, <<>>)

(* Delegate::Add and Delegate::Remove, which erases the first match only.  *)
AddHandler(d, h)    == list' = [list EXCEPT ![d] = Append(@, h)]
RemoveHandler(d, h) == list' = [list EXCEPT ![d] = RemoveFirst(@, h)]

(* Delegate::Invoke works on a copy: what other threads add or remove      *)
(* while the copy is walked has no effect on this walk.                    *)
Invoke(t, d) == Call(t, list[d])

-----------------------------------------------------------------------------
(***************************************************************************)
(* WorkerThread::Run is a check of thread_ and, as a second step of the    *)
(* same caller, the creation of the OS thread.                             *)
(***************************************************************************)
RunCheck(t, run, w, create) ==
  /\ At(t, run)
  /\ Call(t, IF handle[w] THEN <<>> ELSE <<create>>)
  /\ UNCHANGED <<handle, running, term, job, at, list>>

FreeThread == CHOOSE p \in OSThread : at[p] = "free"

RunCreate(t, create, w) ==
  /\ At(t, create)
  /\ Return(t)
  /\ \E p \in OSThread : at[p] = "free"
  /\ at'  = [at EXCEPT ![FreeThread] = "work"]
  /\ job' = [job EXCEPT ![FreeThread] = w]
  /\ running' = [running EXCEPT ![w] = TRUE]
  /\ handle'  = [handle EXCEPT ![w] = TRUE]
  /\ UNCHANGED <<term, list>>

ForgetHandle(p) ==
  /\ at[p] = "left"
  /\ at' = [at EXCEPT ![p] = "unhandled"]
  /\ UNCHANGED <<handle, running, term, job, list, todo>>

(* ThreadProc after Work: thread_ = NULL, running_ = false, Invoke, exit.  *)
DropHandle(p) ==
  /\ at[p] = "left"
  /\ handle' = [handle EXCEPT ![job[p]] = FALSE]
  /\ at' = [at EXCEPT ![p] = "unhandled"]
  /\ UNCHANGED <<running, term, job, list, todo>>

ClearRunning(p) ==
  /\ at[p] = "unhandled"
  /\ running' = [running EXCEPT ![job[p]] = FALSE]
  /\ at' = [at EXCEPT ![p] = "invoke"]
  /\ UNCHANGED <<handle, term, job, list, todo>>

InvokeComplete(p) ==
  /\ at[p] = "invoke"
  /\ todo' = [todo EXCEPT ![p] = list[job[p]]]
  /\ at' = [at EXCEPT ![p] = "callbacks"]
  /\ UNCHANGED <<handle, running, term, job, list>>

ExitThread(p) ==
  /\ at[p] = "callbacks"
  /\ todo[p] = <<>>
  /\ at' = [at EXCEPT ![p] = "free"]
  /\ job' = [job EXCEPT ![p] = NoJob]
  /\ UNCHANGED <<handle, running, term, list, todo>>

ThreadProc(p) ==
  \/ DropHandle(p) \/ ClearRunning(p) \/ InvokeComplete(p) \/ ExitThread(p)

(***************************************************************************)
(* What WorkerThread::Wait waits for once it has seen a thread_.  The code *)
(* waits for the thread of that handle; this waits for older threads of    *)
(* the object as well, should any still be in their completion handlers.   *)
(* There are none when a client that is at rest is cleaned up, nor ever of *)
(* a ThreadAlive, which is run once.  (The TerminateThread behind the wait *)
(* needs a thread_ that is set again while its caller waits for the object *)
(* it is about to delete.)                                                 *)
(***************************************************************************)
Exited(w) == \A p \in OSThread : at[p] # "free" => job[p] # w

ThreadTypeOK ==
  /\ handle  \in [Worker -> BOOLEAN]
  /\ running \in [Worker -> BOOLEAN]
  /\ term    \in [Worker -> BOOLEAN]
  /\ job     \in [OSThread -> Worker]
  /\ at      \in [OSThread -> Stage]
  /\ list    \in [Delegate -> Seq(Handler)]
  /\ todo    \in [Thread -> Seq(Op)]

(***************************************************************************)
(* thread_ and running_ are never stale: behind a set thread_ there is a   *)
(* thread still in Work, behind running_ one that has yet to               *)
(* invoke onThreadComplete.  Otherwise Run would refuse to start the       *)
(* object for ever, or a caller that saw Running() and left the rest to a  *)
(* completion handler would wait for nobody.                               *)
(***************************************************************************)
ThreadBacked ==
  \A w \in Worker :
    /\ handle[w]  => \E p \in OSThread : at[p] \in InWork /\ job[p] = w
    /\ running[w] => \E p \in OSThread : at[p] \in InWork \cup {"unhandled"} /\ job[p] = w

=============================================================================
