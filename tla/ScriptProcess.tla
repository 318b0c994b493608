--------------------------- MODULE ScriptProcess ---------------------------
(***************************************************************************)
(* DreamWarcraft/ScriptProcess.cpp: the Lua threads of the plugins.  A     *)
(* thread is started for each plugin, script timer and event callback; it  *)
(* runs until it calls Wait, which puts it in a map from wake-up times to  *)
(* lists of threads, and Tick resumes it from there.                       *)
(*                                                                         *)
(* The registry of Lua must hold a reference to each thread that is still  *)
(* to be resumed: the garbage collector frees any other.                   *)
(*                                                                         *)
(* The callbacks of an event are threads that running code, C++ or Lua,    *)
(* starts one after another; which functions they are does not show here.  *)
(* Coroutines that scripts create themselves are not modelled.             *)
(***************************************************************************)
EXTENDS Integers, Sequences, SequencesExt, FiniteSets

CONSTANTS
  Thread,   (* lua_State objects; bounds how many exist at a time          *)
  Length,   (* milliseconds a script passes to Wait, after conversion      *)
  Elapse,   (* milliseconds from one tick to the next                      *)
  Wrap,     (* 2^32                                                        *)
  MaxTime   (* bound: the length of a game                                 *)

(* No game lasts for 2^32 milliseconds.                                    *)
ASSUME ScriptAssumption ==
  /\ Wrap \in Nat /\ MaxTime \in 0..Wrap - 1
  /\ Length \subseteq 0..Wrap - 1
  /\ Elapse \subseteq Nat \ {0}

VARIABLES
  now,      (* TimeRaw(): the time of the last tick                        *)
  status,   (* of each thread; that of one not in use is "free"            *)
  refs,     (* the threads that a registry reference holds                 *)
  thread_ref_map,
  yield_thread_map,  (* the threads that sleep until each time; a time     *)
                     (* without one has no entry in the code               *)
  stack,    (* the threads that run, each started by the one below         *)
  walk,     (* the time Tick is at, or NoTick                              *)
  due       (* history: when a thread is to wake, without the wrap         *)

vars == <<now, status, refs, thread_ref_map, yield_thread_map, stack, walk, due>>

Time == 0..Wrap - 1
NoTick == -1
Ticking == walk # NoTick

(* A thread that has died of an error keeps its reference.                 *)
Status == {"free", "running", "suspended", "dead"}

NoSleepers == [k \in Time |-> <<>>]

Init ==
  /\ now = 0
  /\ status = [t \in Thread |-> "free"]
  /\ refs = {} /\ thread_ref_map = {}
  /\ yield_thread_map = NoSleepers
  /\ stack = <<>>
  /\ walk = NoTick
  /\ due = [t \in Thread |-> 0]

-----------------------------------------------------------------------------
(* What a running thread does.                                             *)

Running(t) == stack # <<>> /\ Last(stack) = t

(* Whether lua_resume, when t stops, returns to Tick or to ThreadExec.     *)
ToTick == Ticking /\ Len(stack) = 1

(* Mutation: Tick leaves the record of the thread it has resumed.          *)
ErasedNot(m) == m

(* Tick erases the record it has resumed, the first of its list, from the  *)
(* lists m.                                                                *)
Erased(m) == IF ToTick THEN [m EXCEPT ![walk] = Tail(@)] ELSE m

(* lua_resume of the running thread t returns, the lists being m.          *)
Returns(t, result, m) ==
  /\ status' = [status EXCEPT ![t] = result]
  /\ stack' = Front(stack)
  /\ yield_thread_map' = Erased(m)
  /\ UNCHANGED <<now, walk>>

(* ThreadExec: from C++ when no thread runs, or from a native function.    *)
ThreadExec(t) ==
  /\ stack # <<>> \/ ~Ticking
  /\ status[t] = "free"
  /\ status' = [status EXCEPT ![t] = "running"]
  /\ refs' = refs \cup {t}
  /\ stack' = Append(stack, t)
  /\ UNCHANGED <<now, thread_ref_map, yield_thread_map, walk, due>>

(* Mutation: the thread is put in at the time of this tick.                *)
KeyNow(length) == now

Key(length) == (now + length) % Wrap

(* The lists after SleepThread.                                            *)
Slept(t, length) == [yield_thread_map EXCEPT ![Key(length)] = Append(@, t)]

(* ThreadExec records the reference of a thread that has yielded.          *)
Recorded(t) == IF ToTick THEN thread_ref_map ELSE thread_ref_map \cup {t}

(* Mutation: the reference is let go of though the thread sleeps.          *)
WaitUnref(t, length) ==
  /\ Running(t)
  /\ Returns(t, "suspended", Slept(t, length))
  /\ thread_ref_map' = Recorded(t)
  /\ due' = [due EXCEPT ![t] = now + length]
  /\ refs' = IF ToTick THEN refs \ {t} ELSE refs

Wait(t, length) ==
  /\ Running(t)
  /\ Returns(t, "suspended", Slept(t, length))
  /\ thread_ref_map' = Recorded(t)
  /\ due' = [due EXCEPT ![t] = now + length]
  /\ UNCHANGED refs

(* Where Lua cannot yield (in the callback of ForGroup, say), Wait raises  *)
(* an error, but only after SleepThread: it ends the thread.  A script      *)
(* that catches it is not modelled.                                        *)
WaitFails(t, length) ==
  /\ Running(t)
  /\ Returns(t, "dead", Slept(t, length))
  /\ due' = [due EXCEPT ![t] = now + length]
  /\ UNCHANGED <<refs, thread_ref_map>>

(* coroutine.yield(): nothing will resume the thread.                      *)
Yield(t) ==
  /\ Running(t)
  /\ Returns(t, "suspended", yield_thread_map)
  /\ thread_ref_map' = Recorded(t)
  /\ UNCHANGED <<refs, due>>

(* The reference is let go of, and the collector may free the thread.      *)
Finish(t) ==
  /\ Running(t)
  /\ Returns(t, "free", yield_thread_map)
  /\ refs' = refs \ {t}
  /\ thread_ref_map' = IF ToTick THEN thread_ref_map \ {t} ELSE thread_ref_map
  /\ UNCHANGED due

Fail(t) ==
  /\ Running(t)
  /\ Returns(t, "dead", yield_thread_map)
  /\ UNCHANGED <<refs, thread_ref_map, due>>

Stop(t) ==
  \/ \E length \in Length : Wait(t, length) \/ WaitFails(t, length)
  \/ Yield(t) \/ Finish(t) \/ Fail(t)

-----------------------------------------------------------------------------
(* GameTime_Update and then Tick, which walks the map from its first key   *)
(* up to the time it is given.                                             *)

(* Mutation: a thread is not woken in the millisecond it waits for.        *)
DueLate(time) == {k \in Time : yield_thread_map[k] # <<>> /\ k < time}

Due(time) == {k \in Time : yield_thread_map[k] # <<>> /\ k <= time}

(* Mutation: the end of the map is taken for a key.                        *)
FirstEnd(keys) == IF keys = {} THEN Wrap ELSE CHOOSE k \in keys : \A j \in keys : k <= j

(* The first of the keys, or the end of the walk.                          *)
First(keys) == IF keys = {} THEN NoTick ELSE CHOOSE k \in keys : \A j \in keys : k <= j

Idle == stack = <<>> /\ ~Ticking

Tick ==
  /\ Idle
  /\ \E d \in Elapse :
       /\ now + d <= MaxTime
       /\ now' = now + d
       /\ walk' = First(Due(now + d))
  /\ UNCHANGED <<status, refs, thread_ref_map, yield_thread_map, stack, due>>

Current == Head(yield_thread_map[walk])
Loops == Ticking /\ stack = <<>> /\ yield_thread_map[walk] # <<>>

TickResumes ==
  /\ Loops
  /\ status[Current] = "suspended"
  /\ status' = [status EXCEPT ![Current] = "running"]
  /\ stack' = <<Current>>
  /\ UNCHANGED <<now, refs, thread_ref_map, yield_thread_map, walk, due>>

(* lua_resume refuses a thread that has died.                              *)
TickRefused ==
  /\ Loops
  /\ status[Current] = "dead"
  /\ yield_thread_map' = [yield_thread_map EXCEPT ![walk] = Tail(@)]
  /\ UNCHANGED <<now, status, refs, thread_ref_map, stack, walk, due>>

TickSteps ==
  /\ Ticking /\ stack = <<>> /\ yield_thread_map[walk] = <<>>
  /\ walk' = First({k \in Due(now) : k > walk})
  /\ UNCHANGED <<now, status, refs, thread_ref_map, yield_thread_map, stack, due>>

(* DreamScript_Cleanup and, in the next game, DreamScript_Init.            *)
NewGame ==
  /\ Idle
  /\ now' = 0
  /\ status' = [t \in Thread |-> "free"]
  /\ refs' = {} /\ thread_ref_map' = {}
  /\ yield_thread_map' = NoSleepers
  /\ due' = [t \in Thread |-> 0]
  /\ UNCHANGED <<stack, walk>>

-----------------------------------------------------------------------------
TickLoop == TickResumes \/ TickRefused \/ TickSteps

Next ==
  \/ \E t \in Thread : ThreadExec(t) \/ Stop(t)
  \/ Tick \/ TickLoop \/ NewGame

Spec == Init /\ [][Next]_vars

(* Tick goes on, and no script runs for ever: one that gets to run again   *)
(* and again ends, fails or waits.                                         *)
FairSpec == Spec /\ WF_vars(TickLoop) /\ \A t \in Thread : SF_vars(Stop(t))

-----------------------------------------------------------------------------
(* Properties.                                                             *)

(* Every variable has its type (ScriptProcess.h 21-25, 52-54).             *)
TypeOK ==
  /\ now \in 0..MaxTime
  /\ status \in [Thread -> Status]
  /\ refs \subseteq Thread /\ thread_ref_map \subseteq Thread
  /\ yield_thread_map \in [Time -> Seq(Thread)]
  /\ stack \in Seq(Thread)
  /\ walk \in Time \cup {NoTick}
  /\ due \in [Thread -> Nat]

(* "if it continues to Sleep, only delete the current record and go on     *)
(* keeping the reference of the thread" (143): whatever a thread that is   *)
(* to be resumed has done before, it has not been freed.  Line 140 finds   *)
(* the reference of the thread that Tick has resumed: an absent entry      *)
(* would make it release reference 0, the free list of the registry.       *)
Referenced ==
  /\ \A k \in Time : Range(yield_thread_map[k]) \subseteq refs
  /\ Ticking /\ stack # <<>> => Head(stack) \in thread_ref_map

(* A thread is in the map once at most, however it came there, and one     *)
(* that sleeps is not running: Tick never resumes a thread for a Wait that *)
(* is over (118-119, 137).                                                 *)
SleepsOnce ==
  \A k \in Time :
    /\ IsInjective(yield_thread_map[k])
    /\ \A j \in Time :
         j # k => Range(yield_thread_map[j]) \cap Range(yield_thread_map[k]) = {}

(* No thread wakes before its time, unless its time is past the wrap       *)
(* (118, 131).                                                             *)
NotEarly ==
  Ticking /\ stack # <<>> => due[Head(stack)] <= now \/ due[Head(stack)] >= Wrap

(* When Tick has returned it has left no thread behind that was due, those *)
(* put to sleep while it walked included (130-156).                        *)
Punctual ==
  [][~Ticking' /\ (Ticking \/ now' # now) =>
       \A k \in Time : \A t \in Range(yield_thread_map'[k]) :
         due'[t] >= Wrap \/ (k = due'[t] /\ k > now')]_vars

(* Threads wake on time.                                                   *)
OnTime == []NotEarly /\ Punctual

(* Tick returns, and with it the game it is a part of, unless scripts go   *)
(* on for ever to wait until a time that it has not passed: "delete the    *)
(* current record in any case, for the time is surely not the same" (148)  *)
(* is not so of a wait of 0 ms, or of one that ends as far past the wrap,  *)
(* which puts the thread in the very list that is being walked (118-119).  *)
WaitsInTick ==
  \E t \in Thread, length \in Length :
    Ticking /\ Wait(t, length) /\ (now + length) % Wrap \in walk..now

TickEnds == []<><<WaitsInTick>>_vars \/ (Ticking ~> ~Ticking)

=============================================================================
