------------------------------- MODULE Timer -------------------------------
(***************************************************************************)
(* DreamWarcraft/Timer.cpp: the timers of the in-game module.  The game    *)
(* calls Timer_Update once per tick (GameEventObserver.cpp 134-138), on    *)
(* the thread that also runs every other piece of client code.  While      *)
(* Timer_Update walks its queue, the callback of an expired timer may      *)
(* create, start, pause and destroy timers, its own included.              *)
(*                                                                         *)
(* Time is a uint32_t number of milliseconds; differences wrap around.     *)
(* Not modelled: resume (nothing calls it), exec_count and the time type   *)
(* (no step of a timer depends on them), and startImmediate and reset as   *)
(* operations of their own: the one is its callback's operations followed  *)
(* by Start, the other is Start.                                           *)
(***************************************************************************)
EXTENDS Integers, Sequences, SequencesExt, FiniteSets

CONSTANTS
  Timers,   (* Timer objects; bounds how many exist at a time              *)
  Kind,     (* the timers clients create: [timeout, periodic, auto]        *)
  Elapse,   (* milliseconds from one tick to the next                      *)
  Wrap      (* 2^32, the number of values of the clock                     *)

ASSUME TimerAssumption ==
  /\ Kind \subseteq [timeout : 0..Wrap - 1, periodic : BOOLEAN, auto : BOOLEAN]
  /\ Elapse \subseteq Nat \ {0}
  /\ Wrap \in Nat \ {0}
  /\ IsFiniteSet(Timers)

(* The history variable turns counts no further: LateBound fails by then.  *)
MaxTurns == Cardinality(Timers) + 1

VARIABLES
  tm,          (* the fields of every Timer object                         *)
  live,        (* the objects that exist and that clients know of          *)
  leaked,      (* objects that nobody can reach any more                   *)
  TimerQueue,  (* the timers Timer_Update updates                          *)
  TaskQueue,   (* started timers that are not in TimerQueue yet            *)
  inGame,      (* IsInGame()                                               *)
  now,         (* TimeRaw()                                                *)
  phase,       (* where Timer_Update is                                    *)
  i,           (* its iterator: the index of a timer in TimerQueue         *)
  clock,       (* history: the time a running timer still has to wait      *)
  turns        (* history: the ticks that have found it waited enough      *)

objects == <<tm, live, leaked>>
queues == <<TimerQueue, TaskQueue>>
history == <<clock, turns>>
vars == <<objects, queues, inGame, now, phase, i, history>>

TimerFields ==
  [timeout : 0..Wrap - 1, remaining : 0..Wrap - 1, last : 0..Wrap - 1,
   periodic : BOOLEAN, auto : BOOLEAN,
   paused : BOOLEAN, disposed : BOOLEAN, added : BOOLEAN]

(* Between ticks; after GameTime_Update, when tick callbacks run; in the   *)
(* loop over TimerQueue; in the callback of the timer at the iterator.     *)
Phase == {"idle", "ticks", "loop", "callback"}

Created(k) ==
  [timeout |-> k.timeout, remaining |-> k.timeout, last |-> 0,
   periodic |-> k.periodic, auto |-> k.auto,
   paused |-> TRUE, disposed |-> FALSE, added |-> FALSE]

(* The fields of an object that does not exist mean nothing.               *)
Blank == Created([timeout |-> 0, periodic |-> FALSE, auto |-> FALSE])

Init ==
  /\ tm = [t \in Timers |-> Blank]
  /\ live = {} /\ leaked = {}
  /\ TimerQueue = <<>> /\ TaskQueue = <<>>
  /\ inGame = FALSE
  /\ now = 0
  /\ phase = "idle" /\ i = 1
  /\ clock = [t \in Timers |-> 0]
  /\ turns = [t \in Timers |-> 0]

-----------------------------------------------------------------------------
(* What client code may do to a timer it has, between ticks, in a tick     *)
(* callback and in the callback of any timer.  Calls that change nothing   *)
(* (starting a destroyed timer) are left out.                              *)
(*                                                                         *)
(* While the game builds its map, before Game_Init, the hooks of units and *)
(* items already create and start timers, all one-shot and of timeout 0    *)
(* (GameEventObserver.cpp 574-578, 621-625).                               *)

ClientRuns == phase \in {"idle", "ticks", "callback"}

(* GetTimer and the constructor (26-29, 106-118).                          *)
New(t, k) ==
  /\ ClientRuns
  /\ inGame \/ (k.timeout = 0 /\ ~k.periodic /\ k.auto)
  /\ t \notin live \cup leaked
  /\ live' = live \cup {t}
  /\ tm' = [tm EXCEPT ![t] = Created(k)]
  /\ UNCHANGED <<leaked, queues, inGame, now, phase, i, history>>

StartStale(t) ==
  /\ ClientRuns
  /\ inGame \/ tm[t].timeout = 0
  /\ t \in live /\ ~tm[t].disposed
  /\ tm' = [tm EXCEPT ![t].remaining = tm[t].timeout,
                      ![t].paused = FALSE, ![t].added = TRUE]
  /\ TaskQueue' = IF tm[t].added THEN TaskQueue ELSE Append(TaskQueue, t)
  /\ clock' = [clock EXCEPT ![t] = tm[t].timeout]
  /\ turns' = [turns EXCEPT ![t] = 0]
  /\ UNCHANGED <<live, leaked, TimerQueue, inGame, now, phase, i>>

StartAgain(t) ==
  /\ ClientRuns
  /\ inGame \/ tm[t].timeout = 0
  /\ t \in live /\ ~tm[t].disposed
  /\ tm' = [tm EXCEPT ![t].remaining = tm[t].timeout, ![t].last = now,
                      ![t].paused = FALSE, ![t].added = TRUE]
  /\ TaskQueue' = IF tm[t].added /\ ~tm[t].paused THEN TaskQueue ELSE Append(TaskQueue, t)
  /\ clock' = [clock EXCEPT ![t] = tm[t].timeout]
  /\ turns' = [turns EXCEPT ![t] = 0]
  /\ UNCHANGED <<live, leaked, TimerQueue, inGame, now, phase, i>>

Start(t) ==
  /\ ClientRuns
  /\ inGame \/ tm[t].timeout = 0
  /\ t \in live /\ ~tm[t].disposed
  /\ tm' = [tm EXCEPT ![t].remaining = tm[t].timeout, ![t].last = now,
                      ![t].paused = FALSE, ![t].added = TRUE]
  /\ TaskQueue' = IF tm[t].added THEN TaskQueue ELSE Append(TaskQueue, t)
  /\ clock' = [clock EXCEPT ![t] = tm[t].timeout]
  /\ turns' = [turns EXCEPT ![t] = 0]
  /\ UNCHANGED <<live, leaked, TimerQueue, inGame, now, phase, i>>

Pause(t) ==
  /\ ClientRuns /\ inGame
  /\ t \in live /\ ~tm[t].paused
  /\ tm' = [tm EXCEPT ![t].paused = TRUE]
  /\ UNCHANGED <<live, leaked, queues, inGame, now, phase, i, history>>

DestroyNow(t) ==
  /\ ClientRuns /\ inGame
  /\ t \in live /\ ~tm[t].disposed
  /\ live' = live \ {t}
  /\ tm' = [tm EXCEPT ![t] = Blank]
  /\ TimerQueue' = RemoveFirst(TimerQueue, t)
  /\ TaskQueue' = RemoveFirst(TaskQueue, t)
  /\ UNCHANGED <<leaked, inGame, now, phase, i, history>>

Destroy(t) ==
  /\ ClientRuns /\ inGame
  /\ t \in live /\ ~tm[t].disposed
  /\ tm' = [tm EXCEPT ![t].disposed = TRUE]
  /\ UNCHANGED <<live, leaked, queues, inGame, now, phase, i, history>>

(* Only the callback of a periodic timer changes its timeout (Packet.cpp   *)
(* 209): the period that follows is the first to have it.                  *)
SetTimeout(t, d) ==
  /\ phase = "callback" /\ TimerQueue[i] = t
  /\ tm[t].periodic
  /\ d # tm[t].timeout
  /\ tm' = [tm EXCEPT ![t].timeout = d]
  /\ UNCHANGED <<live, leaked, queues, inGame, now, phase, i, history>>

-----------------------------------------------------------------------------
(* A tick: GameTime_Update, tick callbacks, DoUpdateTasks, the loop.       *)

Running(t) == t \in live /\ ~tm[t].paused /\ ~tm[t].disposed

Monus(a, b) == IF b > a THEN 0 ELSE a - b

Tick ==
  /\ inGame /\ phase = "idle"
  /\ \E d \in Elapse :
       /\ now' = (now + d) % Wrap
       /\ clock' = [t \in Timers |-> IF Running(t) THEN Monus(clock[t], d) ELSE clock[t]]
       /\ turns' = [t \in Timers |->
                      IF Running(t) /\ clock[t] <= d /\ turns[t] < MaxTurns
                      THEN turns[t] + 1 ELSE turns[t]]
  /\ phase' = "ticks"
  /\ UNCHANGED <<objects, queues, inGame, i>>

DoUpdateTasksFront ==
  /\ phase = "ticks"
  /\ TimerQueue' = TaskQueue \o TimerQueue
  /\ TaskQueue' = <<>>
  /\ phase' = "loop" /\ i' = 1
  /\ UNCHANGED <<objects, inGame, now, history>>

DoUpdateTasks ==
  /\ phase = "ticks"
  /\ TimerQueue' = TimerQueue \o TaskQueue
  /\ TaskQueue' = <<>>
  /\ phase' = "loop" /\ i' = 1
  /\ UNCHANGED <<objects, inGame, now, history>>

Looping == phase = "loop" /\ i <= Len(TimerQueue)

(* delete timer; i = TimerQueue.erase(i)                                   *)
Delete(t) ==
  /\ live' = live \ {t}
  /\ tm' = [tm EXCEPT ![t] = Blank]
  /\ TimerQueue' = RemoveAt(TimerQueue, i)
  /\ clock' = [clock EXCEPT ![t] = 0]
  /\ turns' = [turns EXCEPT ![t] = 0]

DeleteDisposedSteps ==
  /\ Looping
  /\ tm[TimerQueue[i]].disposed
  /\ Delete(TimerQueue[i])
  /\ i' = i + 1
  /\ UNCHANGED <<leaked, TaskQueue, inGame, now, phase>>

DeleteDisposed ==
  /\ Looping
  /\ tm[TimerQueue[i]].disposed
  /\ Delete(TimerQueue[i])
  /\ UNCHANGED <<leaked, TaskQueue, inGame, now, phase, i>>

(* Timer::update of a paused timer.                                        *)
UpdatePaused ==
  /\ Looping
  /\ LET t == TimerQueue[i]
     IN /\ ~tm[t].disposed /\ tm[t].paused
        /\ tm' = [tm EXCEPT ![t].last = now]
  /\ i' = i + 1
  /\ UNCHANGED <<live, leaked, queues, inGame, now, phase, history>>

(* Timer::update of a running one.                                         *)
Remaining(t) == Monus(tm[t].remaining, (now - tm[t].last) % Wrap)

Wait ==
  /\ Looping
  /\ LET t == TimerQueue[i]
     IN /\ Running(t) /\ Remaining(t) > 0
        /\ tm' = [tm EXCEPT ![t].remaining = Remaining(t), ![t].last = now]
  /\ i' = i + 1
  /\ UNCHANGED <<live, leaked, queues, inGame, now, phase, history>>

Expire ==
  /\ Looping
  /\ LET t == TimerQueue[i]
     IN /\ Running(t) /\ Remaining(t) = 0
        /\ tm' = [tm EXCEPT ![t].remaining = 0, ![t].last = now, ![t].paused = TRUE]
  /\ phase' = "callback"
  /\ UNCHANGED <<live, leaked, queues, inGame, now, i, history>>

(***************************************************************************)
(* update after callback_(this), and the loop's reaction to its result.    *)
(* A periodic timer is started again, whatever its callback did to it.  An *)
(* expired timer that is disposed is deleted, and Timer_Update returns:    *)
(* the timers behind it are not updated in this tick.                      *)
(***************************************************************************)
Current == TimerQueue[i]

Restarts == tm[Current].periodic /\ ~tm[Current].disposed
Disposes == tm[Current].disposed \/ (~tm[Current].periodic /\ tm[Current].auto)

CallbackRestarts ==
  /\ phase = "callback" /\ Restarts
  /\ tm' = [tm EXCEPT ![Current].remaining = tm[Current].timeout,
                      ![Current].last = now, ![Current].paused = FALSE]
  /\ clock' = [clock EXCEPT ![Current] = tm[Current].timeout]
  /\ turns' = [turns EXCEPT ![Current] = 0]
  /\ phase' = "loop" /\ i' = i + 1
  /\ UNCHANGED <<live, leaked, queues, inGame, now>>

CallbackDeletes ==
  /\ phase = "callback" /\ ~Restarts
  /\ Disposes /\ tm[Current].remaining = 0
  /\ Delete(Current)
  /\ phase' = "idle" /\ i' = 1
  /\ UNCHANGED <<leaked, TaskQueue, inGame, now>>

CallbackReturns ==
  /\ phase = "callback" /\ ~Restarts
  /\ ~(Disposes /\ tm[Current].remaining = 0)
  /\ tm' = [tm EXCEPT ![Current].disposed = Disposes]
  /\ phase' = "loop" /\ i' = i + 1
  /\ UNCHANGED <<live, leaked, queues, inGame, now, history>>

LoopEnds ==
  /\ phase = "loop" /\ i > Len(TimerQueue)
  /\ phase' = "idle" /\ i' = 1
  /\ UNCHANGED <<objects, queues, inGame, now, history>>

-----------------------------------------------------------------------------
(* Game_Init and Game_Cleanup.  Timer_Cleanup deletes the timers of        *)
(* TimerQueue only; those of TaskQueue and those never started leak, their *)
(* clients being cleaned up too.                                           *)

Game_Init ==
  /\ ~inGame /\ phase = "idle"
  /\ inGame' = TRUE
  /\ now' = 0
  /\ UNCHANGED <<objects, queues, phase, i, history>>

Game_Cleanup ==
  /\ inGame /\ phase = "idle"
  /\ inGame' = FALSE
  /\ leaked' = leaked \cup (live \ Range(TimerQueue))
  /\ live' = {}
  /\ tm' = [t \in Timers |-> Blank]
  /\ TimerQueue' = <<>> /\ TaskQueue' = <<>>
  /\ clock' = [t \in Timers |-> 0]
  /\ turns' = [t \in Timers |-> 0]
  /\ UNCHANGED <<now, phase, i>>

-----------------------------------------------------------------------------
Client ==
  \E t \in Timers :
    \/ \E k \in Kind : New(t, k) \/ SetTimeout(t, k.timeout)
    \/ Start(t) \/ Pause(t) \/ Destroy(t)

Timer_Update ==
  \/ DoUpdateTasks
  \/ DeleteDisposed \/ UpdatePaused \/ Wait \/ Expire
  \/ CallbackRestarts \/ CallbackDeletes \/ CallbackReturns
  \/ LoopEnds

Next == Client \/ Tick \/ Timer_Update \/ Game_Init \/ Game_Cleanup

Spec == Init /\ [][Next]_vars

(* The game ticks as long as it lasts, and callbacks return.               *)
FairSpec == Spec /\ WF_vars(Tick) /\ WF_vars(Timer_Update)

-----------------------------------------------------------------------------
TypeOK ==
  /\ tm \in [Timers -> TimerFields]
  /\ live \subseteq Timers /\ leaked \subseteq Timers
  /\ TimerQueue \in Seq(Timers) /\ TaskQueue \in Seq(Timers)
  /\ inGame \in BOOLEAN
  /\ now \in 0..Wrap - 1
  /\ phase \in Phase
  /\ i \in 1..Len(TimerQueue) + 1
  /\ clock \in [Timers -> 0..Wrap - 1]
  /\ turns \in [Timers -> 0..MaxTurns]

(***************************************************************************)
(* The queues hold each timer that has been started, once, and nothing     *)
(* that has been deleted: a timer in twice would be deleted twice, one     *)
(* deleted and still in is updated after its deletion, and a running timer *)
(* in neither would never expire.                                          *)
(***************************************************************************)
QueuedOnce ==
  LET all == TimerQueue \o TaskQueue
  IN /\ IsInjective(all)
     /\ Range(all) = {t \in live : tm[t].added}

(* The timer whose callback is running is the one update will dispose of,  *)
(* restart or step over, whatever the callback does (Timer.cpp 147-160).   *)
CallbackHoldsIts ==
  phase = "callback" => i <= Len(TimerQueue) /\ TimerQueue[i] \in live

(* Skipped ticks and a wrapping clock do not distort the time: what a      *)
(* running timer has left is what update would compute now (140-142), so   *)
(* no timer expires before it has waited its timeout.                      *)
Exact == \A t \in live : Running(t) => clock[t] = Remaining(t)

(***************************************************************************)
(* A due timer is passed over at most once for every timer in front of it: *)
(* Timer_Update returns after deleting one, and a deleted timer does not   *)
(* come back in front.  So a due timer does get its turn.                  *)
(***************************************************************************)
LateBound ==
  \A n \in DOMAIN TimerQueue :
    Running(TimerQueue[n]) => turns[TimerQueue[n]] + n <= MaxTurns

(* Destroyed timers that have been started are deleted, not just ignored.  *)
Doomed(t) == t \in live /\ tm[t].disposed /\ tm[t].added
DestroyedDeleted == \A t \in Timers : Doomed(t) ~> ~Doomed(t)

=============================================================================
