-------------------------- MODULE EventDispatcher --------------------------
(***************************************************************************)
(* DreamWarcraft/EventDispatcher.cpp: the dispatcher of the in-game events *)
(* (keys, packets, units, chat).  All of it runs on the game's thread, but *)
(* a subscriber or a listener may do what raises further events, so that   *)
(* several dispatches are on the stack at once; the discard flag, the      *)
(* current event and the level are shared by all of them.                  *)
(*                                                                         *)
(* Nearly every event is a static object (Input.cpp, Packet.cpp,           *)
(* UnitEvent.cpp) that is filled in again each time it is dispatched.      *)
(***************************************************************************)
EXTENDS Integers, Sequences, FiniteSets

CONSTANTS
  EventObject,    (* Event objects                                         *)
  NoEvent,        (* whatever current_event_ holds before the first        *)
                  (* dispatch of a game: the constructor does not set it   *)
  EventId,        (* the ids they are given                                *)
  Listener,       (* callbacks                                             *)
  MaxSubscriber,  (* EVENTDISPATCHER_MAX_SUBSCRIBER                        *)
  MaxLevel,       (* MAX_DISPATCH_RECURSIVE_LEVEL                          *)
  Wrap,           (* 2^32, the number of values of DispatchedLevel         *)
  MaxDepth,       (* bound: dispatches on the stack                        *)
  MaxListens      (* bound: calls of listen for an event id in a game      *)

(* The stack of the thread is far too small for a dispatch for each value  *)
(* of a uint32_t.                                                          *)
ASSUME DispatcherAssumption ==
  /\ NoEvent \notin EventObject
  /\ MaxSubscriber \in Nat
  /\ MaxLevel \in Nat \ {0}
  /\ Wrap \in Nat
  /\ MaxDepth \in Nat
  /\ MaxListens \in Nat
  /\ MaxLevel + MaxDepth < Wrap

VARIABLES
  map,           (* map_: the listeners of each event id, in order         *)
  tasks,         (* tasks_: what listen has queued.  The code has one deque *)
                 (* for all ids; the order of two ids in it never shows    *)
  subscribers,   (* subscriber_count_                                      *)
  current,       (* current_event_                                         *)
  CurrentEventDiscarded,
  DispatchedLevel,
  id,            (* the id of each Event object                            *)
  stack,         (* the dispatches that have not returned, the last on top *)
  heard,         (* history: what listen was called with in this game      *)
  base           (* history: the loops on the stack when the limit was     *)
                 (* last reached, 0 before                                 *)

registry == <<map, tasks, subscribers, heard>>
vars == <<registry, current, CurrentEventDiscarded, DispatchedLevel, id, stack, base>>

(* A dispatch walks the subscribers, then the listeners of evtid; i is the *)
(* next one, or, if calls, the one that executes.  History: called are the *)
(* listeners this dispatch has called; discarded and raised tell that one  *)
(* of its callbacks has discarded the event or raised another.             *)
Frame ==
  [evt : EventObject, evtid : EventId, stage : {"subscribers", "listeners"},
   i : Nat \ {0}, calls : BOOLEAN,
   called : Seq(Listener), discarded : BOOLEAN, raised : BOOLEAN]

Depth == Len(stack)
Top == stack[Depth]

(* Code outside the dispatcher runs, at the bottom or in a callback.       *)
CodeRuns == stack # <<>> => Top.calls

(* dispatch itself runs, in the given stage.                               *)
Runs(stage) == stack # <<>> /\ ~Top.calls /\ Top.stage = stage

(* The dispatch on top goes on as f, or returns.                           *)
Becomes(f) == stack' = [stack EXCEPT ![Depth] = f]
Return == stack' = SubSeq(stack, 1, Depth - 1)

(* The dispatches that are in the loop over the listeners.                 *)
Loops(s) == {n \in 1..Len(s) : s[n].stage = "listeners"}
Looping == Cardinality(Loops(stack))

NoListeners == [e \in EventId |-> <<>>]

Init ==
  /\ map = NoListeners /\ tasks = NoListeners /\ heard = NoListeners
  /\ subscribers = 0
  /\ current = NoEvent
  /\ CurrentEventDiscarded = FALSE
  /\ DispatchedLevel = 0
  /\ id \in [EventObject -> EventId]
  /\ stack = <<>>
  /\ base = 0

-----------------------------------------------------------------------------
(* What the code outside the dispatcher does.                              *)

listen(e, l) ==
  /\ CodeRuns
  /\ Len(heard[e]) < MaxListens
  /\ tasks' = [tasks EXCEPT ![e] = Append(@, l)]
  /\ heard' = [heard EXCEPT ![e] = Append(@, l)]
  /\ UNCHANGED <<map, subscribers, current, CurrentEventDiscarded, DispatchedLevel, id, stack, base>>

(* Mutation: one more than the array holds is let in.                      *)
subscribeOver ==
  /\ CodeRuns
  /\ subscribers <= MaxSubscriber
  /\ subscribers' = subscribers + 1
  /\ UNCHANGED <<map, tasks, heard, current, CurrentEventDiscarded, DispatchedLevel, id, stack, base>>

subscribe ==
  /\ CodeRuns
  /\ subscribers < MaxSubscriber
  /\ subscribers' = subscribers + 1
  /\ UNCHANGED <<map, tasks, heard, current, CurrentEventDiscarded, DispatchedLevel, id, stack, base>>

DiscardCurrentEvent ==
  /\ stack # <<>> /\ Top.calls
  /\ CurrentEventDiscarded' = TRUE
  /\ Becomes([Top EXCEPT !.discarded = TRUE])
  /\ UNCHANGED <<registry, current, DispatchedLevel, id, base>>

(* The stack once the running callback, if any, has raised an event.       *)
Raised == IF stack = <<>> THEN stack ELSE [stack EXCEPT ![Depth] = [Top EXCEPT !.raised = TRUE]]

AtLimit == DispatchedLevel >= MaxLevel

(* Mutation: the level steps back by one.                                  *)
ResetLevelBack == DispatchedLevel' = DispatchedLevel - 1 /\ base' = Looping

ResetLevel == DispatchedLevel' = 0 /\ base' = Looping

(* Every event is given its id (setId) and dispatched.  At the limit it is *)
(* dropped and the level reset, though no dispatch has returned.           *)
DispatchDropped(o, e) ==
  /\ CodeRuns
  /\ AtLimit
  /\ id' = [id EXCEPT ![o] = e]
  /\ ResetLevel
  /\ stack' = Raised
  /\ UNCHANGED <<registry, current, CurrentEventDiscarded>>

(* Mutation: the flag is left as the event before it has left it.          *)
EnterStale(o) == UNCHANGED CurrentEventDiscarded /\ current' = o

Enter(o) == CurrentEventDiscarded' = FALSE /\ current' = o

DispatchEvent(o, e) ==
  /\ CodeRuns
  /\ ~AtLimit
  /\ Depth < MaxDepth
  /\ id' = [id EXCEPT ![o] = e]
  /\ Enter(o)
  /\ stack' = Append(Raised,
       [evt |-> o, evtid |-> e, stage |-> "subscribers", i |-> 1,
        calls |-> FALSE, called |-> <<>>, discarded |-> FALSE, raised |-> FALSE])
  /\ UNCHANGED <<registry, DispatchedLevel, base>>

-----------------------------------------------------------------------------
(* The rest of dispatch.                                                   *)

Call(f) ==
  /\ Becomes([f EXCEPT !.calls = TRUE])
  /\ UNCHANGED <<registry, current, CurrentEventDiscarded, DispatchedLevel, id, base>>

CallSubscriber == Runs("subscribers") /\ Top.i <= subscribers /\ Call(Top)

CallbackReturns ==
  /\ stack # <<>> /\ Top.calls
  /\ Becomes([Top EXCEPT !.calls = FALSE, !.i = @ + 1])
  /\ UNCHANGED <<registry, current, CurrentEventDiscarded, DispatchedLevel, id, base>>

(* Mutation: the new listeners go in front.                                *)
performTasksFront ==
  map' = [e \in EventId |-> tasks[e] \o map[e]] /\ tasks' = NoListeners

performTasks ==
  map' = [e \in EventId |-> map[e] \o tasks[e]] /\ tasks' = NoListeners

(* performTasks, then the look-up of the listeners by the id that the      *)
(* event has now.  An id without a listener has no entry in map_.          *)
FindListeners ==
  /\ Runs("subscribers") /\ Top.i > subscribers
  /\ performTasks
  /\ \/ /\ map'[id[Top.evt]] # <<>>
        /\ DispatchedLevel' = (DispatchedLevel + 1) % Wrap
        /\ Becomes([Top EXCEPT !.stage = "listeners", !.i = 1, !.evtid = id[Top.evt]])
     \/ map'[id[Top.evt]] = <<>> /\ Return /\ UNCHANGED DispatchedLevel
  /\ UNCHANGED <<subscribers, heard, current, CurrentEventDiscarded, id, base>>

(* The loop stops at a discarded event and at the end of the queue, which  *)
(* it reads anew each time.  A nested performTasks may have lengthened the *)
(* queue: the iterator of the release build is an offset and goes on.      *)
LoopEnds == CurrentEventDiscarded \/ Top.i > Len(map[Top.evtid])

CallListener ==
  /\ Runs("listeners") /\ ~LoopEnds
  /\ Call([Top EXCEPT !.called = Append(@, map[Top.evtid][Top.i])])

(* Mutation: a discarded event returns before the level is counted down.   *)
DispatchReturnsEarly ==
  /\ Runs("listeners") /\ LoopEnds
  /\ DispatchedLevel' =
       IF CurrentEventDiscarded THEN DispatchedLevel ELSE (DispatchedLevel - 1) % Wrap
  /\ Return
  /\ UNCHANGED <<registry, current, CurrentEventDiscarded, id, base>>

DispatchReturns ==
  /\ Runs("listeners") /\ LoopEnds
  /\ DispatchedLevel' = (DispatchedLevel - 1) % Wrap
  /\ Return
  /\ UNCHANGED <<registry, current, CurrentEventDiscarded, id, base>>

(* The end of a game and the beginning of the next: Game::~Game deletes    *)
(* the dispatcher and Game::Game creates another.  The static variables    *)
(* keep their values.                                                      *)
NewGame ==
  /\ stack = <<>>
  /\ map' = NoListeners /\ tasks' = NoListeners /\ heard' = NoListeners
  /\ subscribers' = 0
  /\ current' = NoEvent
  /\ UNCHANGED <<CurrentEventDiscarded, DispatchedLevel, id, stack, base>>

-----------------------------------------------------------------------------
Code ==
  \/ \E e \in EventId, l \in Listener : listen(e, l)
  \/ subscribe
  \/ DiscardCurrentEvent
  \/ \E o \in EventObject, e \in EventId : DispatchDropped(o, e) \/ DispatchEvent(o, e)

Dispatch ==
  CallSubscriber \/ CallbackReturns \/ FindListeners \/ CallListener \/ DispatchReturns

Next == Code \/ Dispatch \/ NewGame

Spec == Init /\ [][Next]_vars

-----------------------------------------------------------------------------
(* Properties.                                                             *)

(* Every variable has its type (EventDispatcher.h 35-42, .cpp 6 and 16).   *)
TypeOK ==
  /\ map \in [EventId -> Seq(Listener)]
  /\ tasks \in [EventId -> Seq(Listener)]
  /\ subscribers \in 0..MaxSubscriber
  /\ current \in EventObject \cup {NoEvent}
  /\ CurrentEventDiscarded \in BOOLEAN
  /\ DispatchedLevel \in 0..Wrap - 1
  /\ id \in [EventObject -> EventId]
  /\ stack \in Seq(Frame) /\ Depth <= MaxDepth
  /\ heard \in [EventId -> Seq(Listener)]
  /\ base \in 0..MaxDepth

(* Whatever the dispatches on the stack, a listener passed to listen is    *)
(* registered or queued, once, behind those passed before it (54, 67).     *)
InOrder == \A e \in EventId : map[e] \o tasks[e] = heard[e]

(* Each dispatch calls the listeners of its id in the order in which they  *)
(* were passed to listen and none of them twice, even when a dispatch that *)
(* is nested in its loop has lengthened the queue it walks (46, 70).       *)
Calls(f) ==
  f.stage = "listeners" =>
    /\ Len(f.called) = IF f.calls THEN f.i ELSE f.i - 1
    /\ Len(f.called) <= Len(heard[f.evtid])
    /\ \A k \in 1..Len(f.called) : f.called[k] = heard[f.evtid][k]

(* Listeners are registered, and called, in order.                         *)
Registered == InOrder /\ \A n \in 1..Depth : Calls(stack[n])

(* While no callback of the dispatch on top has raised another event, the  *)
(* flag that stops its loop and that dispatch returns (46, 51) says        *)
(* whether one of these callbacks has discarded the event.                 *)
DiscardIsOwn == stack # <<>> /\ ~Top.raised => CurrentEventDiscarded = Top.discarded

(* Under the same condition, currentEvent gives a callback the event it is *)
(* called for, and a listener is called with an event of the id it listens *)
(* to: the static objects are filled in anew (63, 42-47).                  *)
EventIsOwn ==
  stack # <<>> /\ ~Top.raised => current = Top.evt /\ id[Top.evt] = Top.evtid

(* The flag and the current event are the ones of the dispatch on top.     *)
OwnState == DiscardIsOwn /\ EventIsOwn

(* The level counts the loops begun since the limit was last reached, less *)
(* those ended: the loops on the stack at that moment are not in it but    *)
(* are subtracted from it when they end (21, 45, 49).                      *)
LevelCounts == DispatchedLevel = (Looping - base) % Wrap

(* With nothing on the stack, the level is 0 or beyond the limit.  Between *)
(* two events it never creeps up to the limit, and if it has wrapped, the  *)
(* next dispatch puts it right, at the cost of its event (20, 21).         *)
IdleLevel == stack = <<>> => DispatchedLevel = 0 \/ AtLimit

(* No event is dropped before the limit has been reached by as many loops  *)
(* on the stack (20).                                                      *)
DroppedAtLimit == AtLimit /\ base = 0 => Looping >= MaxLevel

(* However deep the dispatches that are over have been, the level does not *)
(* leak towards the limit.                                                 *)
LevelHeld == IdleLevel /\ DroppedAtLimit

=============================================================================
