---------------------- MODULE EventDispatcher_proofs -----------------------
(***************************************************************************)
(* Proofs about the event dispatcher, for every number of events, ids,     *)
(* listeners and subscribers, every limit and every depth of the stack     *)
(* that is small next to 2^32.                                             *)
(***************************************************************************)
EXTENDS EventDispatcher, FiniteSetTheorems, SequenceTheorems, TLAPS

(* A difference of less than Wrap, modulo Wrap.                            *)
LEMMA ModSmall ==
  ASSUME NEW W \in Nat, W > 0, NEW x \in Int
  PROVE  /\ x % W \in 0..W - 1
         /\ 0 <= x /\ x < W => x % W = x
         /\ -W <= x /\ x < 0 => x % W = x + W
<1>1. x % W \in 0..W - 1
  OBVIOUS
<1>2. ASSUME 0 <= x, x < W PROVE x % W = x
  BY <1>2
<1>3. ASSUME -W <= x, x < 0 PROVE x % W = x + W
  BY <1>3
<1>4. QED
  BY <1>1, <1>2, <1>3

(* The level counts up and down modulo Wrap.                               *)
LEMMA ModSteps ==
  ASSUME NEW W \in Nat, W > 0, NEW x \in Int, -W < x, x + 1 < W
  PROVE  /\ ((x % W) + 1) % W = (x + 1) % W
         /\ (((x + 1) % W) - 1) % W = x % W
<1>1. CASE x >= 0
  <2>1. x % W = x /\ (x + 1) % W = x + 1
    BY <1>1, ModSmall
  <2>2. QED
    BY <2>1
<1>2. CASE x = -1
  <2>1. x % W = W - 1 /\ (x + 1) % W = 0
    BY <1>2, ModSmall
  <2>2. W % W = 0
    OBVIOUS
  <2>3. (0 - 1) % W = W - 1
    BY ModSmall
  <2>4. QED
    BY <1>2, <2>1, <2>2, <2>3
<1>3. CASE x < -1
  <2>1. x % W = x + W /\ (x + 1) % W = x + 1 + W
    BY <1>3, ModSmall
  <2>2. (x + W + 1) % W = x + 1 + W /\ (x + W) % W = x + W
    BY <1>3, ModSmall
  <2>3. QED
    BY <2>1, <2>2
<1>4. QED
  BY <1>1, <1>2, <1>3

-----------------------------------------------------------------------------
(* What the changes of the stack do to its frames and to its loops.        *)

LEMMA LoopsFinite ==
  ASSUME NEW s \in Seq(Frame)
  PROVE  /\ IsFiniteSet(Loops(s))
         /\ Cardinality(Loops(s)) \in 0..Len(s)
<1>1. Len(s) \in Nat /\ Loops(s) \subseteq 1..Len(s)
  BY DEF Loops
<1>2. IsFiniteSet(1..Len(s)) /\ Cardinality(1..Len(s)) = Len(s)
  <2>1. 1 \in Int /\ Len(s) \in Int
    BY <1>1
  <2>2. /\ IsFiniteSet(1..Len(s))
        /\ Cardinality(1..Len(s)) = IF 1 > Len(s) THEN 0 ELSE Len(s) - 1 + 1
    BY ONLY <2>1, FS_Interval
  <2>3. QED
    BY <1>1, <2>2
<1>3. IsFiniteSet(Loops(s)) /\ Cardinality(Loops(s)) <= Len(s)
  BY <1>1, <1>2, FS_Subset
<1>4. QED
  BY <1>1, <1>3, FS_CardinalityType

(* The stack s with another frame on top: a loop more when it begins one.  *)
WithTop(s, f) == [s EXCEPT ![Len(s)] = f]

LEMMA Replaced ==
  ASSUME NEW s \in Seq(Frame), s # <<>>, NEW f \in Frame
  PROVE  LET r == WithTop(s, f) IN
         /\ r \in Seq(Frame)
         /\ Len(r) = Len(s) /\ Len(s) \in Nat \ {0}
         /\ r[Len(s)] = f
         /\ \A n \in 1..Len(s) : n # Len(s) => r[n] = s[n]
         /\ f.stage = s[Len(s)].stage => Loops(r) = Loops(s)
         /\ f.stage = "listeners" /\ s[Len(s)].stage = "subscribers"
              => Cardinality(Loops(r)) = Cardinality(Loops(s)) + 1
<1> DEFINE r == WithTop(s, f)
<1>1. Len(s) \in Nat \ {0} /\ Len(s) \in 1..Len(s)
  BY EmptySeq
<1>2. /\ r \in Seq(Frame) /\ Len(r) = Len(s)
      /\ \A n \in 1..Len(s) : r[n] = IF n = Len(s) THEN f ELSE s[n]
  BY <1>1, ExceptSeq DEF WithTop
<1> HIDE DEF r
<1>3. ASSUME f.stage = s[Len(s)].stage PROVE Loops(r) = Loops(s)
  BY <1>2, <1>3 DEF Loops
<1>4. ASSUME f.stage = "listeners", s[Len(s)].stage = "subscribers"
      PROVE  Cardinality(Loops(r)) = Cardinality(Loops(s)) + 1
  <2>1. Loops(r) = Loops(s) \cup {Len(s)} /\ Len(s) \notin Loops(s)
    BY <1>1, <1>2, <1>4 DEF Loops
  <2>2. QED
    BY <2>1, LoopsFinite, FS_AddElement
<1>5. QED
  BY <1>1, <1>2, <1>3, <1>4 DEF r

(* The top frame is removed: a loop less when it was in one.               *)
LEMMA Removed ==
  ASSUME NEW s \in Seq(Frame), s # <<>>, NEW r, r = SubSeq(s, 1, Len(s) - 1)
  PROVE  /\ r \in Seq(Frame)
         /\ Len(r) = Len(s) - 1
         /\ \A n \in 1..Len(r) : r[n] = s[n] /\ n \in 1..Len(s) - 1
         /\ s[Len(s)].stage = "subscribers" => Loops(r) = Loops(s)
         /\ s[Len(s)].stage = "listeners"
              => Cardinality(Loops(r)) = Cardinality(Loops(s)) - 1
<1>1. Len(s) \in Nat \ {0} /\ Len(s) \in 1..Len(s)
  BY EmptySeq
<1>2. \A n \in 1..Len(s) : s[n] \in Frame
  BY ElementOfSeq
<1>3. /\ r \in Seq(Frame)
      /\ Len(r) = IF 1 <= Len(s) - 1 THEN Len(s) - 1 - 1 + 1 ELSE 0
      /\ \A n \in 1..Len(s) - 1 - 1 + 1 : r[n] = s[1 + n - 1]
  <2>1. \A n \in 1..Len(s) - 1 : s[n] \in Frame
    BY <1>1, <1>2
  <2>2. Len(s) - 1 \in Int
    BY <1>1
  <2>3. QED
    BY <2>1, <2>2, SubSeqProperties
<1>4. Len(r) = Len(s) - 1 /\ \A n \in 1..Len(s) - 1 : r[n] = s[n]
  <2>1. Len(r) = Len(s) - 1
    <3>1. Len(r) = IF 1 <= Len(s) - 1 THEN Len(s) - 1 - 1 + 1 ELSE 0
      BY <1>3
    <3>2. \A k \in Nat \ {0} : (IF 1 <= k - 1 THEN k - 1 - 1 + 1 ELSE 0) = k - 1
      OBVIOUS
    <3>3. QED
      BY ONLY <1>1, <3>1, <3>2
  <2>2. ASSUME NEW n \in 1..Len(s) - 1 PROVE r[n] = s[n]
    <3>1. n \in 1..Len(s) - 1 - 1 + 1 /\ 1 + n - 1 = n
      BY <1>1
    <3>2. QED
      BY <1>3, <3>1
  <2>3. QED
    BY <2>1, <2>2
<1>5. Loops(r) = Loops(s) \ {Len(s)}
  BY <1>1, <1>4 DEF Loops
<1>6. ASSUME s[Len(s)].stage = "subscribers" PROVE Loops(r) = Loops(s)
  BY <1>5, <1>6 DEF Loops
<1>7. ASSUME s[Len(s)].stage = "listeners"
      PROVE  Cardinality(Loops(r)) = Cardinality(Loops(s)) - 1
  <2>1. Len(s) \in Loops(s)
    BY <1>1, <1>7 DEF Loops
  <2>2. QED
    BY <1>5, <2>1, LoopsFinite, FS_RemoveElement
<1>8. QED
  BY <1>3, <1>4, <1>6, <1>7

(* A frame that walks the subscribers is put on top.                       *)
LEMMA Pushed ==
  ASSUME NEW s \in Seq(Frame), NEW f \in Frame, f.stage = "subscribers"
  PROVE  LET r == Append(s, f) IN
         /\ r \in Seq(Frame)
         /\ r # <<>>
         /\ Len(r) = Len(s) + 1
         /\ r[Len(s) + 1] = f
         /\ \A n \in 1..Len(s) : r[n] = s[n]
         /\ Loops(r) = Loops(s)
<1> DEFINE r == Append(s, f)
<1>1. /\ r \in Seq(Frame) /\ Len(r) = Len(s) + 1 /\ Len(s) \in Nat /\ r[Len(s) + 1] = f
      /\ \A n \in 1..Len(s) : r[n] = s[n]
  BY AppendProperties
<1>2. r # <<>>
  BY AppendProperties
<1> HIDE DEF r
<1>3. Loops(r) = Loops(s)
  BY <1>1 DEF Loops
<1>4. QED
  BY <1>1, <1>2, <1>3 DEF r

-----------------------------------------------------------------------------
(* The same for the variable stack: every action but those of listen,      *)
(* subscribe and NewGame changes it by Becomes, Return or Append.          *)

LEMMA TopTyped ==
  ASSUME TypeOK, stack # <<>>
  PROVE  /\ Top \in Frame
         /\ Depth \in Nat \ {0} /\ Depth <= MaxDepth
<1>1. Depth \in Nat \ {0} /\ Depth \in 1..Len(stack) /\ Depth <= MaxDepth
  BY EmptySeq DEF TypeOK, Depth
<1>2. QED
  BY <1>1, ElementOfSeq DEF TypeOK, Top

LEMMA StackBecomes ==
  ASSUME TypeOK, stack # <<>>, NEW f \in Frame, Becomes(f)
  PROVE  /\ stack' \in Seq(Frame) /\ stack' # <<>> /\ Depth' = Depth /\ Top' = f
         /\ \A n \in 1..Depth - 1 : stack'[n] = stack[n]
         /\ f.stage = Top.stage => Looping' = Looping
         /\ f.stage = "listeners" /\ Top.stage = "subscribers" => Looping' = Looping + 1
<1>1. stack \in Seq(Frame) /\ stack' = WithTop(stack, f)
  BY DEF TypeOK, Becomes, Depth, WithTop
<1>2. /\ stack' \in Seq(Frame)
      /\ Len(stack') = Len(stack) /\ Len(stack) \in Nat \ {0}
      /\ stack'[Len(stack)] = f
      /\ \A n \in 1..Len(stack) : n # Len(stack) => stack'[n] = stack[n]
      /\ f.stage = stack[Len(stack)].stage => Loops(stack') = Loops(stack)
      /\ f.stage = "listeners" /\ stack[Len(stack)].stage = "subscribers"
           => Cardinality(Loops(stack')) = Cardinality(Loops(stack)) + 1
  BY <1>1, Replaced
<1>3. stack' # <<>>
  BY <1>2, EmptySeq
<1>4. Depth' = Depth /\ Top' = f
  BY <1>2 DEF Depth, Top
<1>5. \A n \in 1..Depth - 1 : stack'[n] = stack[n]
  BY <1>2 DEF Depth
<1>6. /\ f.stage = Top.stage => Looping' = Looping
      /\ f.stage = "listeners" /\ Top.stage = "subscribers" => Looping' = Looping + 1
  BY <1>2 DEF Depth, Top, Looping
<1>7. QED
  BY <1>2, <1>3, <1>4, <1>5, <1>6

LEMMA StackReturns ==
  ASSUME TypeOK, stack # <<>>, Return
  PROVE  /\ stack' \in Seq(Frame) /\ Depth' = Depth - 1
         /\ \A n \in 1..Depth' : stack'[n] = stack[n] /\ n \in 1..Depth - 1
         /\ stack' # <<>> => Depth' \in 1..Depth'
         /\ Top.stage = "subscribers" => Looping' = Looping
         /\ Top.stage = "listeners" => Looping' = Looping - 1
<1>1. stack \in Seq(Frame) /\ stack' = SubSeq(stack, 1, Len(stack) - 1)
  BY DEF TypeOK, Return, Depth
<1>2. /\ stack' \in Seq(Frame)
      /\ Len(stack') = Len(stack) - 1
      /\ \A n \in 1..Len(stack') : stack'[n] = stack[n] /\ n \in 1..Len(stack) - 1
      /\ stack[Len(stack)].stage = "subscribers" => Loops(stack') = Loops(stack)
      /\ stack[Len(stack)].stage = "listeners"
           => Cardinality(Loops(stack')) = Cardinality(Loops(stack)) - 1
  BY <1>1, Removed
<1>3. stack' # <<>> => Len(stack') \in 1..Len(stack')
  BY <1>2, EmptySeq
<1>4. QED
  BY <1>2, <1>3 DEF Depth, Top, Looping

LEMMA StackRaised ==
  ASSUME TypeOK
  PROVE  /\ Raised \in Seq(Frame) /\ Len(Raised) = Depth
         /\ Loops(Raised) = Loops(stack)
         /\ stack # <<>> => /\ Raised # <<>>
                            /\ Raised[Depth] = [Top EXCEPT !.raised = TRUE]
                            /\ \A n \in 1..Depth - 1 : Raised[n] = stack[n]
<1>1. CASE stack = <<>>
  BY <1>1 DEF TypeOK, Raised, Depth
<1>2. CASE stack # <<>>
  <2> DEFINE f == [Top EXCEPT !.raised = TRUE]
  <2>1. f \in Frame /\ f.stage = Top.stage
    BY <1>2, TopTyped DEF Frame
  <2> HIDE DEF f
  <2>2. stack \in Seq(Frame) /\ Raised = WithTop(stack, f)
    BY <1>2 DEF TypeOK, Raised, Depth, WithTop, f
  <2>3. /\ Raised \in Seq(Frame)
        /\ Len(Raised) = Len(stack) /\ Len(stack) \in Nat \ {0}
        /\ Raised[Len(stack)] = f
        /\ \A n \in 1..Len(stack) : n # Len(stack) => Raised[n] = stack[n]
        /\ f.stage = stack[Len(stack)].stage => Loops(Raised) = Loops(stack)
    BY <1>2, <2>1, <2>2, Replaced
  <2>4. Raised # <<>>
    BY <2>3, EmptySeq
  <2>5. Raised[Depth] = f /\ Len(Raised) = Depth /\ Loops(Raised) = Loops(stack)
    BY <2>1, <2>3 DEF Depth, Top
  <2>6. \A n \in 1..Depth - 1 : Raised[n] = stack[n]
    BY <2>3 DEF Depth
  <2>7. QED
    BY <1>2, <2>3, <2>4, <2>5, <2>6 DEF f
<1>3. QED
  BY <1>1, <1>2

(* The new frame of DispatchEvent.                                         *)
LEMMA StackPushed ==
  ASSUME TypeOK, NEW o \in EventObject, NEW e \in EventId, DispatchEvent(o, e)
  PROVE  /\ stack' \in Seq(Frame) /\ stack' # <<>> /\ Depth' = Depth + 1
         /\ Top'.evt = o /\ Top'.evtid = e
         /\ Top'.stage = "subscribers" /\ Top'.called = <<>>
         /\ Top'.raised = FALSE /\ Top'.discarded = FALSE
         /\ \A n \in 1..Depth : stack'[n] = Raised[n]
         /\ Looping' = Looping
<1> DEFINE f == [evt |-> o, evtid |-> e, stage |-> "subscribers", i |-> 1,
                 calls |-> FALSE, called |-> <<>>, discarded |-> FALSE, raised |-> FALSE]
<1>1. /\ f \in Frame /\ f.stage = "subscribers" /\ f.evt = o /\ f.evtid = e
      /\ f.raised = FALSE /\ f.discarded = FALSE /\ f.called = <<>>
  BY EmptySeq DEF Frame
<1>2. stack' = Append(Raised, f)
  BY DEF DispatchEvent
<1> HIDE DEF f
<1>3. /\ stack' \in Seq(Frame) /\ stack' # <<>>
      /\ Len(stack') = Len(Raised) + 1 /\ stack'[Len(Raised) + 1] = f
      /\ \A n \in 1..Len(Raised) : stack'[n] = Raised[n]
      /\ Loops(stack') = Loops(Raised)
  BY <1>1, <1>2, StackRaised, Pushed
<1>4. Len(Raised) = Depth /\ Loops(Raised) = Loops(stack)
  BY StackRaised
<1>5. Depth' = Depth + 1 /\ Top' = f /\ Looping' = Looping
  BY <1>3, <1>4 DEF Depth, Top, Looping
<1>6. QED
  BY <1>1, <1>3, <1>4, <1>5

(* The listeners are found: the frame on top goes on to them.              *)
LEMMA TopFinds ==
  ASSUME TypeOK, stack # <<>>
  PROVE  LET f == [Top EXCEPT !.stage = "listeners", !.i = 1, !.evtid = id[Top.evt]] IN
         /\ f \in Frame
         /\ f.stage = "listeners" /\ f.i = 1 /\ f.evtid = id[Top.evt] /\ f.evt = Top.evt
         /\ f.calls = Top.calls /\ f.called = Top.called
         /\ f.discarded = Top.discarded /\ f.raised = Top.raised
<1> DEFINE e == id[Top.evt]
<1>1. Top \in Frame
  BY TopTyped
<1>2. e \in EventId /\ 1 \in Nat \ {0}
  BY <1>1 DEF Frame, TypeOK
<1> HIDE DEF e
<1> DEFINE a == [Top EXCEPT !.stage = "listeners"]
           b == [a EXCEPT !.i = 1]
           f == [b EXCEPT !.evtid = e]
<1>3. /\ a \in Frame /\ a.stage = "listeners" /\ a.evt = Top.evt
      /\ a.calls = Top.calls /\ a.called = Top.called
      /\ a.discarded = Top.discarded /\ a.raised = Top.raised
  BY <1>1 DEF Frame
<1>7. f = [Top EXCEPT !.stage = "listeners", !.i = 1, !.evtid = e]
  BY <1>1 DEF Frame
<1> HIDE DEF a
<1>4. /\ b \in Frame /\ b.stage = "listeners" /\ b.evt = Top.evt /\ b.i = 1
      /\ b.calls = Top.calls /\ b.called = Top.called
      /\ b.discarded = Top.discarded /\ b.raised = Top.raised
  BY <1>2, <1>3 DEF Frame
<1> HIDE DEF b
<1>5. /\ f \in Frame /\ f.stage = "listeners" /\ f.evt = Top.evt /\ f.i = 1 /\ f.evtid = e
      /\ f.calls = Top.calls /\ f.called = Top.called
      /\ f.discarded = Top.discarded /\ f.raised = Top.raised
  BY <1>2, <1>4 DEF Frame
<1> HIDE DEF f
<1> QED
  BY <1>5, <1>7 DEF e

(* A callback is called: the frame on top keeps what it knows of its event.*)
LEMMA StackCalls ==
  ASSUME TypeOK, CallSubscriber \/ CallListener
  PROVE  /\ stack # <<>>
         /\ \E f \in Frame :
              /\ Becomes(f)
              /\ f.evt = Top.evt /\ f.evtid = Top.evtid /\ f.stage = Top.stage
              /\ f.discarded = Top.discarded /\ f.raised = Top.raised
              /\ f.i = Top.i /\ f.calls = TRUE
              /\ CallSubscriber => f.called = Top.called
              /\ CallListener => f.called = Append(Top.called, map[Top.evtid][Top.i])
<1>1. stack # <<>>
  BY DEF CallSubscriber, CallListener, Runs
<1>2. Top \in Frame
  BY <1>1, TopTyped
<1>3. CASE CallSubscriber
  <2> DEFINE f == [Top EXCEPT !.calls = TRUE]
  <2>1. /\ f \in Frame /\ f.calls = TRUE
        /\ f.evt = Top.evt /\ f.evtid = Top.evtid /\ f.stage = Top.stage /\ f.i = Top.i
        /\ f.called = Top.called /\ f.discarded = Top.discarded /\ f.raised = Top.raised
    BY <1>2 DEF Frame
  <2>2. Becomes(f) /\ ~CallListener
    BY <1>3 DEF CallSubscriber, CallListener, Call, Runs
  <2> HIDE DEF f
  <2> QED
    BY <1>1, <2>1, <2>2
<1>4. CASE CallListener
  <2> DEFINE q == Append(Top.called, map[Top.evtid][Top.i])
             g == [Top EXCEPT !.called = q]
             f == [g EXCEPT !.calls = TRUE]
  <2>1. q \in Seq(Listener)
    <3>1. map[Top.evtid] \in Seq(Listener) /\ Top.i \in Nat \ {0} /\ Top.called \in Seq(Listener)
      BY <1>2 DEF Frame, TypeOK
    <3>2. Top.i \in 1..Len(map[Top.evtid])
      BY <1>4, <3>1, LenProperties DEF CallListener, LoopEnds
    <3>3. map[Top.evtid][Top.i] \in Listener
      BY <3>1, <3>2, ElementOfSeq
    <3> QED
      BY <3>1, <3>3, AppendProperties
  <2>2. Becomes(f) /\ ~CallSubscriber
    BY <1>4 DEF CallSubscriber, CallListener, Call, Runs
  <2>3. f.called = q
    BY <1>2 DEF Frame
  <2> HIDE DEF q
  <2>4. /\ f \in Frame /\ f.calls = TRUE
        /\ f.evt = Top.evt /\ f.evtid = Top.evtid /\ f.stage = Top.stage /\ f.i = Top.i
        /\ f.discarded = Top.discarded /\ f.raised = Top.raised
    BY <1>2, <2>1 DEF Frame
  <2> HIDE DEF f
  <2> QED
    BY <1>1, <2>2, <2>3, <2>4 DEF q
<1> QED
  BY <1>3, <1>4

-----------------------------------------------------------------------------
(* Type correctness.                                                       *)

LEMMA InitTypes == Init => TypeOK
<1> SUFFICES ASSUME Init PROVE TypeOK
  OBVIOUS
<1>1. NoListeners \in [EventId -> Seq(Listener)]
  BY DEF NoListeners
<1>2. stack \in Seq(Frame) /\ Depth = 0
  BY DEF Init, Depth
<1>3. 0 \in 0..MaxSubscriber /\ 0 \in 0..Wrap - 1 /\ 0 \in 0..MaxDepth /\ 0 <= MaxDepth
  BY DispatcherAssumption DEF DispatcherAssumption
<1>4. QED
  BY <1>1, <1>2, <1>3 DEF Init, TypeOK

(* The level and its ghost stay in range.                                  *)
LEMMA LevelRange ==
  ASSUME TypeOK
  PROVE  /\ \A d \in Int : d % Wrap \in 0..Wrap - 1
         /\ Looping \in 0..MaxDepth
         /\ 0 \in 0..Wrap - 1
<1>1. Wrap \in Nat /\ Wrap > 0 /\ MaxDepth \in Nat
  BY DispatcherAssumption DEF DispatcherAssumption
<1>2. \A d \in Int : d % Wrap \in 0..Wrap - 1
  BY <1>1, ModSmall
<1>3. Looping \in 0..Depth /\ Depth \in Nat /\ Depth <= MaxDepth
  BY LoopsFinite, LenProperties DEF TypeOK, Looping, Depth
<1>4. QED
  BY <1>1, <1>2, <1>3

(* A step that leaves the registry alone and the stack typed.              *)
LEMMA StackTypes ==
  ASSUME TypeOK, stack' \in Seq(Frame), Depth' <= MaxDepth,
         current' \in EventObject \cup {NoEvent}, CurrentEventDiscarded' \in BOOLEAN,
         DispatchedLevel' \in 0..Wrap - 1, id' \in [EventObject -> EventId],
         base' \in 0..MaxDepth, UNCHANGED registry
  PROVE  TypeOK'
BY DEF TypeOK, registry

LEMMA NextTypes == TypeOK /\ [Next]_vars => TypeOK'
<1> SUFFICES ASSUME TypeOK, [Next]_vars PROVE TypeOK'
  OBVIOUS
<1>1. ASSUME NEW e \in EventId, NEW l \in Listener, listen(e, l) PROVE TypeOK'
  <2>1. tasks' \in [EventId -> Seq(Listener)] /\ heard' \in [EventId -> Seq(Listener)]
    BY <1>1, AppendProperties DEF listen, TypeOK
  <2>2. QED
    BY <1>1, <2>1 DEF listen, TypeOK, Depth
<1>2. CASE subscribe
  <2>1. subscribers' \in 0..MaxSubscriber
    BY <1>2, DispatcherAssumption DEF subscribe, TypeOK, DispatcherAssumption
  <2>2. QED
    BY <1>2, <2>1 DEF subscribe, TypeOK, Depth
<1>3. CASE DiscardCurrentEvent
  <2>1. [Top EXCEPT !.discarded = TRUE] \in Frame
    BY <1>3, TopTyped DEF DiscardCurrentEvent, Frame
  <2>2. stack' \in Seq(Frame) /\ Depth' = Depth
    BY <1>3, <2>1, StackBecomes DEF DiscardCurrentEvent
  <2>3. QED
    BY <1>3, <2>2, StackTypes DEF DiscardCurrentEvent, TypeOK
<1>4. ASSUME NEW o \in EventObject, NEW e \in EventId, DispatchDropped(o, e) PROVE TypeOK'
  <2>1. stack' \in Seq(Frame) /\ Depth' = Depth
    BY <1>4, StackRaised DEF DispatchDropped, Depth
  <2>2. DispatchedLevel' \in 0..Wrap - 1 /\ base' \in 0..MaxDepth
    BY <1>4, LevelRange DEF DispatchDropped, ResetLevel
  <2>3. QED
    BY <1>4, <2>1, <2>2, StackTypes DEF DispatchDropped, TypeOK
<1>5. ASSUME NEW o \in EventObject, NEW e \in EventId, DispatchEvent(o, e) PROVE TypeOK'
  <2>1. stack' \in Seq(Frame) /\ Depth' = Depth + 1
    BY <1>5, StackPushed
  <2>2. Depth' <= MaxDepth
    BY <1>5, <2>1, LenProperties, DispatcherAssumption
    DEF DispatchEvent, TypeOK, Depth, DispatcherAssumption
  <2>3. QED
    BY <1>5, <2>1, <2>2, StackTypes DEF DispatchEvent, Enter, TypeOK
<1>6. CASE CallSubscriber \/ CallListener
  <2>1. PICK f \in Frame : stack # <<>> /\ Becomes(f)
    BY <1>6, StackCalls
  <2>2. stack' \in Seq(Frame) /\ Depth' = Depth
    BY <2>1, StackBecomes
  <2>3. QED
    BY <1>6, <2>2, StackTypes DEF CallSubscriber, CallListener, Call, TypeOK
<1>7. CASE CallbackReturns
  <2>1. [Top EXCEPT !.calls = FALSE, !.i = @ + 1] \in Frame
    <3>1. Top \in Frame /\ Top.i + 1 \in Nat \ {0}
      BY <1>7, TopTyped DEF CallbackReturns, Frame
    <3> DEFINE f == [Top EXCEPT !.calls = FALSE]
    <3>2. f \in Frame /\ f.i = Top.i
      BY <3>1 DEF Frame
    <3>3. [f EXCEPT !.i = Top.i + 1] \in Frame
      <4> HIDE DEF f
      <4>1. QED
        BY <3>1, <3>2 DEF Frame
    <3>4. QED
      BY <3>1, <3>2, <3>3 DEF Frame
  <2>2. stack' \in Seq(Frame) /\ Depth' = Depth
    BY <1>7, <2>1, StackBecomes DEF CallbackReturns
  <2>3. QED
    BY <1>7, <2>2, StackTypes DEF CallbackReturns, TypeOK
<1>8. CASE FindListeners
  <2>1. map' \in [EventId -> Seq(Listener)] /\ tasks' \in [EventId -> Seq(Listener)]
    BY <1>8, ConcatProperties DEF FindListeners, performTasks, NoListeners, TypeOK
  <2>2. stack # <<>> /\ Depth \in Nat
    BY <1>8, TopTyped DEF FindListeners, Runs
  <2>3. CASE Return /\ UNCHANGED DispatchedLevel
    <3>1. stack' \in Seq(Frame) /\ Depth' = Depth - 1
      BY <2>2, <2>3, StackReturns
    <3>2. Depth' <= MaxDepth
      BY <2>2, <3>1, DispatcherAssumption DEF TypeOK, DispatcherAssumption
    <3>3. QED
      BY <1>8, <2>1, <2>3, <3>1, <3>2 DEF FindListeners, TypeOK
  <2>4. ASSUME DispatchedLevel' = (DispatchedLevel + 1) % Wrap,
               Becomes([Top EXCEPT !.stage = "listeners", !.i = 1, !.evtid = id[Top.evt]])
        PROVE TypeOK'
    <3>1. [Top EXCEPT !.stage = "listeners", !.i = 1, !.evtid = id[Top.evt]] \in Frame
      BY <2>2, TopFinds
    <3>2. stack' \in Seq(Frame) /\ Depth' = Depth
      BY <2>2, <2>4, <3>1, StackBecomes
    <3>3. DispatchedLevel' \in 0..Wrap - 1
      BY <2>4, LevelRange DEF TypeOK
    <3>4. QED
      BY <1>8, <2>1, <3>2, <3>3 DEF FindListeners, TypeOK
  <2>5. QED
    BY <1>8, <2>3, <2>4 DEF FindListeners
<1>9. CASE DispatchReturns
  <2>1. stack # <<>> /\ Return /\ Depth \in Nat
    BY <1>9, TopTyped DEF DispatchReturns, Runs
  <2>2. stack' \in Seq(Frame) /\ Depth' = Depth - 1
    BY <2>1, StackReturns
  <2>3. DispatchedLevel' \in 0..Wrap - 1
    BY <1>9, LevelRange DEF DispatchReturns, TypeOK
  <2>4. Depth' <= MaxDepth
    BY <2>1, <2>2, DispatcherAssumption DEF TypeOK, DispatcherAssumption
  <2>5. QED
    BY <1>9, <2>2, <2>3, <2>4, StackTypes DEF DispatchReturns, TypeOK
<1>10. CASE NewGame
  <2>1. NoListeners \in [EventId -> Seq(Listener)] /\ 0 \in 0..MaxSubscriber
    BY DispatcherAssumption DEF NoListeners, DispatcherAssumption
  <2>2. QED
    BY <1>10, <2>1 DEF NewGame, TypeOK, Depth
<1>11. CASE UNCHANGED vars
  BY <1>11 DEF vars, registry, TypeOK, Depth
<1>12. QED
  BY <1>1, <1>2, <1>3, <1>4, <1>5, <1>6, <1>7, <1>8, <1>9, <1>10, <1>11
  DEF Next, Code, Dispatch

(* Every variable of the dispatcher keeps its type: the subscribers never  *)
(* outgrow their array, and the level stays a uint32_t.                    *)
THEOREM DispatcherTypes == Spec => []TypeOK
BY InitTypes, NextTypes, PTL DEF Spec

-----------------------------------------------------------------------------
(* Registration.                                                           *)

LEMMA AppendConcat ==
  ASSUME NEW S, NEW s \in Seq(S), NEW t \in Seq(S), NEW x \in S
  PROVE  s \o Append(t, x) = Append(s \o t, x)
<1> DEFINE u == <<x>>
<1>1. s \o t \in Seq(S) /\ u \in Seq(S)
  BY ConcatProperties
<1>2. Append(t, x) = t \o u /\ Append(s \o t, x) = (s \o t) \o u
  BY <1>1, AppendIsConcat
<1> HIDE DEF u
<1>3. (s \o t) \o u = s \o (t \o u)
  BY <1>1, ConcatAssociative
<1>4. QED
  BY <1>2, <1>3

(* A sequence begins like its front part.                                  *)
LEMMA ConcatBegins ==
  ASSUME NEW S, NEW s \in Seq(S), NEW t \in Seq(S), NEW q, q = s \o t
  PROVE  /\ q \in Seq(S) /\ Len(s) <= Len(q)
         /\ \A k \in 1..Len(s) : q[k] = s[k]
<1>1. /\ s \o t \in Seq(S)
      /\ Len(s \o t) = Len(s) + Len(t)
      /\ \A k \in 1..Len(s) + Len(t) :
           (s \o t)[k] = IF k <= Len(s) THEN s[k] ELSE t[k - Len(s)]
  BY ConcatProperties
<1>2. Len(s) \in Nat /\ Len(t) \in Nat
  BY LenProperties
<1>3. ASSUME NEW k \in 1..Len(s) PROVE (s \o t)[k] = s[k]
  <2>1. k \in 1..Len(s) + Len(t) /\ k <= Len(s)
    BY <1>2
  <2> QED
    BY <1>1, <2>1
<1> QED
  BY <1>1, <1>2, <1>3

LEMMA NextInOrder == TypeOK /\ InOrder /\ [Next]_vars => InOrder'
<1> SUFFICES ASSUME TypeOK, InOrder, [Next]_vars PROVE InOrder'
  OBVIOUS
<1>1. ASSUME NEW e \in EventId, NEW l \in Listener, listen(e, l) PROVE InOrder'
  <2> SUFFICES ASSUME NEW d \in EventId PROVE map'[d] \o tasks'[d] = heard'[d]
    BY DEF InOrder
  <2>1. CASE d # e
    BY <1>1, <2>1 DEF listen, InOrder, TypeOK
  <2>2. CASE d = e
    <3>1. map'[d] = map[d] /\ tasks'[d] = Append(tasks[d], l) /\ heard'[d] = Append(heard[d], l)
      BY <1>1, <2>2 DEF listen, TypeOK
    <3>2. map[d] \in Seq(Listener) /\ tasks[d] \in Seq(Listener)
      BY DEF TypeOK
    <3>3. map[d] \o Append(tasks[d], l) = Append(map[d] \o tasks[d], l)
      <4> DEFINE m == map[d]  q == tasks[d]
      <4>1. m \in Seq(Listener) /\ q \in Seq(Listener)
        BY <3>2
      <4> HIDE DEF m, q
      <4>2. m \o Append(q, l) = Append(m \o q, l)
        BY <4>1, AppendConcat
      <4>3. QED
        BY <4>2 DEF m, q
    <3>4. QED
      BY <3>1, <3>3 DEF InOrder
  <2>3. QED
    BY <2>1, <2>2
<1>2. CASE FindListeners
  <2> SUFFICES ASSUME NEW d \in EventId PROVE map'[d] \o tasks'[d] = heard'[d]
    BY DEF InOrder
  <2>1. map'[d] = map[d] \o tasks[d] /\ tasks'[d] = <<>> /\ heard'[d] = heard[d]
    BY <1>2 DEF FindListeners, performTasks, NoListeners
  <2>2. map[d] \o tasks[d] = heard[d] /\ heard[d] \in Seq(Listener)
    BY DEF InOrder, TypeOK
  <2>3. QED
    BY <2>1, <2>2, ConcatEmptySeq
<1>3. CASE NewGame
  <2>1. <<>> \o <<>> = <<>>
    BY ConcatEmptySeq, EmptySeq
  <2>2. QED
    BY <1>3, <2>1 DEF NewGame, NoListeners, InOrder
<1>4. CASE UNCHANGED <<map, tasks, heard>>
  BY <1>4 DEF InOrder
<1>5. QED
  BY <1>1, <1>2, <1>3, <1>4
  DEF Next, Code, Dispatch, vars, registry, subscribe, DiscardCurrentEvent, DispatchDropped,
      DispatchEvent, CallSubscriber, CallListener, Call, CallbackReturns, DispatchReturns

(* A dispatch has called the listeners of its id up to its iterator, as    *)
(* they stand in the queue m[evtid].                                       *)
CalledOf(f, m) ==
  /\ f.stage = "subscribers" => f.called = <<>>
  /\ f.stage = "listeners" =>
       /\ Len(f.called) = IF f.calls THEN f.i ELSE f.i - 1
       /\ Len(f.called) <= Len(m[f.evtid])
       /\ \A k \in 1..Len(f.called) : f.called[k] = m[f.evtid][k]

Called == \A n \in 1..Depth : CalledOf(stack[n], map)

(* Every queue of m begins with the one of map.                            *)
Longer(m) ==
  \A e \in EventId :
    /\ m[e] \in Seq(Listener) /\ Len(map[e]) <= Len(m[e])
    /\ \A k \in 1..Len(map[e]) : m[e][k] = map[e][k]

LEMMA LongerKeeps ==
  ASSUME TypeOK, NEW m, Longer(m), NEW f \in Frame, CalledOf(f, map)
  PROVE  CalledOf(f, m)
<1>1. /\ f.evtid \in EventId /\ f.called \in Seq(Listener)
      /\ map[f.evtid] \in Seq(Listener) /\ m[f.evtid] \in Seq(Listener)
  BY DEF TypeOK, Frame, Longer
<1>2. Len(f.called) \in Nat /\ Len(map[f.evtid]) \in Nat /\ Len(m[f.evtid]) \in Nat
  BY <1>1
<1>3. ASSUME f.stage = "listeners"
      PROVE  /\ Len(f.called) <= Len(m[f.evtid])
             /\ \A k \in 1..Len(f.called) : f.called[k] = m[f.evtid][k]
  <2>1. /\ Len(f.called) <= Len(map[f.evtid])
        /\ \A k \in 1..Len(f.called) : f.called[k] = map[f.evtid][k]
    BY <1>3 DEF CalledOf
  <2>2. /\ Len(map[f.evtid]) <= Len(m[f.evtid])
        /\ \A k \in 1..Len(map[f.evtid]) : m[f.evtid][k] = map[f.evtid][k]
    BY <1>1 DEF Longer
  <2>3. \A k \in 1..Len(f.called) : k \in 1..Len(map[f.evtid])
    BY <1>2, <2>1
  <2> QED
    BY <1>2, <2>1, <2>2, <2>3
<1> QED
  BY <1>3 DEF CalledOf

(* The queues only grow at the end.                                        *)
LEMMA GrowsLonger ==
  ASSUME TypeOK, map' = map \/ performTasks
  PROVE  Longer(map')
<1>1. CASE map' = map
  BY <1>1, LenProperties DEF TypeOK, Longer
<1>2. CASE performTasks
  <2> SUFFICES ASSUME NEW e \in EventId
               PROVE  /\ map'[e] \in Seq(Listener) /\ Len(map[e]) <= Len(map'[e])
                      /\ \A k \in 1..Len(map[e]) : map'[e][k] = map[e][k]
    BY DEF Longer
  <2>1. map'[e] = map[e] \o tasks[e] /\ map[e] \in Seq(Listener) /\ tasks[e] \in Seq(Listener)
    BY <1>2 DEF performTasks, TypeOK
  <2> DEFINE m == map[e]  q == tasks[e]  n == map'[e]
  <2>2. m \in Seq(Listener) /\ q \in Seq(Listener) /\ n = m \o q
    BY <2>1
  <2> HIDE DEF m, q, n
  <2>3. n \in Seq(Listener) /\ Len(m) <= Len(n) /\ \A k \in 1..Len(m) : n[k] = m[k]
    BY <2>2, ConcatBegins
  <2> QED
    BY <2>3 DEF m, n
<1> QED
  BY <1>1, <1>2

(* A step that changes only the frame on top.                              *)
LEMMA BecomesCalled ==
  ASSUME TypeOK, Called, stack # <<>>, NEW f \in Frame, Becomes(f),
         Longer(map'), CalledOf(f, map')
  PROVE  Called'
<1>1. /\ Depth' = Depth /\ Depth \in Nat \ {0} /\ stack'[Depth] = f
      /\ \A n \in 1..Depth - 1 : stack'[n] = stack[n]
  BY StackBecomes, TopTyped DEF Top
<1>2. ASSUME NEW n \in 1..Depth - 1 PROVE CalledOf(stack'[n], map')
  <2>1. n \in 1..Depth /\ stack[n] \in Frame
    BY <1>1, ElementOfSeq DEF TypeOK, Depth
  <2> QED
    BY <1>1, <2>1, LongerKeeps DEF Called
<1>3. \A n \in 1..Depth : CalledOf(stack'[n], map')
  BY <1>1, <1>2
<1> QED
  BY <1>1, <1>3 DEF Called

LEMMA ReturnCalled ==
  ASSUME TypeOK, Called, stack # <<>>, Return, Longer(map')
  PROVE  Called'
<1> SUFFICES ASSUME NEW n \in 1..Depth' PROVE CalledOf(stack'[n], map')
  BY DEF Called
<1>1. stack'[n] = stack[n] /\ n \in 1..Depth - 1
  BY StackReturns
<1>2. n \in 1..Depth /\ stack[n] \in Frame
  BY <1>1, TopTyped, ElementOfSeq DEF TypeOK, Depth
<1> QED
  BY <1>1, <1>2, LongerKeeps DEF Called

(* The frames below a new dispatch.                                        *)
LEMMA RaisedCalled ==
  ASSUME TypeOK, Called
  PROVE  \A n \in 1..Depth : CalledOf(Raised[n], map)
<1>1. CASE stack = <<>>
  BY <1>1 DEF Raised, Called
<1>2. CASE stack # <<>>
  <2> DEFINE f == [Top EXCEPT !.raised = TRUE]
  <2>1. /\ f.stage = Top.stage /\ f.called = Top.called /\ f.calls = Top.calls
        /\ f.i = Top.i /\ f.evtid = Top.evtid
    BY <1>2, TopTyped DEF Frame
  <2>2. /\ Depth \in Nat \ {0} /\ Raised[Depth] = f
        /\ \A n \in 1..Depth - 1 : Raised[n] = stack[n]
    BY <1>2, StackRaised, TopTyped
  <2> HIDE DEF f
  <2>3. CalledOf(f, map)
    BY <2>1, <2>2 DEF Called, CalledOf, Top
  <2> QED
    BY <2>2, <2>3 DEF Called
<1> QED
  BY <1>1, <1>2

LEMMA NextCalled == TypeOK /\ Called /\ [Next]_vars => Called'
<1> SUFFICES ASSUME TypeOK, Called, [Next]_vars PROVE Called'
  OBVIOUS
<1>0. /\ map' = map \/ performTasks => Longer(map')
      /\ stack # <<>> => Top \in Frame /\ CalledOf(Top, map)
  BY GrowsLonger, TopTyped DEF Called, Top
<1>1. CASE UNCHANGED <<stack, map>>
  BY <1>1 DEF Called, Depth
<1>2. CASE DiscardCurrentEvent
  <2> DEFINE f == [Top EXCEPT !.discarded = TRUE]
  <2>1. stack # <<>> /\ Becomes(f) /\ map' = map
    BY <1>2 DEF DiscardCurrentEvent, registry
  <2>2. /\ f \in Frame /\ f.stage = Top.stage /\ f.called = Top.called
        /\ f.calls = Top.calls /\ f.i = Top.i /\ f.evtid = Top.evtid
    BY <2>1, TopTyped DEF Frame
  <2> HIDE DEF f
  <2>3. CalledOf(f, map')
    BY <1>0, <2>1, <2>2 DEF CalledOf
  <2> QED
    BY <1>0, <2>1, <2>2, <2>3, BecomesCalled
<1>3. ASSUME NEW o \in EventObject, NEW e \in EventId, DispatchDropped(o, e) PROVE Called'
  <2>1. stack' = Raised /\ map' = map /\ Depth' = Depth
    BY <1>3, StackRaised DEF DispatchDropped, registry, Depth
  <2> QED
    BY <2>1, RaisedCalled DEF Called
<1>4. ASSUME NEW o \in EventObject, NEW e \in EventId, DispatchEvent(o, e) PROVE Called'
  <2>1. /\ Depth' = Depth + 1 /\ Depth \in Nat /\ map' = map
        /\ stack'[Depth + 1].stage = "subscribers" /\ stack'[Depth + 1].called = <<>>
        /\ \A n \in 1..Depth : stack'[n] = Raised[n]
    BY <1>4, StackPushed, LenProperties DEF DispatchEvent, registry, TypeOK, Depth, Top
  <2>2. CalledOf(stack'[Depth + 1], map)
    BY <2>1 DEF CalledOf
  <2>3. \A n \in 1..Depth : CalledOf(stack'[n], map)
    BY <2>1, RaisedCalled
  <2>4. \A n \in 1..Depth + 1 : CalledOf(stack'[n], map)
    BY <2>1, <2>2, <2>3
  <2> QED
    BY <2>1, <2>4 DEF Called
<1>5. CASE CallSubscriber
  <2>1. PICK f \in Frame :
          /\ stack # <<>> /\ Becomes(f)
          /\ f.stage = Top.stage /\ f.called = Top.called
    BY <1>5, StackCalls
  <2>2. map' = map /\ Top.stage = "subscribers"
    BY <1>5 DEF CallSubscriber, Call, registry, Runs
  <2>3. CalledOf(f, map')
    BY <1>0, <2>1, <2>2 DEF CalledOf
  <2> QED
    BY <1>0, <2>1, <2>2, <2>3, BecomesCalled
<1>6. CASE CallListener
  <2>1. PICK f \in Frame :
          /\ stack # <<>> /\ Becomes(f)
          /\ f.evtid = Top.evtid /\ f.stage = Top.stage
          /\ f.i = Top.i /\ f.calls = TRUE
          /\ f.called = Append(Top.called, map[Top.evtid][Top.i])
    BY <1>6, StackCalls
  <2>2. /\ map' = map /\ Top.stage = "listeners" /\ ~Top.calls
        /\ ~(Top.i > Len(map[Top.evtid]))
    BY <1>6 DEF CallListener, LoopEnds, Call, registry, Runs
  <2>3. /\ map[Top.evtid] \in Seq(Listener) /\ Len(map[Top.evtid]) \in Nat
        /\ Top.i \in Nat \ {0} /\ Top.called \in Seq(Listener) /\ Len(Top.called) \in Nat
    BY <1>0, <2>1, LenProperties DEF TypeOK, Frame
  <2>4. /\ Len(Top.called) = Top.i - 1
        /\ \A k \in 1..Len(Top.called) : Top.called[k] = map[Top.evtid][k]
    BY <1>0, <2>1, <2>2 DEF CalledOf
  <2>5. Top.i \in 1..Len(map[Top.evtid])
    BY <2>2, <2>3
  <2>6. map[Top.evtid][Top.i] \in Listener
    BY <2>3, <2>5, ElementOfSeq
  <2>7. /\ Len(f.called) = Len(Top.called) + 1
        /\ \A k \in 1..Len(Top.called) : f.called[k] = Top.called[k]
        /\ f.called[Len(Top.called) + 1] = map[Top.evtid][Top.i]
    BY <2>1, <2>3, <2>6, AppendProperties
  <2>8. Len(f.called) = Top.i /\ \A k \in 1..Top.i : f.called[k] = map[Top.evtid][k]
    <3>1. Len(f.called) = Top.i
      BY <2>3, <2>4, <2>7
    <3>2. ASSUME NEW k \in 1..Top.i PROVE f.called[k] = map[Top.evtid][k]
      <4>1. CASE k = Top.i
        BY <2>3, <2>4, <2>7, <4>1
      <4>2. CASE k # Top.i
        <5>1. k \in 1..Len(Top.called)
          BY <2>3, <2>4, <4>2
        <5> QED
          BY <2>4, <2>7, <5>1
      <4> QED
        BY <4>1, <4>2
    <3> QED
      BY <3>1, <3>2
  <2>9. CalledOf(f, map')
    BY <2>1, <2>2, <2>5, <2>8 DEF CalledOf
  <2> QED
    BY <1>0, <2>1, <2>2, <2>9, BecomesCalled
<1>7. CASE CallbackReturns
  <2> DEFINE f == [Top EXCEPT !.calls = FALSE, !.i = @ + 1]
  <2>1. stack # <<>> /\ Becomes(f) /\ map' = map /\ Top.calls
    BY <1>7 DEF CallbackReturns, registry
  <2>2. Top \in Frame /\ Top.i + 1 \in Nat \ {0} /\ Top.i \in Nat /\ Top.i + 1 - 1 = Top.i
    BY <2>1, TopTyped DEF Frame
  <2>3. /\ f \in Frame /\ f.stage = Top.stage /\ f.called = Top.called
        /\ f.calls = FALSE /\ f.i = Top.i + 1 /\ f.evtid = Top.evtid
    BY <2>2 DEF Frame
  <2> HIDE DEF f
  <2>4. CalledOf(f, map')
    BY <1>0, <2>1, <2>2, <2>3 DEF CalledOf
  <2> QED
    BY <1>0, <2>1, <2>3, <2>4, BecomesCalled
<1>8. CASE FindListeners
  <2>1. stack # <<>> /\ Longer(map') /\ Top.stage = "subscribers"
    BY <1>0, <1>8 DEF FindListeners, Runs
  <2>2. CASE Return
    BY <2>1, <2>2, ReturnCalled
  <2>3. CASE Becomes([Top EXCEPT !.stage = "listeners", !.i = 1, !.evtid = id[Top.evt]])
                 /\ DispatchedLevel' = (DispatchedLevel + 1) % Wrap
    <3> DEFINE f == [Top EXCEPT !.stage = "listeners", !.i = 1, !.evtid = id[Top.evt]]
    <3>1. /\ f \in Frame /\ f.stage = "listeners" /\ f.i = 1 /\ f.calls = FALSE
          /\ f.called = <<>> /\ f.evtid \in EventId
      <4>1. Top.called = <<>> /\ ~Top.calls /\ Top \in Frame
        BY <1>0, <1>8, <2>1 DEF CalledOf, FindListeners, Runs
      <4>2. Top.calls = FALSE
        BY <4>1 DEF Frame
      <4>3. id[Top.evt] \in EventId
        BY <4>1 DEF Frame, TypeOK
      <4> QED
        BY <2>1, <4>1, <4>2, <4>3, TopFinds
    <3>2. Becomes(f)
      BY <2>3
    <3> HIDE DEF f
    <3>3. CalledOf(f, map')
      <4>1. map'[f.evtid] \in Seq(Listener)
        BY <2>1, <3>1 DEF Longer
      <4> QED
        BY <3>1, <4>1, EmptySeq, LenProperties DEF CalledOf
    <3> QED
      BY <2>1, <3>1, <3>2, <3>3, BecomesCalled
  <2> QED
    BY <1>8, <2>2, <2>3 DEF FindListeners
<1>9. CASE DispatchReturns
  <2>1. stack # <<>> /\ Return /\ map' = map
    BY <1>9 DEF DispatchReturns, registry, Runs
  <2> QED
    BY <1>0, <2>1, ReturnCalled
<1>10. CASE NewGame
  <2>1. Depth' = 0
    BY <1>10, EmptySeq DEF NewGame, Depth
  <2> QED
    BY <2>1 DEF Called
<1> QED
  BY <1>1, <1>2, <1>3, <1>4, <1>5, <1>6, <1>7, <1>8, <1>9, <1>10
  DEF Next, Code, Dispatch, vars, registry, listen, subscribe

(* Whatever the dispatches on the stack, a listener passed to listen is    *)
(* registered or queued, once and in its place, and every dispatch calls   *)
(* the listeners of its id in that order, none of them twice.              *)
THEOREM ListenersRegistered == Spec => []Registered
<1>1. Init => InOrder /\ Called
  <2> SUFFICES ASSUME Init PROVE InOrder /\ Called
    OBVIOUS
  <2>1. <<>> \o <<>> = <<>>
    BY ConcatEmptySeq, EmptySeq
  <2>2. Depth = 0
    BY EmptySeq DEF Init, Depth
  <2> QED
    BY <2>1, <2>2 DEF Init, NoListeners, InOrder, Called
<1>2. TypeOK /\ InOrder /\ Called => Registered
  <2> SUFFICES ASSUME TypeOK, InOrder, Called, NEW n \in 1..Depth PROVE Calls(stack[n])
    BY DEF Registered
  <2>1. stack[n] \in Frame /\ CalledOf(stack[n], map)
    BY ElementOfSeq DEF TypeOK, Depth, Called
  <2>2. Longer(heard)
    <3> SUFFICES ASSUME NEW e \in EventId
                 PROVE  /\ heard[e] \in Seq(Listener) /\ Len(map[e]) <= Len(heard[e])
                        /\ \A k \in 1..Len(map[e]) : heard[e][k] = map[e][k]
      BY DEF Longer
    <3>1. /\ heard[e] = map[e] \o tasks[e] /\ heard[e] \in Seq(Listener)
          /\ map[e] \in Seq(Listener) /\ tasks[e] \in Seq(Listener)
      BY DEF InOrder, TypeOK
    <3> DEFINE m == map[e]  q == tasks[e]  h == heard[e]
    <3>2. m \in Seq(Listener) /\ q \in Seq(Listener) /\ h = m \o q
      BY <3>1
    <3> HIDE DEF m, q, h
    <3>3. h \in Seq(Listener) /\ Len(m) <= Len(h) /\ \A k \in 1..Len(m) : h[k] = m[k]
      BY <3>2, ConcatBegins
    <3> QED
      BY <3>3 DEF m, h
  <2>3. CalledOf(stack[n], heard)
    BY <2>1, <2>2, LongerKeeps
  <2> QED
    BY <2>3 DEF CalledOf, Calls
<1> QED
  BY <1>1, <1>2, NextInOrder, NextCalled, DispatcherTypes, PTL DEF Spec

-----------------------------------------------------------------------------
(* The flag and the current event.  What a dispatch shares with those it   *)
(* raised is its own again only at the bottom of the stack: every frame    *)
(* below the top has raised the one above it.                              *)

Nested == \A n \in 1..Depth - 1 : stack[n].raised = TRUE

Own == Nested /\ DiscardIsOwn /\ EventIsOwn

(* Return uncovers a frame that has raised an event.                       *)
LEMMA ReturnsOwn ==
  ASSUME TypeOK, Own, stack # <<>>, Return
  PROVE  Own'
<1>1. \A n \in 1..Depth' : stack'[n] = stack[n] /\ n \in 1..Depth - 1
  BY StackReturns
<1>2. \A n \in 1..Depth' : stack'[n].raised = TRUE
  BY <1>1 DEF Own, Nested
<1>3. Nested'
  <2>1. Depth' \in Nat
    BY StackReturns, LenProperties DEF Depth
  <2>2. \A n \in 1..Depth' - 1 : n \in 1..Depth'
    <3>1. \A k \in Nat : \A n \in 1..k - 1 : n \in 1..k
      OBVIOUS
    <3>2. QED
      BY <2>1, <3>1, Zenon
  <2>3. QED
    BY <1>2, <2>2 DEF Nested
<1>4. stack' # <<>> => Top'.raised = TRUE
  BY <1>2, StackReturns DEF Top
<1>5. QED
  BY <1>3, <1>4 DEF Own, DiscardIsOwn, EventIsOwn

(* A frame f that goes on from the top one keeps what it knows of itself.  *)
LEMMA BecomesOwn ==
  ASSUME TypeOK, Own, stack # <<>>, NEW f \in Frame, Becomes(f),
         ~f.raised => /\ CurrentEventDiscarded' = f.discarded
                      /\ current' = f.evt /\ id'[f.evt] = f.evtid
  PROVE  Own'
<1>1. Depth' = Depth /\ Top' = f /\ \A n \in 1..Depth - 1 : stack'[n] = stack[n]
  BY StackBecomes
<1>2. Nested'
  BY <1>1 DEF Own, Nested
<1>3. QED
  BY <1>1, <1>2 DEF Own, DiscardIsOwn, EventIsOwn

LEMMA NextOwn == TypeOK /\ Own /\ [Next]_vars => Own'
<1> SUFFICES ASSUME TypeOK, Own, [Next]_vars PROVE Own'
  OBVIOUS
<1>0. stack # <<>> /\ ~Top.raised =>
        CurrentEventDiscarded = Top.discarded /\ current = Top.evt /\ id[Top.evt] = Top.evtid
  BY DEF Own, DiscardIsOwn, EventIsOwn
<1>1. CASE UNCHANGED <<stack, CurrentEventDiscarded, current, id>>
  BY <1>1 DEF Own, Nested, DiscardIsOwn, EventIsOwn, Depth, Top
<1>2. CASE DiscardCurrentEvent
  <2> DEFINE f == [Top EXCEPT !.discarded = TRUE]
  <2>1. stack # <<>> /\ Becomes(f) /\ CurrentEventDiscarded' = TRUE /\ current' = current /\ id' = id
    BY <1>2 DEF DiscardCurrentEvent, registry
  <2>2. /\ f \in Frame /\ f.discarded = TRUE /\ f.raised = Top.raised
        /\ f.evt = Top.evt /\ f.evtid = Top.evtid
    BY <2>1, TopTyped DEF Frame
  <2> HIDE DEF f
  <2>3. QED
    BY <1>0, <2>1, <2>2, BecomesOwn
<1>3. ASSUME NEW o \in EventObject, NEW e \in EventId, DispatchDropped(o, e) PROVE Own'
  <2>1. CASE stack = <<>>
    <3>1. stack' = <<>>
      BY <1>3, <2>1 DEF DispatchDropped, Raised
    <3>2. QED
      BY <3>1, EmptySeq DEF Own, Nested, DiscardIsOwn, EventIsOwn, Depth
  <2>2. CASE stack # <<>>
    <3> DEFINE f == [Top EXCEPT !.raised = TRUE]
    <3>1. f \in Frame /\ f.raised = TRUE
      BY <2>2, TopTyped DEF Frame
    <3>2. Becomes(f)
      BY <1>3, <2>2 DEF DispatchDropped, Raised, Becomes
    <3> HIDE DEF f
    <3>3. QED
      BY <2>2, <3>1, <3>2, BecomesOwn
  <2>3. QED
    BY <2>1, <2>2
<1>4. ASSUME NEW o \in EventObject, NEW e \in EventId, DispatchEvent(o, e) PROVE Own'
  <2>1. /\ Depth' = Depth + 1 /\ Depth \in Nat
        /\ Top'.evt = o /\ Top'.evtid = e /\ Top'.raised = FALSE /\ Top'.discarded = FALSE
        /\ \A n \in 1..Depth : stack'[n] = Raised[n]
    BY <1>4, StackPushed, LenProperties DEF TypeOK, Depth
  <2>2. \A n \in 1..Depth : Raised[n].raised = TRUE
    <3>1. CASE stack = <<>>
      BY <2>1, <3>1, EmptySeq DEF Depth
    <3>2. CASE stack # <<>>
      <4>1. [Top EXCEPT !.raised = TRUE].raised = TRUE
        BY <3>2, TopTyped DEF Frame
      <4>2. \A n \in 1..Depth - 1 : Raised[n].raised = TRUE
        BY <3>2, StackRaised DEF Own, Nested
      <4>3. Raised[Depth].raised = TRUE
        BY <3>2, <4>1, StackRaised
      <4>4. QED
        BY <2>1, <4>2, <4>3
    <3>3. QED
      BY <3>1, <3>2
  <2>3. Nested'
    BY <2>1, <2>2 DEF Nested
  <2>4. CurrentEventDiscarded' = FALSE /\ current' = o /\ id'[o] = e
    BY <1>4 DEF DispatchEvent, Enter, TypeOK
  <2>5. QED
    BY <2>1, <2>3, <2>4 DEF Own, DiscardIsOwn, EventIsOwn
<1>5. CASE CallSubscriber \/ CallListener
  <2>1. PICK f \in Frame :
          /\ stack # <<>> /\ Becomes(f)
          /\ f.discarded = Top.discarded /\ f.raised = Top.raised
          /\ f.evt = Top.evt /\ f.evtid = Top.evtid
    BY <1>5, StackCalls
  <2>2. UNCHANGED <<CurrentEventDiscarded, current, id>>
    BY <1>5 DEF CallSubscriber, CallListener, Call
  <2>3. QED
    BY <1>0, <2>1, <2>2, BecomesOwn
<1>6. CASE CallbackReturns
  <2> DEFINE f == [Top EXCEPT !.calls = FALSE, !.i = @ + 1]
  <2>1. stack # <<>> /\ Becomes(f) /\ UNCHANGED <<CurrentEventDiscarded, current, id>>
    BY <1>6 DEF CallbackReturns
  <2>2. /\ f \in Frame /\ f.discarded = Top.discarded /\ f.raised = Top.raised
        /\ f.evt = Top.evt /\ f.evtid = Top.evtid
    <3>1. Top \in Frame /\ Top.i + 1 \in Nat \ {0}
      BY <2>1, TopTyped DEF Frame
    <3>2. QED
      BY <3>1 DEF Frame
  <2> HIDE DEF f
  <2>3. QED
    BY <1>0, <2>1, <2>2, BecomesOwn
<1>7. CASE FindListeners
  <2>1. stack # <<>> /\ UNCHANGED <<CurrentEventDiscarded, current, id>>
    BY <1>7 DEF FindListeners, Runs
  <2>2. CASE Return
    BY <2>1, <2>2, ReturnsOwn
  <2>3. CASE Becomes([Top EXCEPT !.stage = "listeners", !.i = 1, !.evtid = id[Top.evt]])
    <3> DEFINE f == [Top EXCEPT !.stage = "listeners", !.i = 1, !.evtid = id[Top.evt]]
    <3>1. /\ f \in Frame /\ f.discarded = Top.discarded /\ f.raised = Top.raised
          /\ f.evt = Top.evt /\ f.evtid = id[Top.evt]
      BY <2>1, TopFinds
    <3> HIDE DEF f
    <3>2. Becomes(f)
      BY <2>3 DEF f
    <3>3. QED
      BY <1>0, <2>1, <3>1, <3>2, BecomesOwn
  <2>4. QED
    BY <1>7, <2>2, <2>3 DEF FindListeners
<1>8. CASE DispatchReturns
  BY <1>8, ReturnsOwn DEF DispatchReturns, Runs
<1>9. CASE NewGame
  <2>1. stack = <<>> /\ stack' = <<>>
    BY <1>9 DEF NewGame
  <2>2. QED
    BY <2>1, EmptySeq DEF Own, Nested, DiscardIsOwn, EventIsOwn, Depth
<1>10. QED
  BY <1>1, <1>2, <1>3, <1>4, <1>5, <1>6, <1>7, <1>8, <1>9
  DEF Next, Code, Dispatch, vars, listen, subscribe

(* Unless a callback has raised another event, the flag is that of the     *)
(* event being dispatched, and currentEvent is this event.                 *)
THEOREM DiscardsOwn == Spec => []OwnState
<1>1. Init => Own
  BY EmptySeq DEF Init, Own, Nested, DiscardIsOwn, EventIsOwn, Depth
<1>2. Own => OwnState
  BY DEF Own, OwnState
<1>3. QED
  BY <1>1, <1>2, NextOwn, DispatcherTypes, PTL DEF Spec

-----------------------------------------------------------------------------
(* The level.                                                              *)

LEMMA LevelSteps ==
  ASSUME TypeOK
  PROVE  /\ Looping \in 0..MaxDepth /\ base \in 0..MaxDepth /\ Looping - base \in Int
         /\ (((Looping - base) % Wrap) + 1) % Wrap = (Looping + 1 - base) % Wrap
         /\ (((Looping - base) % Wrap) - 1) % Wrap = (Looping - 1 - base) % Wrap
<1>1. Looping \in 0..MaxDepth /\ base \in 0..MaxDepth /\ MaxDepth \in Nat
  BY LevelRange, DispatcherAssumption DEF TypeOK, DispatcherAssumption
<1>2. Wrap \in Nat /\ Wrap > 0 /\ MaxDepth + 1 < Wrap
  BY <1>1, DispatcherAssumption DEF DispatcherAssumption
<1> DEFINE x == Looping - base
<1>3. /\ x \in Int /\ -Wrap < x /\ x + 1 < Wrap
      /\ x - 1 \in Int /\ -Wrap < x - 1 /\ x - 1 + 1 < Wrap /\ x - 1 + 1 = x
      /\ Looping + 1 - base = x + 1 /\ Looping - 1 - base = x - 1
  BY <1>1, <1>2
<1> HIDE DEF x
<1>4. ((x % Wrap) + 1) % Wrap = (x + 1) % Wrap
  BY <1>2, <1>3, ModSteps
<1>5. ((x % Wrap) - 1) % Wrap = (x - 1) % Wrap
  <2>1. (((x - 1 + 1) % Wrap) - 1) % Wrap = (x - 1) % Wrap
    BY <1>2, <1>3, ModSteps
  <2>2. QED
    BY <1>3, <2>1
<1>6. QED
  BY <1>1, <1>3, <1>4, <1>5 DEF x

LEMMA NextLevel == TypeOK /\ LevelCounts /\ [Next]_vars => LevelCounts'
<1> SUFFICES ASSUME TypeOK, LevelCounts, [Next]_vars PROVE LevelCounts'
  OBVIOUS
<1>1. CASE Looping' = Looping /\ UNCHANGED <<DispatchedLevel, base>>
  BY <1>1 DEF LevelCounts
<1>2. CASE stack' = stack /\ UNCHANGED <<DispatchedLevel, base>>
  BY <1>1, <1>2 DEF Looping
<1>3. CASE DiscardCurrentEvent
  <2>1. stack # <<>> /\ Becomes([Top EXCEPT !.discarded = TRUE]) /\ UNCHANGED <<DispatchedLevel, base>>
    BY <1>3 DEF DiscardCurrentEvent
  <2>2. /\ [Top EXCEPT !.discarded = TRUE] \in Frame
        /\ [Top EXCEPT !.discarded = TRUE].stage = Top.stage
    BY <2>1, TopTyped DEF Frame
  <2>3. QED
    BY <1>1, <2>1, <2>2, StackBecomes
<1>4. ASSUME NEW o \in EventObject, NEW e \in EventId, DispatchDropped(o, e) PROVE LevelCounts'
  <2>1. DispatchedLevel' = 0 /\ base' = Looping /\ Looping' = Looping
    BY <1>4, StackRaised DEF DispatchDropped, ResetLevel, Looping
  <2>2. Wrap \in Nat /\ Wrap > 0 /\ Looping \in Nat
    BY LevelSteps, DispatcherAssumption DEF DispatcherAssumption
  <2>3. Looping - Looping = 0 /\ 0 % Wrap = 0
    BY <2>2, ModSmall
  <2>4. QED
    BY <2>1, <2>3 DEF LevelCounts
<1>5. ASSUME NEW o \in EventObject, NEW e \in EventId, DispatchEvent(o, e) PROVE LevelCounts'
  BY <1>1, <1>5, StackPushed DEF DispatchEvent
<1>6. CASE CallSubscriber \/ CallListener
  <2>1. PICK f \in Frame : stack # <<>> /\ Becomes(f) /\ f.stage = Top.stage
    BY <1>6, StackCalls
  <2>2. UNCHANGED <<DispatchedLevel, base>>
    BY <1>6 DEF CallSubscriber, CallListener, Call
  <2>3. QED
    BY <1>1, <2>1, <2>2, StackBecomes
<1>7. CASE CallbackReturns
  <2> DEFINE f == [Top EXCEPT !.calls = FALSE, !.i = @ + 1]
  <2>1. stack # <<>> /\ Becomes(f) /\ UNCHANGED <<DispatchedLevel, base>>
    BY <1>7 DEF CallbackReturns
  <2>2. f \in Frame /\ f.stage = Top.stage
    <3>1. Top \in Frame /\ Top.i + 1 \in Nat \ {0}
      BY <2>1, TopTyped DEF Frame
    <3>2. QED
      BY <3>1 DEF Frame
  <2> HIDE DEF f
  <2>3. QED
    BY <1>1, <2>1, <2>2, StackBecomes
<1>8. CASE FindListeners
  <2>1. stack # <<>> /\ Top.stage = "subscribers" /\ base' = base
    BY <1>8 DEF FindListeners, Runs
  <2>2. CASE Return /\ UNCHANGED DispatchedLevel
    BY <1>1, <2>1, <2>2, StackReturns
  <2>3. ASSUME DispatchedLevel' = (DispatchedLevel + 1) % Wrap,
               Becomes([Top EXCEPT !.stage = "listeners", !.i = 1, !.evtid = id[Top.evt]])
        PROVE LevelCounts'
    <3> DEFINE f == [Top EXCEPT !.stage = "listeners", !.i = 1, !.evtid = id[Top.evt]]
    <3>1. f \in Frame /\ f.stage = "listeners"
      BY <2>1, TopFinds
    <3>2. Becomes(f)
      BY <2>3
    <3> HIDE DEF f
    <3>3. Looping' = Looping + 1
      BY <2>1, <3>1, <3>2, StackBecomes
    <3>4. QED
      BY <2>1, <2>3, <3>3, LevelSteps DEF LevelCounts
  <2>4. QED
    BY <1>8, <2>2, <2>3 DEF FindListeners
<1>9. CASE DispatchReturns
  <2>1. /\ stack # <<>> /\ Top.stage = "listeners" /\ Return /\ base' = base
        /\ DispatchedLevel' = (DispatchedLevel - 1) % Wrap
    BY <1>9 DEF DispatchReturns, Runs
  <2>2. Looping' = Looping - 1
    BY <2>1, StackReturns
  <2>3. QED
    BY <2>1, <2>2, LevelSteps DEF LevelCounts
<1>10. QED
  BY <1>2, <1>3, <1>4, <1>5, <1>6, <1>7, <1>8, <1>9
  DEF Next, Code, Dispatch, vars, listen, subscribe, NewGame

(* The level counts the loops begun since the limit was last reached, less *)
(* those ended, modulo 2^32.                                               *)
THEOREM LevelsCounted == Spec => []LevelCounts
<1>1. Init => LevelCounts
  <2> SUFFICES ASSUME Init PROVE LevelCounts
    OBVIOUS
  <2>1. Loops(stack) = {}
    BY EmptySeq DEF Init, Loops
  <2>2. Looping = 0
    BY <2>1, FS_EmptySet DEF Looping
  <2>3. 0 % Wrap = 0
    BY ModSmall, DispatcherAssumption DEF DispatcherAssumption
  <2>4. QED
    BY <2>2, <2>3 DEF Init, LevelCounts
<1>2. QED
  BY <1>1, NextLevel, DispatcherTypes, PTL DEF Spec

(* Between two events the level never creeps up to the limit, and no event *)
(* is dropped before the limit has been reached.                           *)
THEOREM LevelsHeld == Spec => []LevelHeld
<1>1. TypeOK /\ LevelCounts => LevelHeld
  <2> SUFFICES ASSUME TypeOK, LevelCounts PROVE LevelHeld
    OBVIOUS
  <2>1. /\ Wrap \in Nat /\ Wrap > 0 /\ MaxLevel \in Nat \ {0} /\ MaxDepth \in Nat
        /\ MaxLevel + MaxDepth < Wrap
    BY DispatcherAssumption DEF DispatcherAssumption
  <2>2. Looping \in 0..MaxDepth /\ base \in 0..MaxDepth
    BY LevelSteps
  <2>3. DispatchedLevel = (Looping - base) % Wrap
    BY DEF LevelCounts
  <2>4. ASSUME stack = <<>> PROVE DispatchedLevel = 0 \/ AtLimit
    <3>1. Loops(stack) = {}
      BY <2>4, EmptySeq DEF Loops
    <3>2. Looping = 0
      BY <3>1, FS_EmptySet DEF Looping
    <3> DEFINE x == Looping - base
    <3>3. x \in Int /\ x <= 0 /\ -Wrap <= x /\ x + Wrap >= MaxLevel
      BY <2>1, <2>2, <3>2
    <3>4. DispatchedLevel = x % Wrap
      BY <2>3
    <3> HIDE DEF x
    <3>5. CASE x = 0
      BY <2>1, <3>4, <3>5, ModSmall
    <3>6. CASE x < 0
      BY <2>1, <3>3, <3>4, <3>6, ModSmall DEF AtLimit
    <3>7. QED
      BY <3>3, <3>5, <3>6
  <2>5. ASSUME AtLimit, base = 0 PROVE Looping >= MaxLevel
    <3>1. Looping - base = Looping /\ Looping \in Int /\ 0 <= Looping /\ Looping < Wrap
      BY <2>1, <2>2, <2>5
    <3>2. DispatchedLevel = Looping
      BY <2>1, <2>3, <3>1, ModSmall
    <3>3. QED
      BY <2>5, <3>2 DEF AtLimit
  <2>6. QED
    BY <2>4, <2>5 DEF LevelHeld, IdleLevel, DroppedAtLimit
<1>2. QED
  BY <1>1, LevelsCounted, DispatcherTypes, PTL
=============================================================================
