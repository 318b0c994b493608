---------------------------- MODULE Timer_proofs ----------------------------
(***************************************************************************)
(* What holds of the timers for every number of timers, every timeout and  *)
(* every width of the clock: types; that the queues hold each started      *)
(* timer once, so that no callback runs on, and no update touches, a timer *)
(* that has been deleted; and that time is kept exactly, and no due timer  *)
(* passed over more often than there are timers, if ticks are short.       *)
(***************************************************************************)
EXTENDS Timer, FiniteSetTheorems, SequenceTheorems, TLAPS

-----------------------------------------------------------------------------
(* Sequences without repetition.                                           *)

(* Appending a new element.                                                *)
LEMMA AppendOnce ==
  ASSUME NEW S, NEW s \in Seq(S), NEW x \in S, IsInjective(s), x \notin Range(s)
  PROVE  /\ Append(s, x) \in Seq(S)
         /\ IsInjective(Append(s, x))
         /\ Range(Append(s, x)) = Range(s) \cup {x}
<1>1. /\ Append(s, x) \in Seq(S)
      /\ Len(Append(s, x)) = Len(s) + 1
      /\ \A j \in 1..Len(s) : Append(s, x)[j] = s[j]
      /\ Append(s, x)[Len(s) + 1] = x
  BY AppendProperties
<1>2. Len(s) \in Nat /\ DOMAIN s = 1..Len(s) /\ DOMAIN Append(s, x) = 1..Len(s) + 1
  BY <1>1, LenProperties
<1>3. \A j \in 1..Len(s) : s[j] \in Range(s)
  BY <1>2 DEF Range
<1>4. IsInjective(Append(s, x))
  BY <1>1, <1>2, <1>3 DEF IsInjective
<1>5. Range(Append(s, x)) = Range(s) \cup {x}
  <2>1. ASSUME NEW y \in Range(Append(s, x)) PROVE y \in Range(s) \cup {x}
    BY <1>1, <1>2, <1>3, <2>1 DEF Range
  <2>2. ASSUME NEW y \in Range(s) PROVE y \in Range(Append(s, x))
    <3>1. PICK j \in 1..Len(s) : y = s[j]
      BY <1>2 DEF Range
    <3> QED
      BY <1>1, <1>2, <3>1 DEF Range
  <2>3. x \in Range(Append(s, x))
    BY <1>1, <1>2 DEF Range
  <2> QED
    BY <2>1, <2>2, <2>3
<1> QED
  BY <1>1, <1>4, <1>5

(* What RemoveAt returns.                                                  *)
LEMMA RemoveAtProperties ==
  ASSUME NEW S, NEW s \in Seq(S), NEW n \in 1..Len(s)
  PROVE  /\ RemoveAt(s, n) \in Seq(S)
         /\ Len(RemoveAt(s, n)) = Len(s) - 1
         /\ \A j \in 1..Len(s) - 1 : RemoveAt(s, n)[j] = IF j < n THEN s[j] ELSE s[j + 1]
<1> DEFINE a == SubSeq(s, 1, n - 1)  b == SubSeq(s, n + 1, Len(s))
<1>1. Len(s) \in Nat /\ \A j \in 1..Len(s) : s[j] \in S
  BY LenProperties, ElementOfSeq
<1>2. /\ a \in Seq(S) /\ Len(a) = n - 1
      /\ \A j \in 1..n - 1 : a[j] = s[j]
  <2>1. \A j \in 1..n - 1 : s[j] \in S
    BY <1>1
  <2>2. n - 1 \in Int /\ n - 1 - 1 + 1 = n - 1 /\ (1 <= n - 1 \/ n - 1 = 0)
    BY <1>1
  <2>3. /\ a \in Seq(S)
        /\ Len(a) = IF 1 <= n - 1 THEN (n - 1) - 1 + 1 ELSE 0
        /\ \A j \in 1..(n - 1) - 1 + 1 : a[j] = s[1 + j - 1]
    BY <2>1, <2>2, SubSeqProperties
  <2> QED
    BY <2>2, <2>3
<1>3. /\ b \in Seq(S) /\ Len(b) = Len(s) - n
      /\ \A j \in 1..Len(s) - n : b[j] = s[n + j]
  <2>1. \A j \in n + 1..Len(s) : s[j] \in S
    BY <1>1
  <2>2. n + 1 \in Int /\ Len(s) \in Int
    BY <1>1
  <2>3. /\ b \in Seq(S)
        /\ Len(b) = IF n + 1 <= Len(s) THEN Len(s) - (n + 1) + 1 ELSE 0
        /\ \A j \in 1..Len(s) - (n + 1) + 1 : b[j] = s[(n + 1) + j - 1]
    BY <2>1, <2>2, SubSeqProperties
  <2> QED
    BY <1>1, <2>3
<1> HIDE DEF a, b
<1>4. /\ a \o b \in Seq(S) /\ Len(a \o b) = Len(a) + Len(b)
      /\ \A j \in 1..Len(a) + Len(b) : (a \o b)[j] = IF j <= Len(a) THEN a[j] ELSE b[j - Len(a)]
  BY <1>2, <1>3, ConcatProperties
<1>5. RemoveAt(s, n) = a \o b
  BY DEF RemoveAt, a, b
<1>6. ASSUME NEW j \in 1..Len(s) - 1
      PROVE  (a \o b)[j] = IF j < n THEN s[j] ELSE s[j + 1]
  <2>1. CASE j < n
    BY <1>1, <1>2, <1>3, <1>4, <2>1
  <2>2. CASE ~(j < n)
    <3>1. (a \o b)[j] = b[j - (n - 1)] /\ j - (n - 1) \in 1..Len(s) - n
      BY <1>1, <1>2, <1>3, <1>4, <2>2
    <3>2. n + (j - (n - 1)) = j + 1
      BY <1>1
    <3> QED
      BY <1>3, <2>2, <3>1, <3>2
  <2> QED
    BY <2>1, <2>2
<1>7. Len(a \o b) = Len(s) - 1
  BY <1>1, <1>2, <1>3, <1>4
<1>8. \A j \in 1..Len(s) - 1 : (a \o b)[j] = IF j < n THEN s[j] ELSE s[j + 1]
  BY <1>6
<1> QED
  BY <1>4, <1>5, <1>7, <1>8, Zenon

(* Removing the n-th element.                                              *)
LEMMA RemoveAtOnce ==
  ASSUME NEW S, NEW s \in Seq(S), NEW n \in 1..Len(s), IsInjective(s)
  PROVE  /\ IsInjective(RemoveAt(s, n))
         /\ Range(RemoveAt(s, n)) = Range(s) \ {s[n]}
<1> DEFINE r == RemoveAt(s, n)
<1>1. /\ r \in Seq(S) /\ Len(r) = Len(s) - 1
      /\ \A j \in 1..Len(s) - 1 : r[j] = IF j < n THEN s[j] ELSE s[j + 1]
  BY RemoveAtProperties
<1>2. Len(s) \in Nat /\ DOMAIN s = 1..Len(s) /\ DOMAIN r = 1..Len(s) - 1
  BY <1>1, LenProperties
<1>3. \A j, k \in 1..Len(s) : s[j] = s[k] => j = k
  BY <1>2 DEF IsInjective
<1> HIDE DEF r
<1>4. IsInjective(r)
  <2> SUFFICES ASSUME NEW j \in 1..Len(s) - 1, NEW k \in 1..Len(s) - 1, r[j] = r[k]
               PROVE  j = k
    BY <1>2 DEF IsInjective
  <2> QED
    BY <1>1, <1>2, <1>3
<1>5. ASSUME NEW y \in Range(r) PROVE y \in Range(s) \ {s[n]}
  <2>1. PICK j \in 1..Len(s) - 1 : y = r[j]
    BY <1>2 DEF Range
  <2>2. PICK k \in 1..Len(s) : y = s[k] /\ k # n
    BY <1>1, <1>2, <2>1
  <2> QED
    BY <1>2, <1>3, <2>2 DEF Range
<1>6. ASSUME NEW y \in Range(s) \ {s[n]} PROVE y \in Range(r)
  <2>1. PICK k \in 1..Len(s) : y = s[k] /\ k # n
    BY <1>2 DEF Range
  <2>2. CASE k < n
    <3>1. k \in 1..Len(s) - 1 /\ r[k] = y
      BY <1>1, <1>2, <2>1, <2>2
    <3> QED
      BY <1>2, <3>1 DEF Range
  <2>3. CASE ~(k < n)
    <3>1. k - 1 \in 1..Len(s) - 1 /\ r[k - 1] = y
      BY <1>1, <1>2, <2>1, <2>3
    <3> QED
      BY <1>2, <3>1 DEF Range
  <2> QED
    BY <2>2, <2>3
<1> QED
  BY <1>4, <1>5, <1>6 DEF r

(* Removing from the first part of a concatenation.                        *)
LEMMA RemoveAtConcat ==
  ASSUME NEW S, NEW s \in Seq(S), NEW u \in Seq(S), NEW n \in 1..Len(s)
  PROVE  RemoveAt(s, n) \o u = RemoveAt(s \o u, n)
<1> DEFINE c == s \o u
           rs == RemoveAt(s, n)
           rc == RemoveAt(c, n)
           l == rs \o u
<1>1. Len(s) \in Nat /\ Len(u) \in Nat
  BY LenProperties
<1>2. /\ c \in Seq(S) /\ Len(c) = Len(s) + Len(u)
      /\ \A j \in 1..Len(s) + Len(u) : c[j] = IF j <= Len(s) THEN s[j] ELSE u[j - Len(s)]
  BY ConcatProperties
<1>3. /\ rs \in Seq(S) /\ Len(rs) = Len(s) - 1
      /\ \A j \in 1..Len(s) - 1 : rs[j] = IF j < n THEN s[j] ELSE s[j + 1]
  BY RemoveAtProperties
<1> HIDE DEF c
<1>4. /\ rc \in Seq(S) /\ Len(rc) = Len(c) - 1
      /\ \A j \in 1..Len(c) - 1 : rc[j] = IF j < n THEN c[j] ELSE c[j + 1]
  <2>1. n \in 1..Len(c)
    BY <1>1, <1>2
  <2> QED
    BY <1>2, <2>1, RemoveAtProperties
<1> HIDE DEF rs, rc
<1>5. /\ l \in Seq(S) /\ Len(l) = Len(rs) + Len(u)
      /\ \A j \in 1..Len(rs) + Len(u) : l[j] = IF j <= Len(rs) THEN rs[j] ELSE u[j - Len(rs)]
  BY <1>3, ConcatProperties
<1> HIDE DEF l
<1>6. ASSUME NEW j \in 1..Len(l) PROVE l[j] = rc[j]
  <2>1. j \in 1..Len(s) + Len(u) - 1 /\ j \in Int /\ n \in Int
    BY <1>1, <1>3, <1>5
  <2>2. l[j] = IF j <= Len(s) - 1 THEN rs[j] ELSE u[j + 1 - Len(s)]
    <3>1. j - (Len(s) - 1) = j + 1 - Len(s)
      BY <1>1, <2>1
    <3> QED
      BY <1>3, <1>5, <2>1, <3>1
  <2>3. rc[j] = IF j < n THEN c[j] ELSE c[j + 1]
    BY <1>1, <1>2, <1>4, <2>1
  <2>4. CASE j < n
    BY <1>1, <1>2, <1>3, <2>1, <2>2, <2>3, <2>4
  <2>5. CASE n <= j /\ j <= Len(s) - 1
    BY <1>1, <1>2, <1>3, <2>1, <2>2, <2>3, <2>5
  <2>6. CASE j > Len(s) - 1
    BY <1>1, <1>2, <2>1, <2>2, <2>3, <2>6
  <2> QED
    BY <1>1, <2>1, <2>4, <2>5, <2>6
<1>7. Len(l) = Len(rc)
  BY <1>1, <1>2, <1>3, <1>4, <1>5
<1>8. \A j \in 1..Len(l) : l[j] = rc[j]
  BY <1>6
<1>9. l = rc
  BY <1>4, <1>5, <1>7, <1>8, SeqEqual
<1> QED
  BY <1>9 DEF l, rs, rc, c

-----------------------------------------------------------------------------
(* The clock.                                                              *)

(* Differences of times and what is left of a timeout are times again.     *)
LEMMA TimeTypes ==
  /\ \A d \in Int : d % Wrap \in 0..Wrap - 1
  /\ \A a \in 0..Wrap - 1, b \in Nat : Monus(a, b) \in 0..Wrap - 1
<1>1. \A d \in Int : d % Wrap \in 0..Wrap - 1
  BY TimerAssumption
<1> QED
  BY <1>1, TimerAssumption DEF Monus

LEMMA MaxTurnsType == MaxTurns \in Nat \ {0}
  BY TimerAssumption, FS_CardinalityType DEF MaxTurns

-----------------------------------------------------------------------------
(* Types.                                                                  *)

(***************************************************************************)
(* TypeOK is inductive with the place of the iterator: it is at the front  *)
(* before the loop and at a timer while a callback runs.                   *)
(***************************************************************************)
Position ==
  /\ phase \in {"idle", "ticks"} => i = 1
  /\ phase = "callback" => i <= Len(TimerQueue)

Typed == TypeOK /\ Position

(* What client code does.                                                  *)
LEMMA ClientTyped ==
  ASSUME Typed, Client
  PROVE  Typed'
<1>1. PICK t \in Timers :
        \/ \E k \in Kind : New(t, k) \/ SetTimeout(t, k.timeout)
        \/ Start(t) \/ Pause(t) \/ Destroy(t)
  BY DEF Client
<1>2. tm \in [Timers -> TimerFields] /\ tm[t] \in TimerFields
  BY DEF Typed, TypeOK
<1>3. CASE \E k \in Kind : New(t, k)
  <2>1. PICK k \in Kind : New(t, k)
    BY <1>3
  <2>2. Created(k) \in TimerFields
    BY TimerAssumption DEF Created, TimerFields
  <2>3. tm' \in [Timers -> TimerFields]
    BY <1>2, <2>1, <2>2 DEF New
  <2> QED
    BY <2>1, <2>3 DEF New, Typed, TypeOK, Position, queues, history
<1>4. CASE \E k \in Kind : SetTimeout(t, k.timeout)
  <2>1. PICK k \in Kind : SetTimeout(t, k.timeout)
    BY <1>4
  <2>2. k.timeout \in 0..Wrap - 1
    BY TimerAssumption
  <2>3. tm' \in [Timers -> TimerFields]
    BY <1>2, <2>1, <2>2 DEF SetTimeout, TimerFields
  <2> QED
    BY <2>1, <2>3 DEF SetTimeout, Typed, TypeOK, Position, queues, history
<1>5. CASE Start(t)
  <2>1. tm' \in [Timers -> TimerFields]
    BY <1>2, <1>5 DEF Start, TimerFields, Typed, TypeOK
  <2>2. TaskQueue' \in Seq(Timers)
    BY <1>5, AppendProperties DEF Start, Typed, TypeOK
  <2>3. clock' \in [Timers -> 0..Wrap - 1]
    BY <1>2, <1>5 DEF Start, TimerFields, Typed, TypeOK
  <2>4. turns' \in [Timers -> 0..MaxTurns]
    BY <1>5, MaxTurnsType DEF Start, Typed, TypeOK
  <2> QED
    BY <1>5, <2>1, <2>2, <2>3, <2>4 DEF Start, Typed, TypeOK, Position
<1>6. CASE Pause(t) \/ Destroy(t)
  <2>1. tm' \in [Timers -> TimerFields]
    <3>1. /\ [tm[t] EXCEPT !.paused = TRUE] \in TimerFields
          /\ [tm[t] EXCEPT !.disposed = TRUE] \in TimerFields
      BY <1>2 DEF TimerFields
    <3>2. CASE Pause(t)
      BY <1>2, <3>1, <3>2 DEF Pause
    <3>3. CASE Destroy(t)
      BY <1>2, <3>1, <3>3 DEF Destroy
    <3> QED
      BY <1>6, <3>2, <3>3
  <2>2. UNCHANGED <<live, leaked, TimerQueue, TaskQueue, inGame, now, phase, i, clock, turns>>
    BY <1>6 DEF Pause, Destroy, queues, history
  <2> QED
    BY <2>1, <2>2 DEF Typed, TypeOK, Position
<1> QED
  BY <1>1, <1>3, <1>4, <1>5, <1>6

(* What deleting the timer at the iterator leaves.                         *)
LEMMA DeleteTyped ==
  ASSUME Typed, i <= Len(TimerQueue), Delete(TimerQueue[i])
  PROVE  /\ tm' \in [Timers -> TimerFields]
         /\ live' \subseteq Timers
         /\ TimerQueue' \in Seq(Timers)
         /\ Len(TimerQueue') = Len(TimerQueue) - 1
         /\ clock' \in [Timers -> 0..Wrap - 1]
         /\ turns' \in [Timers -> 0..MaxTurns]
<1>1. TimerQueue \in Seq(Timers) /\ i \in 1..Len(TimerQueue)
  BY LenProperties DEF Typed, TypeOK
<1>2. TimerQueue' \in Seq(Timers) /\ Len(TimerQueue') = Len(TimerQueue) - 1
  BY <1>1, RemoveAtProperties DEF Delete
<1>3. Blank \in TimerFields
  BY TimerAssumption DEF Blank, Created, TimerFields
<1>4. tm' \in [Timers -> TimerFields]
  BY <1>3 DEF Delete, Typed, TypeOK
<1>5. clock' \in [Timers -> 0..Wrap - 1] /\ turns' \in [Timers -> 0..MaxTurns]
  BY TimerAssumption, MaxTurnsType DEF Delete, Typed, TypeOK
<1> QED
  BY <1>2, <1>4, <1>5 DEF Delete, Typed, TypeOK

(* A tick begins.                                                          *)
LEMMA TickTyped ==
  ASSUME Typed, Tick
  PROVE  Typed'
<1>1. PICK d \in Elapse :
        /\ now' = (now + d) % Wrap
        /\ clock' = [t \in Timers |-> IF Running(t) THEN Monus(clock[t], d) ELSE clock[t]]
        /\ turns' = [t \in Timers |->
                       IF Running(t) /\ clock[t] <= d /\ turns[t] < MaxTurns
                       THEN turns[t] + 1 ELSE turns[t]]
  BY DEF Tick
<1>2. d \in Nat
  BY TimerAssumption
<1>3. now' \in 0..Wrap - 1
  <2>1. now + d \in Int
    BY <1>2, TimerAssumption DEF Typed, TypeOK
  <2> QED
    BY <1>1, <2>1, TimeTypes
<1>4. clock' \in [Timers -> 0..Wrap - 1]
  BY <1>1, <1>2, TimeTypes DEF Typed, TypeOK
<1>5. turns' \in [Timers -> 0..MaxTurns]
  BY <1>1, MaxTurnsType DEF Typed, TypeOK
<1> QED
  BY <1>3, <1>4, <1>5 DEF Tick, Typed, TypeOK, Position, Phase, objects, queues

(* Timer_Update, up to a callback and after it.                            *)
LEMMA UpdateTyped ==
  ASSUME Typed, Timer_Update
  PROVE  Typed'
<1> USE DEF Typed, TypeOK, Position, Phase
<1>1. CASE DoUpdateTasks
  <2>1. TimerQueue' \in Seq(Timers) /\ TaskQueue' \in Seq(Timers)
    BY <1>1, ConcatProperties, EmptySeq DEF DoUpdateTasks
  <2>2. i' \in 1..Len(TimerQueue)' + 1
    BY <1>1, <2>1, LenProperties DEF DoUpdateTasks
  <2> QED
    BY <1>1, <2>1, <2>2 DEF DoUpdateTasks, objects, history
<1>2. CASE LoopEnds
  BY <1>2, LenProperties DEF LoopEnds, objects, queues, history
<1>3. CASE ~DoUpdateTasks /\ ~LoopEnds
  <2>1. i <= Len(TimerQueue) /\ phase \in {"loop", "callback"}
    BY <1>3 DEF Timer_Update, Looping, DeleteDisposed, UpdatePaused, Wait, Expire,
                CallbackRestarts, CallbackDeletes, CallbackReturns
  <2> DEFINE t == TimerQueue[i]
  <2>2. /\ Len(TimerQueue) \in Nat /\ i \in 1..Len(TimerQueue)
        /\ i + 1 \in 1..Len(TimerQueue) + 1
        /\ t \in Timers /\ tm[t] \in TimerFields
    BY <2>1, LenProperties, ElementOfSeq
  <2> HIDE DEF t
  <2>3. Remaining(t) \in 0..Wrap - 1
    <3>1. tm[t].remaining \in 0..Wrap - 1 /\ now - tm[t].last \in Int
      BY <2>2, TimerAssumption DEF TimerFields
    <3>2. (now - tm[t].last) % Wrap \in 0..Wrap - 1
      BY <3>1, TimeTypes
    <3>3. (now - tm[t].last) % Wrap \in Nat
      BY <3>2
    <3> QED
      BY <3>1, <3>3, TimeTypes DEF Remaining
  <2>4. CASE DeleteDisposed
    <3>1. i' \in 1..Len(TimerQueue)' + 1
      <4>1. Len(TimerQueue') = Len(TimerQueue) - 1 /\ i' = i
        BY <2>1, <2>4, DeleteTyped DEF DeleteDisposed
      <4> QED
        BY <2>2, <4>1
    <3>2. phase = "loop" /\ UNCHANGED <<leaked, TaskQueue, inGame, now, phase, i>>
      BY <2>4 DEF DeleteDisposed, Looping
    <3>3. /\ tm' \in [Timers -> TimerFields] /\ live' \subseteq Timers
          /\ TimerQueue' \in Seq(Timers)
          /\ clock' \in [Timers -> 0..Wrap - 1] /\ turns' \in [Timers -> 0..MaxTurns]
      BY <2>1, <2>4, DeleteTyped DEF DeleteDisposed
    <3> QED
      BY <3>1, <3>2, <3>3
  <2>5. CASE UpdatePaused
    <3>1. tm' \in [Timers -> TimerFields]
      BY <2>2, <2>5 DEF UpdatePaused, TimerFields, t
    <3> QED
      BY <2>2, <2>5, <3>1 DEF UpdatePaused, Looping, queues, history
  <2>6. CASE Wait
    <3>1. tm' \in [Timers -> TimerFields]
      BY <2>2, <2>3, <2>6 DEF Wait, TimerFields, t
    <3> QED
      BY <2>2, <2>6, <3>1 DEF Wait, Looping, queues, history
  <2>7. CASE Expire
    <3>1. tm' \in [Timers -> TimerFields]
      <4>1. 0 \in 0..Wrap - 1 /\ now \in 0..Wrap - 1
        BY TimerAssumption
      <4>2. tm' = [tm EXCEPT ![t].remaining = 0, ![t].last = now, ![t].paused = TRUE]
        BY <2>7 DEF Expire, t
      <4> QED
        BY <2>2, <4>1, <4>2 DEF TimerFields
    <3>2. /\ UNCHANGED <<live, leaked, TimerQueue, TaskQueue, inGame, now, i, clock, turns>>
          /\ phase' = "callback"
      BY <2>7 DEF Expire, queues, history
    <3> QED
      BY <2>1, <3>1, <3>2
  <2>8. CASE CallbackRestarts
    <3>1. tm' \in [Timers -> TimerFields]
      BY <2>2, <2>8 DEF CallbackRestarts, Current, TimerFields, t
    <3>2. clock' \in [Timers -> 0..Wrap - 1] /\ turns' \in [Timers -> 0..MaxTurns]
      <4>1. tm[t].timeout \in 0..Wrap - 1 /\ 0 \in 0..MaxTurns
        BY <2>2, MaxTurnsType DEF TimerFields
      <4>2. clock' = [clock EXCEPT ![t] = tm[t].timeout] /\ turns' = [turns EXCEPT ![t] = 0]
        BY <2>8 DEF CallbackRestarts, Current, t
      <4> QED
        BY <2>2, <4>1, <4>2
    <3>3. /\ UNCHANGED <<live, leaked, TimerQueue, TaskQueue, inGame, now>>
          /\ phase' = "loop" /\ i' = i + 1
      BY <2>8 DEF CallbackRestarts, queues
    <3> QED
      BY <2>2, <3>1, <3>2, <3>3
  <2>9. CASE CallbackDeletes
    <3>1. i' \in 1..Len(TimerQueue)' + 1
      BY <2>1, <2>2, <2>9, DeleteTyped DEF CallbackDeletes, Current
    <3> QED
      BY <2>1, <2>9, <3>1, DeleteTyped DEF CallbackDeletes, Current, Delete
  <2>10. CASE CallbackReturns
    <3>1. tm' \in [Timers -> TimerFields]
      BY <2>2, <2>10 DEF CallbackReturns, Current, Disposes, TimerFields, t
    <3> QED
      BY <2>2, <2>10, <3>1 DEF CallbackReturns, queues, history
  <2> QED
    BY <1>3, <2>4, <2>5, <2>6, <2>7, <2>8, <2>9, <2>10 DEF Timer_Update
<1> QED
  BY <1>1, <1>2, <1>3

(* The start and the end of a game.                                        *)
LEMMA GameTyped ==
  ASSUME Typed, Game_Init \/ Game_Cleanup
  PROVE  Typed'
<1> USE DEF Typed, TypeOK, Position, Phase
<1>1. CASE Game_Init
  BY <1>1, TimerAssumption DEF Game_Init, objects, queues, history
<1>2. CASE Game_Cleanup
  <2>1. Blank \in TimerFields
    BY TimerAssumption DEF Blank, Created, TimerFields
  <2>2. /\ tm' \in [Timers -> TimerFields]
        /\ clock' \in [Timers -> 0..Wrap - 1] /\ turns' \in [Timers -> 0..MaxTurns]
    BY <1>2, <2>1, TimerAssumption, MaxTurnsType DEF Game_Cleanup
  <2>3. /\ TimerQueue' \in Seq(Timers) /\ TaskQueue' \in Seq(Timers)
        /\ Len(TimerQueue') = 0
    BY <1>2, EmptySeq DEF Game_Cleanup
  <2>4. i' = 1 /\ phase' = "idle"
    BY <1>2 DEF Game_Cleanup
  <2>6. i' \in 1..Len(TimerQueue') + 1
    BY <2>3, <2>4
  <2>5. leaked' \subseteq Timers /\ live' \subseteq Timers /\ now' = now /\ inGame' = FALSE
    BY <1>2 DEF Game_Cleanup
  <2> QED
    BY <2>2, <2>3, <2>4, <2>5, <2>6
<1> QED
  BY <1>1, <1>2

(***************************************************************************)
(* The fields of the timers, the queues and the iterator keep their types, *)
(* whatever clients do in callbacks (Timer_Update).                        *)
(***************************************************************************)
THEOREM TimerTypes == Spec => []Typed
<1>1. Init => Typed
  <2> SUFFICES ASSUME Init PROVE Typed
    OBVIOUS
  <2>1. Blank \in TimerFields
    BY TimerAssumption DEF Blank, Created, TimerFields
  <2>2. /\ TimerQueue \in Seq(Timers) /\ TaskQueue \in Seq(Timers)
        /\ i \in 1..Len(TimerQueue) + 1
    BY EmptySeq DEF Init
  <2>3. /\ tm \in [Timers -> TimerFields]
        /\ clock \in [Timers -> 0..Wrap - 1] /\ turns \in [Timers -> 0..MaxTurns]
    BY <2>1, TimerAssumption, MaxTurnsType DEF Init
  <2>4. /\ live = {} /\ leaked = {} /\ inGame = FALSE
        /\ now \in 0..Wrap - 1 /\ phase = "idle" /\ i = 1
    BY TimerAssumption DEF Init
  <2> QED
    BY <2>2, <2>3, <2>4 DEF Typed, TypeOK, Position, Phase
<1>2. Typed /\ [Next]_vars => Typed'
  <2>1. ASSUME Typed, UNCHANGED vars PROVE Typed'
    BY <2>1 DEF Typed, TypeOK, Position, vars, objects, queues, history
  <2> QED
    BY <2>1, ClientTyped, TickTyped, UpdateTyped, GameTyped DEF Next
<1> QED
  BY <1>1, <1>2, PTL DEF Spec

(* TypeOK, for every set of timers and every clock.                        *)
THEOREM TimerTypeOK == Spec => []TypeOK
  BY TimerTypes, PTL DEF Typed

-----------------------------------------------------------------------------
(* The queues.  Taken together they change in three ways only: a timer is  *)
(* appended, one is removed at the iterator, and a game ends.              *)

All == TimerQueue \o TaskQueue

Queued == IsInjective(All) /\ Range(All) = {t \in live : tm[t].added}

LEMMA AllType == Typed => All \in Seq(Timers)
  BY ConcatProperties DEF All, Typed, TypeOK

(* Steps that leave the queues and what is in them alone.                  *)
LEMMA QueuedFrame ==
  ASSUME Queued, All' = All, live' = live,
         \A t \in live : tm'[t].added = tm[t].added
  PROVE  Queued'
<1>1. {t \in live' : tm'[t].added} = {t \in live : tm[t].added}
  OBVIOUS
<1> QED
  BY <1>1 DEF Queued

LEMMA ClientQueued ==
  ASSUME Typed, Queued, Client
  PROVE  Queued'
<1>1. PICK t \in Timers :
        \/ \E k \in Kind : New(t, k) \/ SetTimeout(t, k.timeout)
        \/ Start(t) \/ Pause(t) \/ Destroy(t)
  BY DEF Client
<1>2. tm \in [Timers -> TimerFields] /\ live \subseteq Timers
  BY DEF Typed, TypeOK
<1>3. CASE \E k \in Kind : New(t, k)
  <2>1. PICK k \in Kind : New(t, k)
    BY <1>3
  <2>2. t \notin live /\ live' = live \cup {t} /\ All' = All
    BY <2>1 DEF New, queues, All
  <2>3. ~Created(k).added
    BY DEF Created
  <2>4. ~tm'[t].added /\ \A u \in live : tm'[u] = tm[u]
    BY <1>2, <2>1, <2>2, <2>3 DEF New
  <2>5. {u \in live' : tm'[u].added} = {u \in live : tm[u].added}
    BY <2>2, <2>4
  <2> QED
    BY <2>2, <2>5 DEF Queued
<1>4. CASE (\E k \in Kind : SetTimeout(t, k.timeout)) \/ Pause(t) \/ Destroy(t)
  <2>1. All' = All /\ live' = live
    BY <1>4 DEF SetTimeout, Pause, Destroy, queues, All
  <2>2. \A u \in live : tm'[u].added = tm[u].added
    BY <1>2, <1>4 DEF SetTimeout, Pause, Destroy, TimerFields
  <2> QED
    BY <2>1, <2>2, QueuedFrame
<1>5. CASE Start(t) /\ tm[t].added
  <2>1. All' = All /\ live' = live
    BY <1>5 DEF Start, All
  <2>2. \A u \in live : tm'[u].added = tm[u].added
    BY <1>2, <1>5 DEF Start, TimerFields
  <2> QED
    BY <2>1, <2>2, QueuedFrame
<1>6. CASE Start(t) /\ ~tm[t].added
  <2>1. /\ t \in live /\ live' = live
        /\ tm'[t].added = TRUE
        /\ \A u \in live \ {t} : tm'[u].added = tm[u].added
    BY <1>2, <1>6 DEF Start, TimerFields
  <2>2. All' = Append(All, t)
    <3>1. TimerQueue' = TimerQueue /\ TaskQueue' = Append(TaskQueue, t)
      BY <1>6 DEF Start
    <3>2. TimerQueue \in Seq(Timers) /\ TaskQueue \in Seq(Timers) /\ <<t>> \in Seq(Timers)
      BY DEF Typed, TypeOK
    <3>3. Append(TaskQueue, t) = TaskQueue \o <<t>> /\ Append(All, t) = All \o <<t>>
      BY <3>2, AllType, AppendIsConcat
    <3> QED
      BY <3>1, <3>2, <3>3, ConcatAssociative DEF All
  <2>3. IsInjective(All') /\ Range(All') = Range(All) \cup {t}
    <3>1. t \notin Range(All)
      BY <1>6 DEF Queued
    <3> QED
      BY <2>2, <3>1, AllType, AppendOnce DEF Queued
  <2>4. {u \in live' : tm'[u].added} = {u \in live : tm[u].added} \cup {t}
    BY <2>1
  <2> QED
    BY <2>3, <2>4 DEF Queued
<1> QED
  BY <1>1, <1>3, <1>4, <1>5, <1>6

(* A timer is deleted when it leaves the queues.                           *)
LEMMA DeleteQueued ==
  ASSUME Typed, Queued, i <= Len(TimerQueue), Delete(TimerQueue[i]), TaskQueue' = TaskQueue
  PROVE  Queued'
<1> DEFINE t == TimerQueue[i]
<1>1. /\ TimerQueue \in Seq(Timers) /\ TaskQueue \in Seq(Timers)
      /\ Len(TimerQueue) \in Nat /\ Len(TaskQueue) \in Nat /\ i \in 1..Len(TimerQueue)
      /\ t \in Timers
  BY LenProperties, ElementOfSeq DEF Typed, TypeOK
<1>2. All' = RemoveAt(All, i)
  BY <1>1, RemoveAtConcat DEF Delete, All
<1>3. i \in 1..Len(All) /\ All[i] = t
  BY <1>1, ConcatProperties DEF All
<1>4. IsInjective(All') /\ Range(All') = Range(All) \ {t}
  BY <1>2, <1>3, AllType, RemoveAtOnce DEF Queued
<1>5. {u \in live' : tm'[u].added} = {u \in live : tm[u].added} \ {t}
  BY <1>1 DEF Delete, Typed, TypeOK
<1> QED
  BY <1>4, <1>5 DEF Queued

LEMMA UpdateQueued ==
  ASSUME Typed, Queued, Timer_Update
  PROVE  Queued'
<1>1. CASE DoUpdateTasks
  <2>1. TimerQueue' = All /\ TaskQueue' = <<>> /\ live' = live /\ tm' = tm
    BY <1>1 DEF DoUpdateTasks, All, objects
  <2>2. All' = All
    BY <2>1, AllType, ConcatEmptySeq DEF All
  <2> QED
    BY <2>1, <2>2, QueuedFrame
<1>2. CASE LoopEnds
  BY <1>2, QueuedFrame DEF LoopEnds, objects, queues, All
<1>3. CASE DeleteDisposed \/ CallbackDeletes
  <2>1. /\ i <= Len(TimerQueue) /\ Delete(TimerQueue[i]) /\ TaskQueue' = TaskQueue
    BY <1>3 DEF DeleteDisposed, CallbackDeletes, Looping, Current, Typed, Position
  <2> QED
    BY <2>1, DeleteQueued
<1>4. CASE UpdatePaused \/ Wait \/ Expire \/ CallbackRestarts \/ CallbackReturns
  <2>1. All' = All /\ live' = live
    BY <1>4 DEF UpdatePaused, Wait, Expire, CallbackRestarts, CallbackReturns, queues, All
  <2>2. tm \in [Timers -> TimerFields] /\ live \subseteq Timers
    BY DEF Typed, TypeOK
  <2>3. ASSUME NEW u \in live
        PROVE  tm'[u].added = tm[u].added
    <3>1. tm[u] \in TimerFields
      BY <2>2
    <3>2. CASE UpdatePaused \/ Wait \/ Expire
      BY <2>2, <3>1, <3>2 DEF UpdatePaused, Wait, Expire, TimerFields
    <3>3. CASE CallbackRestarts \/ CallbackReturns
      BY <2>2, <3>1, <3>3 DEF CallbackRestarts, CallbackReturns, TimerFields
    <3> QED
      BY <1>4, <3>2, <3>3
  <2> QED
    BY <2>1, <2>3, QueuedFrame
<1> QED
  BY <1>1, <1>2, <1>3, <1>4 DEF Timer_Update

LEMMA GameQueued ==
  ASSUME Typed, Queued, Game_Init \/ Game_Cleanup \/ Tick \/ UNCHANGED vars
  PROVE  Queued'
<1>1. CASE Game_Init \/ Tick \/ UNCHANGED vars
  BY <1>1, QueuedFrame DEF Game_Init, Tick, vars, objects, queues, All
<1>2. CASE Game_Cleanup
  <2>1. All' = <<>> /\ live' = {}
    BY <1>2 DEF Game_Cleanup, All
  <2> QED
    BY <2>1 DEF Queued, IsInjective, Range
<1> QED
  BY <1>1, <1>2

(***************************************************************************)
(* Each started timer is in the queues once, and nothing that has been     *)
(* deleted is, however callbacks and Timer_Update interleave: no timer is  *)
(* deleted twice or updated after its deletion.                            *)
(***************************************************************************)
THEOREM TimersQueuedOnce == Spec => []QueuedOnce
<1>1. Init => Queued
  <2> SUFFICES ASSUME Init PROVE Queued
    OBVIOUS
  <2>1. All = <<>> /\ live = {}
    BY DEF Init, All
  <2> QED
    BY <2>1 DEF Queued, IsInjective, Range
<1>2. Typed /\ Queued /\ [Next]_vars => Queued'
  BY ClientQueued, UpdateQueued, GameQueued DEF Next
<1>3. Queued => QueuedOnce
  BY DEF Queued, QueuedOnce, All
<1>4. Spec => []Queued
  BY <1>1, <1>2, TimerTypes, PTL DEF Spec
<1> QED
  BY <1>3, <1>4, PTL

(***************************************************************************)
(* The timer whose callback runs exists and stays where update will look   *)
(* for it (Timer.cpp 147-160), whatever the callback does.                 *)
(***************************************************************************)
THEOREM CallbacksHold == Spec => []CallbackHoldsIts
<1>1. Typed /\ QueuedOnce => CallbackHoldsIts
  <2> SUFFICES ASSUME Typed, QueuedOnce, phase = "callback"
               PROVE  i <= Len(TimerQueue) /\ TimerQueue[i] \in live
    BY DEF CallbackHoldsIts
  <2>1. /\ TimerQueue \in Seq(Timers) /\ TaskQueue \in Seq(Timers)
        /\ Len(TimerQueue) \in Nat /\ Len(TaskQueue) \in Nat /\ i \in 1..Len(TimerQueue)
    BY LenProperties DEF Typed, TypeOK, Position
  <2>2. i \in DOMAIN All /\ All[i] = TimerQueue[i]
    BY <2>1, AllType, LenProperties, ConcatProperties DEF All
  <2>3. TimerQueue[i] \in Range(All)
    BY <2>2 DEF Range
  <2> QED
    BY <2>1, <2>3 DEF QueuedOnce, All
<1> QED
  BY <1>1, TimerTypes, TimersQueuedOnce, PTL

-----------------------------------------------------------------------------
(* Time.  A timer that is passed over in a tick moves forward in the queue,*)
(* so the time since its last update is bounded by its position: it never  *)
(* reaches the width of the clock if ticks are short enough for that.      *)

N == Cardinality(Timers)

(* D bounds the time between two ticks.                                    *)
Short(D) == (\A d \in Elapse : d <= D) /\ D * N < Wrap

Paced == \E D \in Nat : Short(D)

Period == CHOOSE D \in Nat : Short(D)

(* The time k ticks take.                                                  *)
Span(k) == Period * k

LEMMA Spans ==
  ASSUME Paced
  PROVE  /\ N \in Nat
         /\ Span(0) = 0 /\ Span(N) < Wrap
         /\ \A k \in Nat : Span(k) \in Nat
         /\ \A k \in Nat, d \in Elapse : Span(k) + d <= Span(k + 1)
         /\ \A j, k \in Nat : j <= k => Span(j) <= Span(k)
<1>1. Period \in Nat /\ Short(Period)
  BY DEF Paced, Period
<1>2. N \in Nat
  BY TimerAssumption, FS_CardinalityType DEF N
<1>3. \A D, k \in Nat : D * k \in Nat
  OBVIOUS
<1>4. \A D, k \in Nat : D * (k + 1) = D * k + D
  OBVIOUS
<1>5. \A D, j, k \in Nat : j <= k => D * j <= D * k
  OBVIOUS
<1>6. \A d \in Elapse : d \in Nat /\ d <= Period
  BY <1>1, TimerAssumption DEF Short
<1>7. Span(0) = 0 /\ Span(N) < Wrap
  BY <1>1 DEF Span, Short
<1>8. \A k \in Nat : Span(k) \in Nat /\ Span(k + 1) = Span(k) + Period
  BY <1>1, <1>3, <1>4 DEF Span
<1>9. \A j, k \in Nat : j <= k => Span(j) <= Span(k)
  BY <1>1, <1>5 DEF Span
<1> HIDE DEF Span
<1>10. \A k \in Nat, d \in Elapse : Span(k) + d <= Span(k + 1)
  BY <1>1, <1>6, <1>8
<1> QED
  BY <1>2, <1>7, <1>8, <1>9, <1>10

(* The queues hold no more than N timers.                                  *)
LEMMA QueuesBounded ==
  ASSUME Typed, Queued
  PROVE  /\ Len(TimerQueue) \in Nat /\ Len(TaskQueue) \in Nat /\ N \in Nat
         /\ Len(TimerQueue) + Len(TaskQueue) <= N
<1>1. /\ All \in Seq(Timers) /\ Len(TimerQueue) \in Nat /\ Len(TaskQueue) \in Nat
      /\ Len(All) = Len(TimerQueue) + Len(TaskQueue)
  BY AllType, LenProperties, ConcatProperties DEF All, Typed, TypeOK
<1>2. All \in Injection(1..Len(All), Timers)
  <2>1. All \in [1..Len(All) -> Timers]
    BY <1>1, LenProperties
  <2> QED
    BY <2>1 DEF Queued, Injection
<1>3. Cardinality(1..Len(All)) <= Cardinality(Timers)
  BY <1>2, FS_Injection, TimerAssumption
<1>4. Cardinality(1..Len(All)) = Len(All)
  BY <1>1, FS_Interval
<1> QED
  BY <1>1, <1>3, <1>4, TimerAssumption, FS_CardinalityType DEF N

(* The time since the last update of t.                                    *)
Age(t) == (now - tm[t].last) % Wrap

(* t, if it runs, has been passed over k times at most.  One that has      *)
(* nothing left may have been started before the game: its age means       *)
(* nothing, the clock having been reset since.                             *)
Within(t, k) ==
  Running(t) => (tm[t].remaining = 0 \/ Age(t) <= Span(k)) /\ turns[t] <= k

(* The n-th timer has N - n ticks to wait at most once it has had its turn *)
(* in this one.                                                            *)
Bound(n) ==
  IF \/ phase = "idle"
     \/ phase = "loop" /\ n < i
     \/ phase = "callback" /\ n <= i
  THEN N - n ELSE N + 1 - n

TaskBound == IF phase = "ticks" THEN 1 ELSE 0

Behind ==
  /\ \A n \in 1..Len(TimerQueue) : Within(TimerQueue[n], Bound(n))
  /\ \A n \in 1..Len(TaskQueue) : Within(TaskQueue[n], TaskBound)

(* What is said of a running timer wherever it is.                         *)
InTime(t) ==
  Running(t) =>
    /\ tm[t].added
    /\ clock[t] = Remaining(t)
    /\ clock[t] > 0 => turns[t] = 0

(* What runs before a game has nothing to wait for.                        *)
Outside ==
  ~inGame => phase = "idle" /\ \A t \in Timers : Running(t) => tm[t].remaining = 0

Punctual == Behind /\ (\A t \in Timers : InTime(t)) /\ Outside

(* What a step leaves of the time of t, or begins anew.                    *)
Kept(t) ==
  Running(t)' =>
    /\ Running(t)
    /\ tm'[t].last = tm[t].last /\ tm'[t].remaining = tm[t].remaining
    /\ tm'[t].added = tm[t].added
    /\ clock'[t] = clock[t] /\ turns'[t] = turns[t]

Fresh(t) ==
  /\ tm'[t].added
  /\ tm'[t].last = now' /\ tm'[t].remaining = clock'[t]
  /\ turns'[t] = 0

LEMMA FreshIs ==
  ASSUME Typed', NEW t \in Timers, Fresh(t), Paced
  PROVE  InTime(t)' /\ \A k \in Nat : Within(t, k)'
<1>1. now' \in 0..Wrap - 1 /\ clock'[t] \in 0..Wrap - 1
  BY DEF Typed, TypeOK
<1>2. Age(t)' = 0
  <2>1. tm'[t].last = now'
    BY DEF Fresh
  <2>2. \A w \in Nat \ {0} : \A n \in 0..w - 1 : n - n = 0
    OBVIOUS
  <2>3. 0 % Wrap = 0
    BY TimerAssumption
  <2> QED
    BY <1>1, <2>1, <2>2, <2>3, TimerAssumption DEF Age
<1>3. Remaining(t)' = clock'[t]
  <2>1. Remaining(t)' = Monus(tm'[t].remaining, Age(t)')
    BY DEF Remaining, Age
  <2> QED
    BY <1>1, <1>2, <2>1 DEF Fresh, Monus
<1>4. \A k \in Nat : 0 <= Span(k)
  BY Spans
<1> QED
  BY <1>2, <1>3, <1>4 DEF Fresh, InTime, Within

LEMMA KeptIs ==
  ASSUME Typed, NEW t \in Timers, Kept(t), now' = now, InTime(t), Paced
  PROVE  /\ InTime(t)'
         /\ \A j, k \in Nat : Within(t, j) /\ j <= k => Within(t, k)'
<1>1. CASE ~Running(t)'
  BY <1>1 DEF InTime, Within
<1>2. CASE Running(t)'
  <2>1. /\ Running(t)
        /\ tm'[t].last = tm[t].last /\ tm'[t].remaining = tm[t].remaining
        /\ tm'[t].added = tm[t].added
        /\ clock'[t] = clock[t] /\ turns'[t] = turns[t]
    BY <1>2 DEF Kept
  <2>2. Age(t)' = Age(t) /\ Remaining(t)' = Remaining(t)
    BY <2>1 DEF Age, Remaining
  <2>3. InTime(t)'
    BY <2>1, <2>2 DEF InTime
  <2>4. Age(t) \in Nat /\ turns[t] \in Nat
    <3>1. now - tm[t].last \in Int
      BY TimerAssumption DEF Typed, TypeOK, TimerFields
    <3>2. Age(t) \in 0..Wrap - 1
      BY <3>1, TimeTypes DEF Age
    <3>3. turns[t] \in 0..MaxTurns
      BY DEF Typed, TypeOK
    <3> QED
      BY <3>2, <3>3, TimerAssumption, MaxTurnsType
  <2>5. ASSUME NEW j \in Nat, NEW k \in Nat, Within(t, j), j <= k
        PROVE  Within(t, k)'
    <3>1. Span(j) <= Span(k) /\ Span(j) \in Nat /\ Span(k) \in Nat
      BY <2>5, Spans
    <3>2. (tm[t].remaining = 0 \/ Age(t) <= Span(k)) /\ turns[t] <= k
      BY <2>1, <2>4, <2>5, <3>1 DEF Within
    <3> QED
      BY <2>1, <2>2, <3>2 DEF Within
  <2> QED
    BY <2>3, <2>5
<1> QED
  BY <1>1, <1>2

LEMMA BoundTypes ==
  ASSUME Typed, Queued
  PROVE  /\ \A n \in 1..Len(TimerQueue) :
              /\ TimerQueue[n] \in Timers
              /\ n \in Nat /\ N - n \in Nat /\ N + 1 - n \in Nat /\ Bound(n) \in {N - n, N + 1 - n}
         /\ \A n \in 1..Len(TaskQueue) : TaskQueue[n] \in Timers
         /\ TaskBound \in {0, 1}
         /\ N \in Nat /\ Len(TimerQueue) \in Nat /\ Len(TaskQueue) \in Nat
<1>1. /\ \A n \in 1..Len(TimerQueue) : TimerQueue[n] \in Timers
      /\ \A n \in 1..Len(TaskQueue) : TaskQueue[n] \in Timers
  BY ElementOfSeq DEF Typed, TypeOK
<1>2. /\ Len(TimerQueue) \in Nat /\ Len(TaskQueue) \in Nat /\ N \in Nat
      /\ Len(TimerQueue) + Len(TaskQueue) <= N
  BY QueuesBounded
<1>3. \A n \in 1..Len(TimerQueue) : n \in Nat /\ N - n \in Nat /\ N + 1 - n \in Nat
  BY <1>2
<1> QED
  BY <1>1, <1>2, <1>3 DEF Bound, TaskBound

(* A step in which each timer keeps its time or begins anew.               *)
Timed == now' = now /\ \A t \in Timers : Kept(t) \/ Fresh(t)

(* What a step must show of the place t has after it.                      *)
Place(t, k) ==
  \/ Fresh(t)
  \/ ~Running(t)'
  \/ \E j \in Nat : Within(t, j) /\ j <= k

Places ==
  /\ \A n \in 1..Len(TimerQueue') :
       \E t \in Timers, k \in Nat : t = TimerQueue'[n] /\ k = Bound(n)' /\ Place(t, k)
  /\ \A n \in 1..Len(TaskQueue') :
       \E t \in Timers, k \in Nat : t = TaskQueue'[n] /\ k = TaskBound' /\ Place(t, k)

LEMMA PlacesHold ==
  ASSUME Typed, Typed', Paced, Timed, \A t \in Timers : InTime(t), Outside', Places
  PROVE  Punctual'
<1>1. ASSUME NEW t \in Timers
      PROVE  /\ InTime(t)'
             /\ \A k \in Nat : Place(t, k) => Within(t, k)'
  <2>1. CASE Fresh(t)
    BY <2>1, FreshIs
  <2>2. CASE ~Fresh(t) /\ Kept(t)
    <3>1. /\ InTime(t)'
          /\ \A j, k \in Nat : Within(t, j) /\ j <= k => Within(t, k)'
      BY <2>2, KeptIs DEF Timed
    <3>2. ~Running(t)' => \A k \in Nat : Within(t, k)'
      BY DEF Within
    <3> QED
      BY <2>2, <3>1, <3>2 DEF Place
  <2> QED
    BY <2>1, <2>2 DEF Timed
<1>2. ASSUME NEW n \in 1..Len(TimerQueue')
      PROVE  Within(TimerQueue[n], Bound(n))'
  <2>1. PICK t \in Timers, k \in Nat : t = TimerQueue'[n] /\ k = Bound(n)' /\ Place(t, k)
    BY DEF Places
  <2>2. Within(t, k)'
    BY <1>1, <2>1
  <2> QED
    BY <2>1, <2>2 DEF Within, Running, Age
<1>3. ASSUME NEW n \in 1..Len(TaskQueue')
      PROVE  Within(TaskQueue[n], TaskBound)'
  <2>1. PICK t \in Timers, k \in Nat : t = TaskQueue'[n] /\ k = TaskBound' /\ Place(t, k)
    BY DEF Places
  <2>2. Within(t, k)'
    BY <1>1, <2>1
  <2> QED
    BY <2>1, <2>2 DEF Within, Running, Age
<1> QED
  BY <1>1, <1>2, <1>3 DEF Punctual, Behind

(* The places of a step that leaves the queues alone.                      *)
LEMMA PlacesKept ==
  ASSUME Typed, Queued, Behind, UNCHANGED queues,
         \A n \in 1..Len(TimerQueue) :
           Bound(n)' = Bound(n) \/ (Bound(n)' = N - n /\ Place(TimerQueue[n], N - n)),
         TaskBound' = TaskBound
  PROVE  Places
<1>1. TimerQueue' = TimerQueue /\ TaskQueue' = TaskQueue
  BY DEF queues
<1>2. ASSUME NEW n \in 1..Len(TimerQueue)
      PROVE  \E t \in Timers, k \in Nat : t = TimerQueue[n] /\ k = Bound(n)' /\ Place(t, k)
  <2>1. TimerQueue[n] \in Timers /\ N - n \in Nat /\ Bound(n) \in Nat
    BY BoundTypes
  <2>2. CASE Bound(n)' = Bound(n)
    <3>1. PICK t \in Timers, k \in Nat : t = TimerQueue[n] /\ k = Bound(n) /\ Within(t, k) /\ k <= k
      BY <2>1 DEF Behind
    <3> QED
      BY <2>2, <3>1 DEF Place
  <2>3. CASE Bound(n)' = N - n /\ Place(TimerQueue[n], N - n)
    BY <2>1, <2>3
  <2> QED
    BY <2>2, <2>3
<1>3. ASSUME NEW n \in 1..Len(TaskQueue)
      PROVE  \E t \in Timers, k \in Nat : t = TaskQueue[n] /\ k = TaskBound' /\ Place(t, k)
  <2>1. PICK t \in Timers, k \in Nat : t = TaskQueue[n] /\ k = TaskBound /\ Within(t, k) /\ k <= k
    BY BoundTypes DEF Behind
  <2> QED
    BY <2>1 DEF Place
<1> QED
  BY <1>1, <1>2, <1>3 DEF Places

(* What client code does to t takes time from no other timer.              *)
LEMMA ClientTimed ==
  ASSUME Typed, Queued, Client
  PROVE  Timed /\ UNCHANGED <<TimerQueue, phase, i, inGame>>
<1>1. PICK t \in Timers :
        \/ \E k \in Kind : New(t, k) \/ SetTimeout(t, k.timeout)
        \/ Start(t) \/ Pause(t) \/ Destroy(t)
  BY DEF Client
<1>2. /\ tm \in [Timers -> TimerFields] /\ live \subseteq Timers
      /\ clock \in [Timers -> 0..Wrap - 1] /\ turns \in [Timers -> 0..MaxTurns]
  BY DEF Typed, TypeOK
<1>3. CASE \E k \in Kind : New(t, k)
  <2>1. PICK k \in Kind : New(t, k)
    BY <1>3
  <2>2. Created(k).paused
    BY DEF Created
  <2>3. /\ live' = live \cup {t} /\ tm'[t].paused
        /\ \A u \in Timers \ {t} : tm'[u] = tm[u]
        /\ UNCHANGED <<clock, turns, now, TimerQueue, phase, i, inGame>>
    BY <1>2, <2>1, <2>2 DEF New, queues, history
  <2> QED
    BY <2>3 DEF Timed, Kept, Running
<1>4. CASE (\E k \in Kind : SetTimeout(t, k.timeout)) \/ Pause(t) \/ Destroy(t)
  <2>1. /\ UNCHANGED <<live, clock, turns, now, TimerQueue, phase, i, inGame>>
        /\ \A u \in Timers \ {t} : tm'[u] = tm[u]
    BY <1>2, <1>4 DEF SetTimeout, Pause, Destroy, queues, history
  <2>2. /\ tm'[t].last = tm[t].last /\ tm'[t].remaining = tm[t].remaining
        /\ tm'[t].added = tm[t].added
        /\ tm[t].paused => tm'[t].paused
        /\ tm[t].disposed => tm'[t].disposed
    BY <1>2, <1>4 DEF SetTimeout, Pause, Destroy, TimerFields
  <2> QED
    BY <2>1, <2>2 DEF Timed, Kept, Running
<1>5. CASE Start(t)
  <2>1. /\ UNCHANGED <<live, now, TimerQueue, phase, i, inGame>>
        /\ \A u \in Timers \ {t} :
             tm'[u] = tm[u] /\ clock'[u] = clock[u] /\ turns'[u] = turns[u]
    BY <1>2, <1>5 DEF Start
  <2>2. Fresh(t)
    BY <1>2, <1>5 DEF Start, TimerFields, Fresh
  <2> QED
    BY <2>1, <2>2 DEF Timed, Kept, Running
<1> QED
  BY <1>1, <1>3, <1>4, <1>5

(* Before a game, client code only starts timers of timeout 0.             *)
LEMMA ClientOutside ==
  ASSUME Typed, Outside, Client
  PROVE  Outside'
<1>1. PICK t \in Timers :
        \/ \E k \in Kind : New(t, k) \/ SetTimeout(t, k.timeout)
        \/ Start(t) \/ Pause(t) \/ Destroy(t)
  BY DEF Client
<1>2. tm \in [Timers -> TimerFields] /\ tm[t] \in TimerFields
  BY DEF Typed, TypeOK
<1>3. CASE inGame
  BY <1>1, <1>3 DEF Outside, New, SetTimeout, Start, Pause, Destroy
<1>4. CASE ~inGame
  <2>1. phase = "idle" /\ \A u \in Timers : Running(u) => tm[u].remaining = 0
    BY <1>4 DEF Outside
  <2>2. CASE \E k \in Kind : New(t, k)
    <3>1. PICK k \in Kind : New(t, k)
      BY <2>2
    <3>2. Created(k).paused
      BY DEF Created
    <3>3. /\ live' = live \cup {t} /\ phase' = phase
          /\ \A u \in Timers : tm'[u] = IF u = t THEN Created(k) ELSE tm[u]
      BY <1>2, <3>1 DEF New
    <3> QED
      BY <2>1, <3>2, <3>3 DEF Outside, Running
  <2>3. CASE Start(t)
    <3>1. /\ live' = live /\ phase' = phase
          /\ tm'[t].remaining = 0
          /\ \A u \in Timers \ {t} : tm'[u] = tm[u]
      BY <1>2, <1>4, <2>3 DEF Start, TimerFields
    <3> QED
      BY <2>1, <3>1 DEF Outside, Running
  <2> QED
    BY <1>1, <1>4, <2>1, <2>2, <2>3 DEF SetTimeout, Pause, Destroy
<1> QED
  BY <1>3, <1>4

LEMMA ClientPunctual ==
  ASSUME Typed, Typed', Queued, Paced, Punctual, Client
  PROVE  Punctual'
<1>1. Timed /\ UNCHANGED <<TimerQueue, phase, i, inGame>>
  BY ClientTimed
<1>2. Outside'
  BY <1>1, ClientOutside DEF Punctual
<1>3. (\A n : Bound(n)' = Bound(n)) /\ TaskBound' = TaskBound
  BY <1>1 DEF Bound, TaskBound
<1>4. CASE TaskQueue' = TaskQueue
  <2>1. Places
    BY <1>1, <1>3, <1>4, PlacesKept DEF Punctual, queues
  <2> QED
    BY <1>1, <1>2, <2>1, PlacesHold DEF Punctual
<1>5. CASE TaskQueue' # TaskQueue
  <2>1. PICK t \in Timers : TaskQueue' = Append(TaskQueue, t) /\ Start(t)
    BY <1>5 DEF Client, New, SetTimeout, Start, Pause, Destroy, queues
  <2>2. Fresh(t)
    BY <2>1 DEF Start, Typed, TypeOK, TimerFields, Fresh
  <2>3. /\ Len(TaskQueue') = Len(TaskQueue) + 1
        /\ \A n \in 1..Len(TaskQueue) : TaskQueue'[n] = TaskQueue[n]
        /\ TaskQueue'[Len(TaskQueue) + 1] = t
    BY <2>1, AppendProperties DEF Typed, TypeOK
  <2>4. ASSUME NEW n \in 1..Len(TaskQueue')
        PROVE  \E u \in Timers, k \in Nat : u = TaskQueue'[n] /\ k = TaskBound' /\ Place(u, k)
    <3>1. TaskBound' \in Nat /\ Len(TaskQueue) \in Nat
      BY <1>3, BoundTypes
    <3>2. CASE n = Len(TaskQueue) + 1
      BY <2>2, <2>3, <3>1, <3>2 DEF Place
    <3>3. CASE n \in 1..Len(TaskQueue)
      <4>1. /\ TaskQueue[n] \in Timers /\ TaskBound \in Nat /\ TaskBound <= TaskBound
            /\ Within(TaskQueue[n], TaskBound)
        BY <3>3, BoundTypes DEF Punctual, Behind
      <4>2. Place(TaskQueue[n], TaskBound)
        BY <4>1 DEF Place
      <4> QED
        BY <1>3, <2>3, <3>3, <4>1, <4>2
    <3> QED
      BY <2>3, <3>1, <3>2, <3>3
  <2>5. ASSUME NEW n \in 1..Len(TimerQueue')
        PROVE  \E u \in Timers, k \in Nat : u = TimerQueue'[n] /\ k = Bound(n)' /\ Place(u, k)
    <3>1. n \in 1..Len(TimerQueue)
      BY <1>1
    <3>2. Bound(n) \in Nat /\ TimerQueue[n] \in Timers
      BY <3>1, BoundTypes
    <3>3. PICK u \in Timers, k \in Nat : u = TimerQueue[n] /\ k = Bound(n) /\ Within(u, k) /\ k <= k
      BY <3>1, <3>2 DEF Punctual, Behind
    <3> QED
      BY <1>1, <1>3, <3>3 DEF Place
  <2>6. Places
    BY <2>4, <2>5 DEF Places
  <2> QED
    BY <1>1, <1>2, <2>6, PlacesHold DEF Punctual
<1> QED
  BY <1>4, <1>5

(* A game begins with what was started before it, which is due; one that   *)
(* ends leaves nothing.                                                    *)
LEMMA GamePunctual ==
  ASSUME Typed, Typed', Punctual, Game_Init \/ Game_Cleanup
  PROVE  Punctual'
<1>1. CASE Game_Init
  <2>1. /\ ~inGame /\ inGame'
        /\ UNCHANGED <<tm, live, TimerQueue, TaskQueue, phase, i, clock, turns>>
    BY <1>1 DEF Game_Init, objects, queues, history
  <2>2. \A t : Running(t)' <=> Running(t)
    BY <2>1 DEF Running
  <2>3. \A t \in Timers : Running(t) => tm[t].remaining = 0
    BY <2>1 DEF Punctual, Outside
  <2>4. /\ \A n \in 1..Len(TimerQueue) : TimerQueue[n] \in Timers /\ Bound(n)' = Bound(n)
        /\ \A n \in 1..Len(TaskQueue) : TaskQueue[n] \in Timers
        /\ TaskBound' = TaskBound
    BY <2>1, ElementOfSeq DEF Bound, TaskBound, Typed, TypeOK
  <2>5. \A t \in Timers : \A k : Within(t, k) => Within(t, k)'
    BY <2>1, <2>2, <2>3 DEF Within
  <2>6. Behind'
    BY <2>1, <2>4, <2>5 DEF Punctual, Behind, Within, Running, Age
  <2>7. ASSUME NEW t \in Timers, Running(t)
        PROVE  Remaining(t) = 0 /\ Remaining(t)' = 0
    <3>1. tm[t].remaining = 0 /\ tm'[t] = tm[t]
      BY <2>1, <2>3, <2>7
    <3>2. now - tm[t].last \in Int /\ now' - tm[t].last \in Int
      <4>1. now \in 0..Wrap - 1 /\ now' \in 0..Wrap - 1
        BY DEF Typed, TypeOK
      <4>2. tm[t].last \in 0..Wrap - 1
        BY DEF Typed, TypeOK, TimerFields
      <4> QED
        BY <4>1, <4>2
    <3>3. /\ (now - tm[t].last) % Wrap \in 0..Wrap - 1
          /\ (now' - tm[t].last) % Wrap \in 0..Wrap - 1
      BY <3>2, TimeTypes
    <3> QED
      BY <3>1, <3>3, TimerAssumption DEF Remaining, Monus
  <2>8. \A t \in Timers : InTime(t)'
    BY <2>1, <2>2, <2>7 DEF Punctual, InTime
  <2> QED
    BY <2>1, <2>6, <2>8 DEF Punctual, Outside
<1>2. CASE Game_Cleanup
  <2>1. live' = {} /\ phase' = "idle"
    BY <1>2 DEF Game_Cleanup
  <2>2. \A t : ~Running(t)'
    BY <2>1 DEF Running
  <2> QED
    BY <2>1, <2>2 DEF Punctual, Behind, Within, InTime, Outside
<1> QED
  BY <1>1, <1>2

(* Timers that run are in the queues.                                      *)
LEMMA RunningQueued ==
  ASSUME Typed, Queued, Punctual, NEW t \in Timers, Running(t)
  PROVE  \/ \E n \in 1..Len(TimerQueue) : TimerQueue[n] = t
         \/ \E n \in 1..Len(TaskQueue) : TaskQueue[n] = t
<1>1. t \in Range(All)
  BY DEF Queued, Punctual, InTime, Running
<1>2. /\ All \in Seq(Timers) /\ Len(TimerQueue) \in Nat /\ Len(TaskQueue) \in Nat
      /\ Len(All) = Len(TimerQueue) + Len(TaskQueue)
      /\ \A n \in 1..Len(TimerQueue) + Len(TaskQueue) :
           All[n] = IF n <= Len(TimerQueue) THEN TimerQueue[n] ELSE TaskQueue[n - Len(TimerQueue)]
  BY AllType, LenProperties, ConcatProperties DEF All, Typed, TypeOK
<1>3. PICK n \in 1..Len(TimerQueue) + Len(TaskQueue) : All[n] = t
  BY <1>1, <1>2, LenProperties DEF Range
<1>4. CASE n <= Len(TimerQueue)
  BY <1>2, <1>3, <1>4
<1>5. CASE n > Len(TimerQueue)
  <2>1. n - Len(TimerQueue) \in 1..Len(TaskQueue)
    BY <1>2, <1>3, <1>5
  <2> QED
    BY <1>2, <1>3, <1>5, <2>1
<1>6. n <= Len(TimerQueue) \/ n > Len(TimerQueue)
  BY <1>2, <1>3
<1> QED
  BY <1>4, <1>5, <1>6

(* Remainders around the width of the clock.                               *)
LEMMA Around ==
  ASSUME NEW x \in 0..Wrap - 1
  PROVE  x % Wrap = x /\ (x + Wrap) % Wrap = x /\ (x - Wrap) % Wrap = x
BY TimerAssumption, SMTT(30)

(* The time since an update grows with the clock as long as it is shorter  *)
(* than the clock's width.                                                 *)
LEMMA AgeGrows ==
  ASSUME NEW a \in 0..Wrap - 1, NEW b \in 0..Wrap - 1, NEW d \in Nat,
         ((a - b) % Wrap) + d < Wrap
  PROVE  (((a + d) % Wrap) - b) % Wrap = ((a - b) % Wrap) + d
<1> Wrap \in Nat \ {0}
  BY TimerAssumption
<1>1. CASE a >= b
  <2>1. a - b \in 0..Wrap - 1 /\ (a - b) % Wrap = a - b
    BY <1>1, Around
  <2>2. CASE a + d < Wrap
    <3>1. a + d \in 0..Wrap - 1 /\ (a + d) % Wrap = a + d
      BY <2>2, Around
    <3>2. a + d - b \in 0..Wrap - 1 /\ (a + d - b) % Wrap = a + d - b
      BY <1>1, <2>2, Around
    <3> QED
      BY <2>1, <3>1, <3>2
  <2>3. CASE a + d >= Wrap
    <3>1. a + d - Wrap \in 0..Wrap - 1 /\ (a + d - Wrap) + Wrap = a + d
      BY <2>1, <2>3
    <3>2. (a + d) % Wrap = a + d - Wrap
      BY <3>1, Around
    <3>3. a + d - b \in 0..Wrap - 1 /\ (a + d - Wrap) - b = (a + d - b) - Wrap
      BY <1>1, <2>1
    <3>4. ((a + d - b) - Wrap) % Wrap = a + d - b
      BY <3>3, Around
    <3> QED
      BY <2>1, <3>2, <3>3, <3>4
  <2> QED
    BY <2>2, <2>3
<1>2. CASE a < b
  <2>1. (a - b) + Wrap \in 0..Wrap - 1 /\ ((a - b) + Wrap) - Wrap = a - b
    BY <1>2
  <2>2. (a - b) % Wrap = (a - b) + Wrap
    BY <2>1, Around
  <2>3. a + d \in 0..Wrap - 1 /\ (a + d) % Wrap = a + d
    <3>1. a + d \in 0..Wrap - 1
      BY <1>2, <2>2
    <3> QED
      BY <3>1, Around
  <2>4. (a + d - b) + Wrap \in 0..Wrap - 1 /\ ((a + d - b) + Wrap) - Wrap = a + d - b
    BY <1>2, <2>2
  <2>5. (a + d - b) % Wrap = (a + d - b) + Wrap
    BY <2>4, Around
  <2> QED
    BY <2>2, <2>3, <2>5
<1> QED
  BY <1>1, <1>2

(* A tick: every timer has waited for one more.                            *)
LEMMA TickAges ==
  ASSUME Typed, Queued, Paced, Punctual, NEW d \in Elapse,
         now' = (now + d) % Wrap, UNCHANGED objects,
         NEW t \in Timers, Running(t), tm[t].remaining # 0,
         NEW k \in Nat, k < N, Within(t, k)
  PROVE  Age(t)' = Age(t) + d /\ Age(t)' <= Span(k + 1)
<1>1. d \in Nat /\ k + 1 <= N /\ k + 1 \in Nat /\ N \in Nat
  BY TimerAssumption, Spans
<1>2. Span(k) + d <= Span(k + 1) /\ Span(k + 1) <= Span(N) /\ Span(N) < Wrap
      /\ Span(k) \in Nat /\ Span(k + 1) \in Nat /\ Span(N) \in Nat
  BY <1>1, Spans
<1>3. now \in 0..Wrap - 1 /\ tm[t].last \in 0..Wrap - 1
  BY DEF Typed, TypeOK, TimerFields
<1>4. Age(t) \in 0..Wrap - 1
  <2>1. now - tm[t].last \in Int
    BY <1>3, TimerAssumption
  <2> QED
    BY <2>1, TimeTypes DEF Age
<1>5. Age(t) <= Span(k)
  BY DEF Within
<1>6. Age(t) + d < Wrap /\ Age(t) + d <= Span(k + 1)
  BY <1>1, <1>2, <1>4, <1>5, TimerAssumption
<1>7. (((now + d) % Wrap) - tm[t].last) % Wrap = Age(t) + d
  BY <1>1, <1>3, <1>6, AgeGrows DEF Age
<1>8. Age(t)' = Age(t) + d
  BY <1>7 DEF Age, objects
<1> QED
  BY <1>6, <1>8

LEMMA TickPunctual ==
  ASSUME Typed, Queued, Paced, Punctual, Tick
  PROVE  Punctual'
<1>1. PICK d \in Elapse :
        /\ now' = (now + d) % Wrap
        /\ clock' = [t \in Timers |-> IF Running(t) THEN Monus(clock[t], d) ELSE clock[t]]
        /\ turns' = [t \in Timers |->
                       IF Running(t) /\ clock[t] <= d /\ turns[t] < MaxTurns
                       THEN turns[t] + 1 ELSE turns[t]]
  BY DEF Tick
<1>2. /\ phase = "idle" /\ phase' = "ticks" /\ UNCHANGED <<objects, queues, inGame, i>>
      /\ TimerQueue' = TimerQueue /\ TaskQueue' = TaskQueue
      /\ live' = live /\ tm' = tm
  BY DEF Tick, objects, queues
<1>3. d \in Nat /\ d > 0
  BY TimerAssumption
<1>4. \A n \in 1..Len(TimerQueue) : Bound(n) = N - n /\ Bound(n)' = N + 1 - n
  BY <1>2 DEF Bound
<1>5. TaskBound = 0 /\ TaskBound' = 1
  BY <1>2 DEF TaskBound
<1>6. ASSUME NEW t \in Timers, Running(t), NEW k \in Nat, k < N, Within(t, k)
      PROVE  Within(t, k + 1)' /\ InTime(t)'
  <2>1. tm[t].remaining # 0 => Age(t)' = Age(t) + d /\ Age(t)' <= Span(k + 1)
    BY <1>1, <1>2, <1>6, TickAges
  <2>2. /\ turns[t] \in Nat /\ clock[t] \in Nat /\ turns[t] <= k
        /\ Age(t) \in Nat /\ tm[t].remaining \in Nat
    <3>1. now - tm[t].last \in Int
      BY TimerAssumption DEF Typed, TypeOK, TimerFields
    <3>2. Age(t) \in 0..Wrap - 1
      BY <3>1, TimeTypes DEF Age
    <3>3. turns[t] \in 0..MaxTurns /\ clock[t] \in 0..Wrap - 1 /\ tm[t].remaining \in 0..Wrap - 1
      BY DEF Typed, TypeOK, TimerFields
    <3> QED
      BY <1>6, <3>2, <3>3, TimerAssumption, MaxTurnsType DEF Within
  <2>3. /\ clock'[t] = Monus(clock[t], d)
        /\ turns'[t] = IF clock[t] <= d /\ turns[t] < MaxTurns THEN turns[t] + 1 ELSE turns[t]
    BY <1>1, <1>6
  <2>4. Within(t, k + 1)'
    <3>1. turns'[t] <= k + 1
      BY <2>2, <2>3
    <3> QED
      BY <1>2, <2>1, <3>1 DEF Within
  <2>5. tm[t].added /\ clock[t] = Remaining(t) /\ (clock[t] > 0 => turns[t] = 0)
    BY <1>6 DEF Punctual, InTime
  <2>6. Remaining(t)' = Monus(tm[t].remaining, Age(t) + d)
    <3>1. Remaining(t)' = Monus(tm[t].remaining, Age(t)')
      BY <1>2 DEF Remaining, Age
    <3>2. Age(t)' \in Nat
      <4>1. (now + d) % Wrap \in 0..Wrap - 1
        <5>1. now + d \in Int
          BY <1>3, TimerAssumption DEF Typed, TypeOK
        <5> QED
          BY <5>1, TimeTypes
      <4>2. ((now + d) % Wrap) - tm[t].last \in Int
        BY <4>1, TimerAssumption DEF Typed, TypeOK, TimerFields
      <4>3. Age(t)' \in 0..Wrap - 1
        BY <1>1, <1>2, <4>2, TimeTypes DEF Age
      <4> QED
        BY <4>3, TimerAssumption
    <3>3. CASE tm[t].remaining = 0
      BY <1>3, <2>2, <3>1, <3>2, <3>3 DEF Monus
    <3> QED
      BY <2>1, <3>1, <3>3
  <2>7. clock[t] = Monus(tm[t].remaining, Age(t))
    BY <2>5 DEF Remaining, Age
  <2>8. clock'[t] = Remaining(t)'
    BY <1>3, <2>2, <2>3, <2>6, <2>7 DEF Monus
  <2>9. clock'[t] > 0 => turns'[t] = 0
    BY <1>3, <2>2, <2>3, <2>5 DEF Monus
  <2> QED
    BY <1>2, <2>4, <2>5, <2>8, <2>9 DEF InTime
<1>7. /\ \A n \in 1..Len(TimerQueue) : TimerQueue[n] \in Timers /\ N - n \in Nat
                                       /\ N - n < N /\ (N - n) + 1 = N + 1 - n
      /\ \A n \in 1..Len(TaskQueue) : TaskQueue[n] \in Timers /\ 0 < N
  <2>1. Len(TimerQueue) + Len(TaskQueue) <= N
    BY QueuesBounded
  <2> QED
    BY <2>1, BoundTypes
<1>8. ASSUME NEW n \in 1..Len(TimerQueue')
      PROVE  Within(TimerQueue[n], Bound(n))'
  <2>1. PICK t \in Timers : t = TimerQueue[n]
    BY <1>2, <1>7
  <2>2. Within(t, N - n)
    BY <1>2, <1>4, <2>1 DEF Punctual, Behind
  <2>3. Running(t)' => Within(t, N + 1 - n)'
    <3>1. Running(t)' => Running(t)
      BY <1>2 DEF Running
    <3> QED
      BY <1>2, <1>6, <1>7, <2>2, <3>1
  <2> QED
    BY <1>2, <1>4, <2>1, <2>3 DEF Within, Running, Age
<1>9. ASSUME NEW n \in 1..Len(TaskQueue')
      PROVE  Within(TaskQueue[n], TaskBound)'
  <2>1. PICK t \in Timers : t = TaskQueue[n]
    BY <1>2, <1>7
  <2>2. Within(t, 0) /\ 0 < N /\ 0 + 1 = 1
    BY <1>2, <1>5, <1>7, <2>1 DEF Punctual, Behind
  <2>3. Running(t)' => Within(t, 1)'
    <3>1. Running(t)' => Running(t)
      BY <1>2 DEF Running
    <3> QED
      BY <1>6, <2>2, <3>1
  <2> QED
    BY <1>2, <1>5, <2>1, <2>3 DEF Within, Running, Age
<1>10. ASSUME NEW t \in Timers, Running(t)
       PROVE  InTime(t)'
  <2>1. CASE \E n \in 1..Len(TimerQueue) : TimerQueue[n] = t
    <3>1. PICK n \in 1..Len(TimerQueue) : TimerQueue[n] = t
      BY <2>1
    <3>2. Within(t, N - n) /\ N - n \in Nat /\ N - n < N
      BY <1>4, <1>7, <3>1 DEF Punctual, Behind
    <3> QED
      BY <1>6, <1>10, <3>2
  <2>2. CASE \E n \in 1..Len(TaskQueue) : TaskQueue[n] = t
    <3>1. Within(t, 0) /\ 0 < N
      BY <1>5, <1>7, <2>2 DEF Punctual, Behind
    <3> QED
      BY <1>6, <1>10, <3>1
  <2> QED
    BY <1>10, <2>1, <2>2, RunningQueued
<1>11. \A t \in Timers : InTime(t)'
  <2>1. ASSUME NEW t \in Timers PROVE Running(t)' => Running(t)
    BY <1>2 DEF Running
  <2> QED
    BY <1>10, <2>1 DEF InTime
<1>12. Outside'
  BY <1>2 DEF Tick, Outside
<1> QED
  BY <1>8, <1>9, <1>11, <1>12 DEF Punctual, Behind

(* A step of Timer_Update that leaves the queues alone.                    *)
LEMMA StepPunctual ==
  ASSUME Typed, Typed', Queued, Paced, Punctual,
         UpdatePaused \/ Wait \/ Expire \/ CallbackRestarts \/ CallbackReturns
  PROVE  Punctual'
<1>0. /\ TimerQueue \in Seq(Timers) /\ i \in 1..Len(TimerQueue) /\ i \in Nat
      /\ TimerQueue[i] \in Timers
      /\ Len(TimerQueue) \in Nat
  <2>1. i <= Len(TimerQueue)
    BY DEF UpdatePaused, Wait, Expire, Looping, CallbackRestarts, CallbackReturns, Typed, Position
  <2> QED
    BY <2>1, LenProperties, ElementOfSeq DEF Typed, TypeOK
<1>1. PICK t \in Timers :
        /\ t = TimerQueue[i] /\ i \in 1..Len(TimerQueue) /\ i \in Nat
        /\ TimerQueue \in Seq(Timers) /\ Len(TimerQueue) \in Nat
  BY <1>0
<1>2. t \in live /\ tm[t].added
  <2>1. i \in DOMAIN All /\ All[i] = t
    BY <1>1, AllType, LenProperties, ConcatProperties DEF All, Typed, TypeOK
  <2> QED
    BY <2>1 DEF Queued, Range
<1>3. /\ tm \in [Timers -> TimerFields] /\ live \subseteq Timers
      /\ clock \in [Timers -> 0..Wrap - 1] /\ turns \in [Timers -> 0..MaxTurns]
  BY DEF Typed, TypeOK
<1>4. /\ UNCHANGED <<live, inGame, now, queues>>
      /\ \A u \in Timers \ {t} :
           tm'[u] = tm[u] /\ clock'[u] = clock[u] /\ turns'[u] = turns[u]
  BY <1>1, <1>3 DEF UpdatePaused, Wait, Expire, CallbackRestarts, CallbackReturns, Current, history
<1>5. Fresh(t) \/ ~Running(t)' \/ (Kept(t) /\ CallbackReturns)
  <2>1. CASE UpdatePaused \/ Expire
    <3>1. tm[t] \in TimerFields
      BY <1>3
    <3>2. CASE UpdatePaused
      BY <1>1, <1>3, <3>1, <3>2 DEF UpdatePaused, Running, TimerFields
    <3>3. CASE Expire
      <4>1. tm' = [tm EXCEPT ![t].remaining = 0, ![t].last = now, ![t].paused = TRUE]
        BY <1>1, <3>3 DEF Expire
      <4>2. tm'[t].paused
        BY <1>3, <3>1, <4>1 DEF TimerFields
      <4> QED
        BY <4>2 DEF Running
    <3> QED
      BY <2>1, <3>2, <3>3
  <2>2. CASE CallbackReturns
    <3>1. /\ tm' = [tm EXCEPT ![t].disposed = Disposes] /\ UNCHANGED <<live, clock, turns>>
      BY <1>1, <2>2 DEF CallbackReturns, Current, history
    <3>2. tm[t].disposed => Disposes
      BY <1>1 DEF Disposes, Current
    <3>3. /\ tm[t] \in TimerFields
          /\ tm'[t] = [tm[t] EXCEPT !.disposed = Disposes]
      BY <1>3, <3>1
    <3>4. /\ tm'[t].paused = tm[t].paused /\ tm'[t].disposed = Disposes
          /\ tm'[t].last = tm[t].last /\ tm'[t].remaining = tm[t].remaining
          /\ tm'[t].added = tm[t].added
      BY <3>3 DEF TimerFields
    <3> QED
      BY <2>2, <3>1, <3>2, <3>4 DEF Kept, Running
  <2>3. CASE CallbackRestarts
    BY <1>1, <1>2, <1>3, <2>3 DEF CallbackRestarts, Current, Fresh, TimerFields
  <2>4. CASE Wait
    <3>1. /\ Running(t) /\ Remaining(t) > 0
          /\ tm' = [tm EXCEPT ![t].remaining = Remaining(t), ![t].last = now]
          /\ UNCHANGED <<now, clock, turns>>
      BY <1>1, <2>4 DEF Wait, history
    <3>2. clock[t] = Remaining(t) /\ turns[t] = 0
      BY <1>1, <3>1 DEF Punctual, InTime
    <3> QED
      BY <1>1, <1>2, <1>3, <3>1, <3>2 DEF Fresh, TimerFields
  <2> QED
    BY <2>1, <2>2, <2>3, <2>4
<1>6. Timed
  <2>1. \A u \in Timers \ {t} : Kept(u)
    BY <1>4 DEF Kept, Running
  <2>2. Kept(t) \/ Fresh(t)
    BY <1>5 DEF Kept
  <2> QED
    BY <1>4, <2>1, <2>2 DEF Timed
<1>7. Outside'
  <2>1. phase # "idle"
    BY DEF UpdatePaused, Wait, Expire, Looping, CallbackRestarts, CallbackReturns
  <2> QED
    BY <1>4, <2>1 DEF Punctual, Outside
<1>8. TaskBound' = TaskBound
  BY DEF TaskBound, UpdatePaused, Wait, Expire, Looping, CallbackRestarts, CallbackReturns
<1>9. ASSUME NEW n \in 1..Len(TimerQueue)
      PROVE  Bound(n)' = Bound(n) \/ (Bound(n)' = N - n /\ Place(TimerQueue[n], N - n))
  <2>1. n \in Nat
    BY <1>1
  <2>2. CASE Expire
    <3>1. phase = "loop" /\ phase' = "callback" /\ i' = i
      BY <2>2 DEF Expire, Looping
    <3>2. CASE n = i
      <4>1. ~Running(t)'
        BY <1>1, <1>3, <2>2 DEF Expire, Running
      <4>2. Bound(n)' = N - n
        BY <1>1, <3>1, <3>2 DEF Bound
      <4> QED
        BY <1>1, <1>4, <3>2, <4>1, <4>2 DEF Place, Running, Fresh, queues
    <3>3. CASE n # i
      BY <1>1, <2>1, <3>1, <3>3 DEF Bound
    <3> QED
      BY <3>2, <3>3
  <2>3. CASE UpdatePaused \/ Wait
    <3>1. phase = "loop" /\ phase' = "loop" /\ i' = i + 1
      BY <2>3 DEF UpdatePaused, Wait, Looping
    <3>2. CASE n = i
      <4>1. Fresh(t) \/ ~Running(t)'
        BY <1>1, <1>5, <2>3, <3>1 DEF CallbackReturns
      <4>2. Bound(n)' = N - n
        BY <1>1, <3>1, <3>2 DEF Bound
      <4> QED
        BY <1>1, <1>4, <3>2, <4>1, <4>2 DEF Place, Running, Fresh, queues
    <3>3. CASE n # i
      BY <1>1, <2>1, <3>1, <3>3 DEF Bound
    <3> QED
      BY <3>2, <3>3
  <2>4. CASE CallbackRestarts \/ CallbackReturns
    <3>1. phase = "callback" /\ phase' = "loop" /\ i' = i + 1
      BY <2>4 DEF CallbackRestarts, CallbackReturns
    <3> QED
      BY <1>1, <2>1, <3>1 DEF Bound
  <2> QED
    BY <2>2, <2>3, <2>4
<1>10. Places
  BY <1>4, <1>8, <1>9, PlacesKept DEF Punctual
<1> QED
  BY <1>6, <1>7, <1>10, PlacesHold DEF Punctual

(* The loop ends: every timer has had its turn.                            *)
LEMMA LoopEndsPunctual ==
  ASSUME Typed, Typed', Queued, Paced, Punctual, LoopEnds
  PROVE  Punctual'
<1>1. /\ phase = "loop" /\ phase' = "idle" /\ i > Len(TimerQueue)
      /\ UNCHANGED <<tm, live, inGame, now, queues, clock, turns>>
  BY DEF LoopEnds, objects, history
<1>2. Timed
  BY <1>1 DEF Timed, Kept, Running
<1>3. \A n \in 1..Len(TimerQueue) : Bound(n)' = Bound(n)
  <2>1. i \in Nat /\ Len(TimerQueue) \in Nat
    BY LenProperties DEF Typed, TypeOK
  <2> QED
    BY <1>1, <2>1 DEF Bound
<1>4. TaskBound' = TaskBound
  BY <1>1 DEF TaskBound
<1>5. Places
  BY <1>1, <1>3, <1>4, PlacesKept DEF Punctual
<1>6. Outside'
  BY <1>1 DEF Punctual, Outside
<1> QED
  BY <1>2, <1>5, <1>6, PlacesHold DEF Punctual

(* Started timers join the queue: there is room behind those in it.        *)
LEMMA TasksPunctual ==
  ASSUME Typed, Typed', Queued, Paced, Punctual, DoUpdateTasks
  PROVE  Punctual'
<1>1. /\ phase = "ticks" /\ phase' = "loop" /\ i' = 1
      /\ TimerQueue' = TimerQueue \o TaskQueue /\ TaskQueue' = <<>>
      /\ UNCHANGED <<tm, live, inGame, now, clock, turns>>
  BY DEF DoUpdateTasks, objects, history
<1>2. Timed
  BY <1>1 DEF Timed, Kept, Running
<1>3. Outside'
  BY <1>1 DEF Punctual, Outside
<1>4. /\ N \in Nat /\ Len(TimerQueue) \in Nat /\ Len(TaskQueue) \in Nat
      /\ Len(TimerQueue) + Len(TaskQueue) <= N
  BY QueuesBounded
<1>5. /\ Len(TimerQueue') = Len(TimerQueue) + Len(TaskQueue)
      /\ \A n \in 1..Len(TimerQueue') :
           TimerQueue'[n] = IF n <= Len(TimerQueue) THEN TimerQueue[n]
                                                    ELSE TaskQueue[n - Len(TimerQueue)]
  BY <1>1, ConcatProperties DEF Typed, TypeOK
<1>6. ASSUME NEW n \in 1..Len(TimerQueue')
      PROVE  \E t \in Timers, k \in Nat : t = TimerQueue'[n] /\ k = Bound(n)' /\ Place(t, k)
  <2>1. n \in Nat /\ 1 <= n /\ n <= N /\ N + 1 - n \in Nat /\ 1 <= N + 1 - n
    BY <1>4, <1>5
  <2>2. Bound(n)' = N + 1 - n
    BY <1>1, <2>1 DEF Bound
  <2>3. CASE n <= Len(TimerQueue)
    <3>1. n \in 1..Len(TimerQueue) /\ TimerQueue'[n] = TimerQueue[n]
      BY <1>5, <2>1, <2>3
    <3>2. TimerQueue[n] \in Timers /\ Within(TimerQueue[n], N + 1 - n)
      <4>1. Bound(n) = N + 1 - n
        BY <1>1 DEF Bound
      <4> QED
        BY <3>1, <4>1, BoundTypes DEF Punctual, Behind
    <3>3. PICK t \in Timers : t = TimerQueue[n]
      BY <3>2
    <3>4. Place(t, N + 1 - n)
      BY <2>1, <3>2, <3>3 DEF Place
    <3> QED
      BY <2>1, <2>2, <3>1, <3>3, <3>4
  <2>4. CASE n > Len(TimerQueue)
    <3>1. /\ n - Len(TimerQueue) \in 1..Len(TaskQueue)
          /\ TimerQueue'[n] = TaskQueue[n - Len(TimerQueue)]
      BY <1>4, <1>5, <2>1, <2>4
    <3>2. /\ TaskQueue[n - Len(TimerQueue)] \in Timers
          /\ Within(TaskQueue[n - Len(TimerQueue)], 1)
      <4>1. TaskBound = 1
        BY <1>1 DEF TaskBound
      <4> QED
        BY <3>1, <4>1, BoundTypes DEF Punctual, Behind
    <3>3. PICK t \in Timers : t = TaskQueue[n - Len(TimerQueue)]
      BY <3>2
    <3>4. Place(t, N + 1 - n)
      BY <2>1, <3>2, <3>3 DEF Place
    <3> QED
      BY <2>1, <2>2, <3>1, <3>3, <3>4
  <2> QED
    BY <1>4, <2>1, <2>3, <2>4
<1>7. Len(TaskQueue') = 0
  BY <1>1
<1>8. Places
  BY <1>6, <1>7 DEF Places
<1> QED
  BY <1>2, <1>3, <1>8, PlacesHold DEF Punctual

(* A timer is deleted: those behind it move forward, and may be passed     *)
(* over for it.                                                            *)
LEMMA DeletePunctual ==
  ASSUME Typed, Typed', Queued, Paced, Punctual, DeleteDisposed \/ CallbackDeletes
  PROVE  Punctual'
<1>1. /\ i <= Len(TimerQueue) /\ Delete(TimerQueue[i])
      /\ UNCHANGED <<TaskQueue, inGame, now>>
      /\ phase \in {"loop", "callback"} /\ phase' \in {"loop", "idle"}
      /\ phase = "callback" => phase' = "idle"
      /\ phase' = "loop" => i' = i
  BY DEF DeleteDisposed, CallbackDeletes, Looping, Current, Typed, Position
<1>2. /\ TimerQueue \in Seq(Timers) /\ i \in 1..Len(TimerQueue) /\ i \in Nat
      /\ Len(TimerQueue) \in Nat /\ TimerQueue[i] \in Timers
  BY <1>1, LenProperties, ElementOfSeq DEF Typed, TypeOK
<1>3. PICK x \in Timers : x = TimerQueue[i]
  BY <1>2
<1>4. /\ live' = live \ {x} /\ tm' = [tm EXCEPT ![x] = Blank]
      /\ clock' = [clock EXCEPT ![x] = 0] /\ turns' = [turns EXCEPT ![x] = 0]
      /\ TimerQueue' = RemoveAt(TimerQueue, i)
  BY <1>1, <1>3 DEF Delete
<1>5. Timed
  <2>1. \A u \in Timers \ {x} : Kept(u)
    BY <1>4 DEF Kept, Running, Typed, TypeOK
  <2>2. Kept(x)
    BY <1>4 DEF Kept, Running
  <2> QED
    BY <1>1, <2>1, <2>2 DEF Timed
<1>6. Outside'
  BY <1>1, <1>4 DEF Punctual, Outside
<1>7. /\ Len(TimerQueue') = Len(TimerQueue) - 1
      /\ \A n \in 1..Len(TimerQueue) - 1 :
           TimerQueue'[n] = IF n < i THEN TimerQueue[n] ELSE TimerQueue[n + 1]
  BY <1>2, <1>4, RemoveAtProperties
<1>8. N \in Nat /\ Len(TimerQueue) <= N
  BY <1>2, QueuesBounded
<1>9. ASSUME NEW n \in 1..Len(TimerQueue')
      PROVE  \E t \in Timers, k \in Nat : t = TimerQueue'[n] /\ k = Bound(n)' /\ Place(t, k)
  <2>1. n \in Nat /\ n \in 1..Len(TimerQueue) - 1 /\ N - n \in Nat /\ N + 1 - n \in Nat
    BY <1>2, <1>7, <1>8
  <2>2. PICK m \in 1..Len(TimerQueue) :
          /\ TimerQueue'[n] = TimerQueue[m]
          /\ IF n < i THEN m = n ELSE m = n + 1
    BY <1>2, <1>7, <2>1
  <2>3. Bound(m) = N - n
    BY <1>1, <1>2, <1>8, <2>1, <2>2 DEF Bound
  <2>4. Bound(n)' \in {N - n, N + 1 - n}
    BY DEF Bound
  <2>5. TimerQueue[m] \in Timers /\ Within(TimerQueue[m], N - n)
    BY <2>3, BoundTypes DEF Punctual, Behind
  <2>6. PICK t \in Timers : t = TimerQueue[m]
    BY <2>5
  <2>7. PICK k \in Nat : k = Bound(n)' /\ N - n <= k
    <3>1. N - n <= N - n /\ N - n <= N + 1 - n
      BY <1>8, <2>1
    <3>2. Bound(n)' = N - n \/ Bound(n)' = N + 1 - n
      BY <2>4
    <3> QED
      BY <2>1, <3>1, <3>2
  <2>8. Place(t, k)
    BY <2>1, <2>5, <2>6, <2>7 DEF Place
  <2> QED
    BY <2>2, <2>6, <2>7, <2>8
<1>10. ASSUME NEW n \in 1..Len(TaskQueue')
       PROVE  \E t \in Timers, k \in Nat : t = TaskQueue'[n] /\ k = TaskBound' /\ Place(t, k)
  <2>1. TaskBound = 0 /\ TaskBound' = 0
    BY <1>1 DEF TaskBound
  <2>2. TaskQueue[n] \in Timers /\ Within(TaskQueue[n], 0)
    BY <1>1, <2>1, BoundTypes DEF Punctual, Behind
  <2>3. PICK t \in Timers : t = TaskQueue[n]
    BY <2>2
  <2>4. Place(t, 0)
    BY <2>2, <2>3 DEF Place
  <2> QED
    BY <1>1, <2>1, <2>3, <2>4
<1>11. Places
  BY <1>9, <1>10 DEF Places
<1> QED
  BY <1>5, <1>6, <1>11, PlacesHold DEF Punctual

LEMMA PunctualKept ==
  ASSUME Typed, Typed', Queued, Paced, Punctual, [Next]_vars
  PROVE  Punctual'
<1>1. CASE UNCHANGED vars
  <2>1. UNCHANGED <<tm, live, TimerQueue, TaskQueue, inGame, now, phase, i, clock, turns>>
    BY <1>1 DEF vars, objects, queues, history
  <2> QED
    BY <2>1 DEF Punctual, Behind, Within, InTime, Outside, Bound, TaskBound,
                Running, Age, Remaining
<1>2. CASE Next
  BY <1>2, ClientPunctual, TickPunctual, StepPunctual, LoopEndsPunctual, TasksPunctual,
     DeletePunctual, GamePunctual DEF Next, Timer_Update
<1> QED
  BY <1>1, <1>2

LEMMA AlwaysPunctual ==
  ASSUME Paced
  PROVE  Spec => [](Typed /\ Queued /\ Punctual)
<1>1. Init => Queued /\ Punctual
  <2> SUFFICES ASSUME Init PROVE Queued /\ Punctual
    OBVIOUS
  <2>1. All = <<>> /\ live = {} /\ TimerQueue = <<>> /\ TaskQueue = <<>>
    BY DEF Init, All
  <2>2. Queued
    BY <2>1 DEF Queued, IsInjective, Range
  <2>3. (\A t : ~Running(t)) /\ phase = "idle"
    BY <2>1 DEF Init, Running
  <2> QED
    BY <2>1, <2>2, <2>3 DEF Punctual, Behind, InTime, Outside, Within
<1>2. Typed /\ Queued /\ [Next]_vars => Queued'
  BY ClientQueued, UpdateQueued, GameQueued DEF Next
<1>3. Typed /\ Typed' /\ Queued /\ Punctual /\ [Next]_vars => Punctual'
  BY PunctualKept
<1> QED
  BY <1>1, <1>2, <1>3, TimerTypes, PTL DEF Spec

(***************************************************************************)
(* If ticks are so short that as many as there are timers do not span the  *)
(* clock, what a running timer has left is what update would compute       *)
(* (Timer.cpp 140-142): no timer expires early, whatever ticks it missed   *)
(* and however often the clock has wrapped.                                *)
(***************************************************************************)
THEOREM TimersExact ==
  ASSUME Paced
  PROVE  Spec => []Exact
<1>1. Typed /\ Punctual => Exact
  BY DEF Typed, TypeOK, Punctual, InTime, Exact
<1> QED
  BY <1>1, AlwaysPunctual, PTL

(***************************************************************************)
(* Under the same condition a due timer is passed over at most once for    *)
(* every timer that can be in front of it (Timer.cpp 93-96).               *)
(***************************************************************************)
THEOREM TimersLateBound ==
  ASSUME Paced
  PROVE  Spec => []LateBound
<1>1. Typed /\ Queued /\ Punctual => LateBound
  <2> SUFFICES ASSUME Typed, Queued, Punctual,
                      NEW n \in DOMAIN TimerQueue, Running(TimerQueue[n])
               PROVE  turns[TimerQueue[n]] + n <= MaxTurns
    BY DEF LateBound
  <2>1. n \in 1..Len(TimerQueue)
    BY LenProperties DEF Typed, TypeOK
  <2>2. /\ TimerQueue[n] \in Timers /\ n \in Nat /\ N \in Nat
        /\ Bound(n) \in {N - n, N + 1 - n}
    BY <2>1, BoundTypes
  <2>3. turns[TimerQueue[n]] <= Bound(n)
    BY <2>1 DEF Punctual, Behind, Within
  <2>4. turns[TimerQueue[n]] \in Nat
    BY <2>2, MaxTurnsType DEF Typed, TypeOK
  <2>5. MaxTurns = N + 1
    BY DEF MaxTurns, N
  <2> QED
    BY <2>2, <2>3, <2>4, <2>5
<1> QED
  BY <1>1, AlwaysPunctual, PTL

=============================================================================
