------------------------ MODULE ScriptProcess_proofs ------------------------
(***************************************************************************)
(* The threads of the plugins, for any number of them, any waits and ticks *)
(* and every width of the clock: each sleeper is held by a reference, in   *)
(* the map once, and wakes on time.                                        *)
(***************************************************************************)
EXTENDS ScriptProcess, SequenceTheorems, WellFoundedInduction, TLAPS

-----------------------------------------------------------------------------
(* Times and sequences.                                                    *)

(* The first of some times, or the end of the walk.                        *)
LEMMA FirstIs ==
  ASSUME NEW keys \in SUBSET Time
  PROVE  /\ keys = {} => First(keys) = NoTick
         /\ keys # {} => First(keys) \in keys /\ \A j \in keys : First(keys) <= j
<1> DEFINE R == {ss \in Nat \X Nat : ss[1] < ss[2]}
<1>1. CASE keys = {}
  BY <1>1 DEF First
<1>2. CASE keys # {}
  <2>1. IsWellFoundedOn(R, Nat)
    BY NatLessThanWellFounded DEF OpToRel
  <2>2. keys \subseteq Nat
    BY ScriptAssumption DEF Time
  <2>3. \E x \in keys : \A y \in keys : <<y, x>> \notin R
    BY <1>2, <2>1, <2>2, WFMin
  <2>4. \A x, y \in Nat : <<y, x>> \notin R => x <= y
    OBVIOUS
  <2>5. \E x \in keys : \A y \in keys : x <= y
    BY <2>2, <2>3, <2>4
  <2> QED
    BY <1>2, <2>5 DEF First
<1> QED
  BY <1>1, <1>2

(* Where a time is on the clock.                                           *)
LEMMA Clock ==
  /\ Wrap \in Nat \ {0} /\ Time \subseteq Nat
  /\ \A d \in Nat : d % Wrap \in Time /\ (d < Wrap => d % Wrap = d)
<1>1. Wrap \in Nat \ {0}
  BY ScriptAssumption
<1>2. \A d \in Nat : d % Wrap \in Time
  BY <1>1 DEF Time
<1>3. \A d \in 0..Wrap - 1 : d % Wrap = d
  BY <1>1, SMTT(30)
<1> QED
  BY <1>1, <1>2, <1>3 DEF Time

LEMMA AppendOnce ==
  ASSUME NEW S, NEW s \in Seq(S), NEW x \in S
  PROVE  /\ Append(s, x) \in Seq(S) /\ Append(s, x) # <<>>
         /\ Range(Append(s, x)) = Range(s) \cup {x}
         /\ IsInjective(s) /\ x \notin Range(s) => IsInjective(Append(s, x))
         /\ Last(Append(s, x)) = x
         /\ s # <<>> => Head(Append(s, x)) = Head(s)
         /\ s = <<>> => Head(Append(s, x)) = x
<1> DEFINE a == Append(s, x)
<1>1. /\ a \in Seq(S) /\ a # <<>> /\ Len(a) = Len(s) + 1
      /\ \A j \in 1..Len(s) : a[j] = s[j]
      /\ a[Len(s) + 1] = x
  BY AppendProperties
<1>2. Len(s) \in Nat /\ DOMAIN s = 1..Len(s) /\ DOMAIN a = 1..Len(s) + 1
  BY <1>1, LenProperties
<1>3. Head(a) = IF s = <<>> THEN x ELSE Head(s)
  BY HeadTailAppend
<1> HIDE DEF a
<1>4. \A j \in 1..Len(s) : s[j] \in Range(s)
  BY <1>2 DEF Range
<1>5. Range(a) = Range(s) \cup {x}
  <2>1. ASSUME NEW y \in Range(a) PROVE y \in Range(s) \cup {x}
    BY <1>1, <1>2, <1>4, <2>1 DEF Range
  <2>2. ASSUME NEW y \in Range(s) PROVE y \in Range(a)
    <3>1. PICK j \in 1..Len(s) : y = s[j]
      BY <1>2 DEF Range
    <3> QED
      BY <1>1, <1>2, <3>1 DEF Range
  <2>3. x \in Range(a)
    BY <1>1, <1>2 DEF Range
  <2> QED
    BY <2>1, <2>2, <2>3
<1>6. IsInjective(s) /\ x \notin Range(s) => IsInjective(a)
  BY <1>1, <1>2, <1>4 DEF IsInjective
<1>7. Last(a) = x
  BY <1>1, <1>2 DEF Last
<1> QED
  BY <1>1, <1>3, <1>5, <1>6, <1>7 DEF a

LEMMA TailOnce ==
  ASSUME NEW S, NEW s \in Seq(S), s # <<>>, IsInjective(s)
  PROVE  /\ Tail(s) \in Seq(S) /\ IsInjective(Tail(s))
         /\ Range(Tail(s)) = Range(s) \ {Head(s)}
         /\ Head(s) \in Range(s) /\ Head(s) \in S
<1> DEFINE u == Tail(s)
<1>1. /\ u \in Seq(S) /\ Len(u) = Len(s) - 1 /\ Head(s) \in S
      /\ \A j \in 1..Len(u) : u[j] = s[j + 1]
  BY HeadTailProperties
<1>2. Len(s) \in Nat \ {0} /\ DOMAIN s = 1..Len(s) /\ DOMAIN u = 1..Len(s) - 1
  BY <1>1, LenProperties, EmptySeq
<1>3. Head(s) = s[1]
  BY <1>2
<1> HIDE DEF u
<1>4. \A j, k \in 1..Len(s) : s[j] = s[k] => j = k
  BY <1>2 DEF IsInjective
<1>5. IsInjective(u)
  <2> SUFFICES ASSUME NEW j \in 1..Len(s) - 1, NEW k \in 1..Len(s) - 1, u[j] = u[k]
               PROVE  j = k
    BY <1>2 DEF IsInjective
  <2> QED
    BY <1>1, <1>2, <1>4
<1>6. ASSUME NEW y \in Range(u) PROVE y \in Range(s) \ {s[1]}
  <2>1. PICK j \in 1..Len(s) - 1 : y = u[j]
    BY <1>2 DEF Range
  <2>2. j + 1 \in 1..Len(s) /\ y = s[j + 1] /\ j + 1 # 1
    BY <1>1, <1>2, <2>1
  <2> QED
    BY <1>2, <1>4, <2>2 DEF Range
<1>7. ASSUME NEW y \in Range(s) \ {s[1]} PROVE y \in Range(u)
  <2>1. PICK j \in 1..Len(s) : y = s[j] /\ j # 1
    BY <1>2 DEF Range
  <2>2. j - 1 \in 1..Len(s) - 1 /\ u[j - 1] = y
    BY <1>1, <1>2, <2>1
  <2> QED
    BY <1>2, <2>2 DEF Range
<1>8. s[1] \in Range(s)
  BY <1>2 DEF Range
<1> QED
  BY <1>1, <1>3, <1>5, <1>6, <1>7, <1>8 DEF u

LEMMA FrontOnce ==
  ASSUME NEW S, NEW s \in Seq(S), s # <<>>, IsInjective(s)
  PROVE  /\ Front(s) \in Seq(S) /\ IsInjective(Front(s))
         /\ Range(Front(s)) = Range(s) \ {Last(s)}
         /\ Last(s) \in Range(s) /\ Last(s) \in S
         /\ Head(s) \in Range(s)
         /\ Len(s) = 1 => Front(s) = <<>> /\ Head(s) = Last(s)
         /\ Len(s) # 1 => Front(s) # <<>> /\ Head(Front(s)) = Head(s) /\ Head(s) # Last(s)
<1>1. PICK m \in Nat : Len(s) = m + 1
  <2>1. Len(s) \in Nat /\ Len(s) # 0
    BY LenProperties, EmptySeq
  <2>2. Len(s) - 1 \in Nat /\ Len(s) = (Len(s) - 1) + 1
    BY <2>1
  <2> QED
    BY <2>2
<1>2. DOMAIN s = 1..m + 1 /\ \A j \in 1..m + 1 : s[j] \in S
  BY <1>1, LenProperties, ElementOfSeq
<1>3. PICK f : f = Front(s)
  OBVIOUS
<1>4. f \in Seq(S) /\ Len(f) = m /\ \A j \in 1..m : f[j] = s[j]
  <2>1. (m + 1) - 1 = m /\ \A j \in 1..m : s[j] \in S
    BY <1>2
  <2>2. f = SubSeq(s, 1, m)
    BY <1>1, <1>3, <2>1 DEF Front
  <2>3. /\ f \in Seq(S)
        /\ Len(f) = IF 1 <= m THEN m - 1 + 1 ELSE 0
        /\ \A j \in 1..m - 1 + 1 : f[j] = s[1 + j - 1]
    BY <2>1, <2>2, SubSeqProperties
  <2>4. \A j \in 1..m : j \in 1..m - 1 + 1 /\ 1 + j - 1 = j
    OBVIOUS
  <2>5. (IF 1 <= m THEN m - 1 + 1 ELSE 0) = m
    OBVIOUS
  <2> QED
    BY <2>3, <2>4, <2>5
<1>5. DOMAIN f = 1..m
  BY <1>4, LenProperties
<1>6. Last(s) = s[m + 1] /\ Head(s) = s[1]
  BY <1>1 DEF Last
<1>7. \A j, k \in 1..m + 1 : s[j] = s[k] => j = k
  BY <1>2 DEF IsInjective
<1>8. \A j \in 1..m : j \in 1..m + 1 /\ f[j] = s[j]
  BY <1>4
<1>9. IsInjective(f)
  BY <1>5, <1>7, <1>8 DEF IsInjective
<1>10. Range(f) = Range(s) \ {s[m + 1]}
  <2>1. ASSUME NEW y \in Range(f) PROVE y \in Range(s) \ {s[m + 1]}
    <3>1. PICK j \in 1..m : y = f[j]
      BY <1>5 DEF Range
    <3>2. j \in 1..m + 1 /\ y = s[j] /\ j # m + 1 /\ m + 1 \in 1..m + 1
      BY <1>8, <3>1
    <3>3. y \in Range(s)
      BY <1>2, <3>2 DEF Range
    <3> QED
      BY <1>7, <3>2, <3>3
  <2>2. ASSUME NEW y \in Range(s) \ {s[m + 1]} PROVE y \in Range(f)
    <3>1. PICK j \in 1..m + 1 : y = s[j] /\ j # m + 1
      BY <1>2 DEF Range
    <3>2. j \in 1..m
      BY <3>1
    <3>3. f[j] = y
      BY <1>8, <3>1, <3>2
    <3> QED
      BY <1>5, <3>2, <3>3 DEF Range
  <2> QED
    BY <2>1, <2>2
<1>11. 1 \in 1..m + 1 /\ m + 1 \in 1..m + 1
  OBVIOUS
<1>12. s[m + 1] \in Range(s) /\ s[1] \in Range(s) /\ s[m + 1] \in S
  BY <1>2, <1>11 DEF Range
<1>13. CASE m = 0
  <2>1. f = <<>>
    BY <1>4, <1>13, EmptySeq
  <2>2. m + 1 = 1
    BY <1>13
  <2> QED
    BY <1>1, <1>3, <1>4, <1>6, <1>9, <1>10, <1>12, <2>1, <2>2
<1>14. CASE m # 0
  <2>1. 1 \in 1..m /\ m + 1 # 1
    BY <1>14
  <2>2. f # <<>> /\ Head(f) = f[1] /\ f[1] = s[1]
    BY <1>4, <1>8, <1>14, <2>1, EmptySeq
  <2>3. s[1] # s[m + 1]
    BY <1>7, <1>11, <2>1
  <2> QED
    BY <1>1, <1>3, <1>4, <1>6, <1>9, <1>10, <1>12, <2>1, <2>2, <2>3
<1> QED
  BY <1>13, <1>14

-----------------------------------------------------------------------------
(* The inductive invariant.                                                *)

(* The threads of the stack are those that run.                            *)
Stacked ==
  /\ IsInjective(stack)
  /\ \A t \in Thread : status[t] = "running" <=> t \in Range(stack)

(* A reference keeps a thread from the collector, and one that has yielded *)
(* has it in the map.                                                      *)
Held ==
  \A t \in Thread : /\ status[t] # "free" => t \in refs
                    /\ status[t] = "suspended" => t \in thread_ref_map

(* The thread that Tick has resumed.                                       *)
Resumed(t) == Ticking /\ stack # <<>> /\ t = Head(stack)

(* A thread is in the list of its time, and sleeps there unless Tick has   *)
(* just resumed it.                                                        *)
Asleep ==
  \A k \in Time : \A t \in Range(yield_thread_map[k]) :
    /\ due[t] % Wrap = k
    /\ status[t] \in {"suspended", "dead"} \/ Resumed(t)

(* Tick resumes the first of the list it is at.                            *)
AtHead ==
  Ticking =>
    /\ walk <= now
    /\ stack # <<>> => /\ yield_thread_map[walk] # <<>>
                       /\ Current = Head(stack)
                       /\ Head(stack) \in thread_ref_map

(* Behind Tick are only the sleepers of the next turn of the clock.        *)
Passed ==
  \A k \in Time : k < (IF Ticking THEN walk ELSE now) =>
    \A t \in Range(yield_thread_map[k]) : due[t] >= Wrap

Inv == TypeOK /\ Stacked /\ Held /\ Asleep /\ AtHead /\ SleepsOnce /\ Passed

-----------------------------------------------------------------------------
(* What the return of a thread makes of the lists.                         *)

(* The running thread is the one Tick has resumed only if it is alone.     *)
LEMMA OneRunning ==
  ASSUME TypeOK, Stacked, NEW t \in Thread, Running(t)
  PROVE  /\ stack \in Seq(Thread) /\ stack # <<>>
         /\ Front(stack) \in Seq(Thread) /\ IsInjective(Front(stack))
         /\ Range(Front(stack)) = Range(stack) \ {t}
         /\ t \in Range(stack) /\ status[t] = "running"
         /\ ToTick => Ticking /\ Front(stack) = <<>> /\ Head(stack) = t
         /\ Ticking /\ ~ToTick => /\ Front(stack) # <<>>
                                  /\ Head(Front(stack)) = Head(stack)
                                  /\ Head(stack) # t
<1>1. stack # <<>> /\ Last(stack) = t /\ stack \in Seq(Thread)
  BY DEF Running, TypeOK
<1>2. IsInjective(stack)
  BY DEF Stacked
<1>3. /\ Front(stack) \in Seq(Thread) /\ IsInjective(Front(stack))
      /\ Range(Front(stack)) = Range(stack) \ {t}
      /\ t \in Range(stack)
      /\ Len(stack) = 1 => Front(stack) = <<>> /\ Head(stack) = t
      /\ Len(stack) # 1 => Front(stack) # <<>> /\ Head(Front(stack)) = Head(stack) /\ Head(stack) # t
  BY <1>1, <1>2, FrontOnce
<1>4. status[t] = "running"
  BY <1>3 DEF Stacked
<1> QED
  BY <1>1, <1>3, <1>4 DEF ToTick

(* Where the running thread is in the map.                                 *)
LEMMA WhereRunning ==
  ASSUME Inv, NEW t \in Thread, Running(t)
  PROVE  /\ ToTick => /\ walk \in Time /\ yield_thread_map[walk] # <<>>
                      /\ Head(yield_thread_map[walk]) = t
                      /\ t \in thread_ref_map
                      /\ \A k \in Time \ {walk} : t \notin Range(yield_thread_map[k])
         /\ ~ToTick => \A k \in Time : t \notin Range(yield_thread_map[k])
<1>1. TypeOK /\ Stacked /\ Asleep /\ AtHead /\ SleepsOnce
  BY DEF Inv
<1>2. /\ stack # <<>> /\ status[t] = "running"
      /\ ToTick => Ticking /\ Head(stack) = t
      /\ Ticking /\ ~ToTick => Head(stack) # t
  BY <1>1, OneRunning
<1>3. ASSUME ToTick
      PROVE  /\ walk \in Time /\ yield_thread_map[walk] # <<>>
             /\ Head(yield_thread_map[walk]) = t
             /\ t \in thread_ref_map
             /\ \A k \in Time \ {walk} : t \notin Range(yield_thread_map[k])
  <2>1. walk \in Time
    BY <1>1, <1>2, <1>3 DEF TypeOK, Ticking
  <2>2. /\ yield_thread_map[walk] # <<>> /\ Head(yield_thread_map[walk]) = t
        /\ t \in thread_ref_map
    BY <1>1, <1>2, <1>3 DEF AtHead, Current
  <2>3. yield_thread_map[walk] \in Seq(Thread) /\ IsInjective(yield_thread_map[walk])
    BY <1>1, <2>1 DEF TypeOK, SleepsOnce
  <2>4. t \in Range(yield_thread_map[walk])
    BY <2>2, <2>3, TailOnce
  <2> QED
    BY <1>1, <2>1, <2>2, <2>4 DEF SleepsOnce
<1>4. ASSUME ~ToTick, NEW k \in Time PROVE t \notin Range(yield_thread_map[k])
  <2>1. ~Resumed(t)
    BY <1>2, <1>4 DEF Resumed
  <2> QED
    BY <1>1, <1>2, <2>1 DEF Asleep
<1> QED
  BY <1>3, <1>4

(* The lists m after the running thread t has returned, if it has gone to  *)
(* sleep until a time of K.                                                *)
Left(t, m, K) ==
  /\ m \in [Time -> Seq(Thread)]
  /\ \A k \in Time : /\ IsInjective(m[k])
                     /\ k \in K => Range(m[k]) = (Range(yield_thread_map[k]) \ {t}) \cup {t}
                     /\ k \notin K => Range(m[k]) = Range(yield_thread_map[k]) \ {t}
  /\ Ticking /\ ~ToTick => m[walk] # <<>> /\ Head(m[walk]) = Head(stack)

LEMMA LeftAwake ==
  ASSUME Inv, NEW t \in Thread, Running(t)
  PROVE  Left(t, Erased(yield_thread_map), {})
<1>1. /\ yield_thread_map \in [Time -> Seq(Thread)]
      /\ \A k \in Time : yield_thread_map[k] \in Seq(Thread) /\ IsInjective(yield_thread_map[k])
      /\ stack # <<>>
      /\ stack # <<>> /\ Ticking => yield_thread_map[walk] # <<>> /\ Head(yield_thread_map[walk]) = Head(stack)
  BY DEF Inv, TypeOK, SleepsOnce, AtHead, Current, Running
<1>2. CASE ToTick
  <2>1. /\ walk \in Time /\ yield_thread_map[walk] # <<>>
        /\ Head(yield_thread_map[walk]) = t
        /\ \A k \in Time \ {walk} : t \notin Range(yield_thread_map[k])
    BY <1>2, WhereRunning
  <2>2. Erased(yield_thread_map) = [yield_thread_map EXCEPT ![walk] = Tail(@)]
    BY <1>2 DEF Erased
  <2>3. /\ Tail(yield_thread_map[walk]) \in Seq(Thread)
        /\ IsInjective(Tail(yield_thread_map[walk]))
        /\ Range(Tail(yield_thread_map[walk])) = Range(yield_thread_map[walk]) \ {t}
    BY <1>1, <2>1, TailOnce
  <2> QED
    BY <1>1, <1>2, <2>1, <2>2, <2>3 DEF Left
<1>3. CASE ~ToTick
  <2>1. \A k \in Time : t \notin Range(yield_thread_map[k])
    BY <1>3, WhereRunning
  <2>2. Erased(yield_thread_map) = yield_thread_map
    BY <1>3 DEF Erased
  <2> QED
    BY <1>1, <1>3, <2>1, <2>2 DEF Left
<1> QED
  BY <1>2, <1>3

LEMMA LeftAsleep ==
  ASSUME Inv, NEW t \in Thread, Running(t), NEW length \in Length, Key(length) \in Time
  PROVE  Left(t, Erased(Slept(t, length)), {Key(length)})
<1> DEFINE K == Key(length)
           a == Append(yield_thread_map[K], t)
<1>1. /\ yield_thread_map \in [Time -> Seq(Thread)]
      /\ \A k \in Time : yield_thread_map[k] \in Seq(Thread) /\ IsInjective(yield_thread_map[k])
      /\ stack # <<>>
      /\ stack # <<>> /\ Ticking => yield_thread_map[walk] # <<>> /\ Head(yield_thread_map[walk]) = Head(stack)
      /\ K \in Time
  BY DEF Inv, TypeOK, SleepsOnce, AtHead, Current, Running
<1>2. /\ a \in Seq(Thread) /\ a # <<>>
      /\ Range(a) = Range(yield_thread_map[K]) \cup {t}
      /\ t \notin Range(yield_thread_map[K]) => IsInjective(a)
      /\ yield_thread_map[K] # <<>> => Head(a) = Head(yield_thread_map[K])
  BY <1>1, AppendOnce
<1>3. Slept(t, length) = [yield_thread_map EXCEPT ![K] = a]
  BY DEF Slept
<1> HIDE DEF K
<1>4. CASE ToTick /\ K = walk
  <2>1. /\ walk \in Time /\ yield_thread_map[walk] # <<>>
        /\ Head(yield_thread_map[walk]) = t
        /\ \A k \in Time \ {walk} : t \notin Range(yield_thread_map[k])
    BY <1>4, WhereRunning
  <2>2. PICK u : u = Tail(yield_thread_map[walk])
    OBVIOUS
  <2>3. u \in Seq(Thread) /\ IsInjective(u) /\ Range(u) = Range(yield_thread_map[walk]) \ {t}
    BY <1>1, <2>1, <2>2, TailOnce
  <2>4. Tail(a) = Append(u, t)
    BY <1>1, <1>4, <2>1, <2>2, HeadTailAppend
  <2>5. /\ Append(u, t) \in Seq(Thread) /\ IsInjective(Append(u, t))
        /\ Range(Append(u, t)) = (Range(yield_thread_map[walk]) \ {t}) \cup {t}
    BY <2>3, AppendOnce
  <2>6. Erased(Slept(t, length)) = [yield_thread_map EXCEPT ![walk] = Append(u, t)]
    <3> HIDE DEF a
    <3>1. Erased(Slept(t, length)) = [Slept(t, length) EXCEPT ![walk] = Tail(@)]
      BY <1>4 DEF Erased
    <3> QED
      BY <1>1, <1>3, <1>4, <2>4, <3>1
  <2> QED
    BY <1>1, <1>4, <2>1, <2>5, <2>6 DEF Left, K
<1>5. CASE ToTick /\ K # walk
  <2>1. /\ walk \in Time /\ yield_thread_map[walk] # <<>>
        /\ Head(yield_thread_map[walk]) = t
        /\ \A k \in Time \ {walk} : t \notin Range(yield_thread_map[k])
    BY <1>5, WhereRunning
  <2>2. PICK u : u = Tail(yield_thread_map[walk])
    OBVIOUS
  <2>3. u \in Seq(Thread) /\ IsInjective(u) /\ Range(u) = Range(yield_thread_map[walk]) \ {t}
    BY <1>1, <2>1, <2>2, TailOnce
  <2> HIDE DEF a
  <2>4. Erased(Slept(t, length)) = [Slept(t, length) EXCEPT ![walk] = Tail(@)]
    BY <1>5 DEF Erased
  <2>5. PICK m : m = Erased(Slept(t, length))
    OBVIOUS
  <2>6. /\ m \in [Time -> Seq(Thread)]
        /\ m[walk] = u /\ m[K] = a
        /\ \A k \in Time \ {walk, K} : m[k] = yield_thread_map[k]
    <3>1. PICK n : n = Slept(t, length)
      OBVIOUS
    <3>2. /\ n \in [Time -> Seq(Thread)]
          /\ n[K] = a /\ n[walk] = yield_thread_map[walk]
          /\ \A k \in Time \ {walk, K} : n[k] = yield_thread_map[k]
      BY <1>1, <1>2, <1>3, <1>5, <2>1, <3>1
    <3>3. m = [n EXCEPT ![walk] = u]
      BY <2>2, <2>4, <2>5, <3>1, <3>2
    <3>4. K \in Time /\ K # walk
      BY <1>1, <1>5
    <3> QED
      BY <2>1, <2>3, <3>2, <3>3, <3>4
  <2>7. t \notin Range(yield_thread_map[K])
    BY <1>1, <1>5, <2>1
  <2>8. Left(t, m, {K})
    BY <1>1, <1>2, <1>5, <2>1, <2>3, <2>6, <2>7 DEF Left
  <2> QED
    BY <2>5, <2>8 DEF K
<1>6. CASE ~ToTick
  <2>1. \A k \in Time : t \notin Range(yield_thread_map[k])
    BY <1>6, WhereRunning
  <2> HIDE DEF a
  <2>2. Erased(Slept(t, length)) = [yield_thread_map EXCEPT ![K] = a]
    BY <1>3, <1>6 DEF Erased
  <2>3. PICK m : m = Erased(Slept(t, length))
    OBVIOUS
  <2>4. /\ m \in [Time -> Seq(Thread)] /\ m[K] = a
        /\ \A k \in Time \ {K} : m[k] = yield_thread_map[k]
    BY <1>1, <1>2, <2>2, <2>3
  <2>5. ASSUME Ticking PROVE m[walk] # <<>> /\ Head(m[walk]) = Head(stack)
    <3>1. walk \in Time
      BY <2>5 DEF Inv, TypeOK, Ticking
    <3> QED
      BY <1>1, <1>2, <2>4, <2>5, <3>1
  <2>6. Left(t, m, {K})
    BY <1>1, <1>2, <1>6, <2>1, <2>4, <2>5 DEF Left
  <2> QED
    BY <2>3, <2>6 DEF K
<1> QED
  BY <1>4, <1>5, <1>6

-----------------------------------------------------------------------------
(* The steps of the invariant.                                             *)

LEMMA InitInv == Init => Inv
<1> SUFFICES ASSUME Init PROVE Inv
  OBVIOUS
<1>1. /\ now = 0 /\ refs = {} /\ thread_ref_map = {} /\ stack = <<>> /\ walk = NoTick
      /\ status = [t \in Thread |-> "free"] /\ due = [t \in Thread |-> 0]
      /\ yield_thread_map = [k \in Time |-> <<>>]
  BY DEF Init, NoSleepers
<1>2. /\ \A k \in Time : yield_thread_map[k] = <<>>
      /\ \A t \in Thread : status[t] = "free"
      /\ ~Ticking
  BY <1>1 DEF Ticking
<1>3. TypeOK
  BY <1>1, ScriptAssumption DEF TypeOK, Status
<1>4. Range(<<>>) = {} /\ IsInjective(<<>>)
  BY DEF Range, IsInjective
<1>5. Stacked /\ Held
  BY <1>1, <1>2, <1>4 DEF Stacked, Held
<1>6. Asleep /\ AtHead /\ SleepsOnce /\ Passed
  BY <1>2, <1>4 DEF Asleep, AtHead, SleepsOnce, Passed
<1> QED
  BY <1>3, <1>5, <1>6 DEF Inv

(* A thread returns, asleep until a time of K or until none.               *)
LEMMA ReturnInv ==
  ASSUME Inv, NEW t \in Thread, Running(t),
         NEW result \in {"suspended", "dead", "free"}, NEW m, NEW K \in SUBSET Time,
         Left(t, m, K),
         status' = [status EXCEPT ![t] = result], stack' = Front(stack),
         yield_thread_map' = m, now' = now, walk' = walk,
         due' \in [Thread -> Nat], \A u \in Thread \ {t} : due'[u] = due[u],
         \A k \in K : /\ result # "free" /\ due'[t] % Wrap = k
                      /\ k < (IF Ticking THEN walk ELSE now) => due'[t] >= Wrap,
         refs' \in SUBSET Thread, refs \ {t} \subseteq refs', result # "free" => t \in refs',
         thread_ref_map' \in SUBSET Thread, thread_ref_map \ {t} \subseteq thread_ref_map',
         ~ToTick => thread_ref_map \subseteq thread_ref_map',
         result = "suspended" => t \in thread_ref_map'
  PROVE  Inv'
<1>1. /\ TypeOK /\ Stacked /\ Held /\ Asleep /\ AtHead /\ SleepsOnce /\ Passed
  BY DEF Inv
<1>2. /\ stack \in Seq(Thread) /\ stack # <<>>
      /\ stack' \in Seq(Thread) /\ IsInjective(stack')
      /\ Range(stack') = Range(stack) \ {t}
      /\ t \in Range(stack)
      /\ ToTick => Ticking /\ stack' = <<>> /\ Head(stack) = t
      /\ Ticking /\ ~ToTick => stack' # <<>> /\ Head(stack') = Head(stack) /\ Head(stack) # t
  BY <1>1, OneRunning
<1>3. /\ m \in [Time -> Seq(Thread)]
      /\ \A k \in Time : /\ IsInjective(m[k])
                         /\ k \in K => Range(m[k]) = (Range(yield_thread_map[k]) \ {t}) \cup {t}
                         /\ k \notin K => Range(m[k]) = Range(yield_thread_map[k]) \ {t}
      /\ Ticking /\ ~ToTick => m[walk] # <<>> /\ Head(m[walk]) = Head(stack)
  BY DEF Left
<1>4. status'[t] = result /\ \A u \in Thread \ {t} : status'[u] = status[u]
  BY <1>1 DEF TypeOK
<1>5. Ticking' <=> Ticking
  BY DEF Ticking
<1>6. TypeOK'
  BY <1>1, <1>2, <1>3 DEF TypeOK, Status
<1>7. Stacked'
  <2>1. ASSUME NEW u \in Thread PROVE status'[u] = "running" <=> u \in Range(stack')
    BY <1>1, <1>2, <1>4 DEF Stacked
  <2> QED
    BY <1>2, <2>1 DEF Stacked
<1>8. Held'
  BY <1>1, <1>4 DEF Held
<1>9. ASSUME NEW k \in Time, NEW u \in Range(yield_thread_map'[k])
      PROVE  \/ u = t /\ k \in K
             \/ u # t /\ u \in Range(yield_thread_map[k]) /\ u \in Thread
  <2>1. yield_thread_map'[k] \in Seq(Thread)
    BY <1>3
  <2>2. u \in Thread
    BY <2>1, RangeOfSeq DEF Range
  <2> QED
    BY <1>3, <1>9, <2>2
<1>10. Asleep'
  <2> SUFFICES ASSUME NEW k \in Time, NEW u \in Range(yield_thread_map'[k])
               PROVE  /\ due'[u] % Wrap = k
                      /\ status'[u] \in {"suspended", "dead"} \/ Resumed(u)'
    BY DEF Asleep
  <2>1. CASE u = t /\ k \in K
    BY <1>4, <2>1
  <2>2. CASE u # t /\ u \in Range(yield_thread_map[k]) /\ u \in Thread
    <3>1. due'[u] % Wrap = k
      BY <1>1, <2>2 DEF Asleep
    <3>2. status[u] \in {"suspended", "dead"} \/ Resumed(u)
      BY <1>1, <2>2 DEF Asleep
    <3>3. Resumed(u) => Resumed(u)'
      BY <1>2, <1>5, <2>2 DEF Resumed
    <3> QED
      BY <1>4, <2>2, <3>1, <3>2, <3>3
  <2> QED
    BY <1>9, <2>1, <2>2
<1>11. AtHead'
  BY <1>1, <1>2, <1>3, <1>5 DEF AtHead, Current
<1>12. SleepsOnce'
  <2>1. K = {} \/ K = {due'[t] % Wrap}
    OBVIOUS
  <2>2. ASSUME NEW j \in Time, NEW k \in Time, j # k,
               NEW u \in Range(m[j]) \cap Range(m[k])
        PROVE  FALSE
    BY <1>1, <1>3, <2>1, <2>2 DEF SleepsOnce
  <2> QED
    BY <1>3, <2>2 DEF SleepsOnce
<1>13. Passed'
  <2> SUFFICES ASSUME NEW k \in Time, k < (IF Ticking THEN walk ELSE now),
                      NEW u \in Range(yield_thread_map'[k])
               PROVE  due'[u] >= Wrap
    BY <1>5 DEF Passed
  <2> QED
    BY <1>1, <1>9 DEF Passed
<1> QED
  BY <1>6, <1>7, <1>8, <1>10, <1>11, <1>12, <1>13 DEF Inv

(* Only a Wait past the wrap is put behind Tick.                           *)
LEMMA WaitTime ==
  ASSUME TypeOK, AtHead, NEW length \in Length
  PROVE  /\ now + length \in Nat /\ Key(length) \in Time
         /\ Key(length) < (IF Ticking THEN walk ELSE now) => now + length >= Wrap
<1>1. now \in Nat /\ length \in Nat
  BY ScriptAssumption DEF TypeOK
<1>2. PICK d \in Nat : d = now + length
  BY <1>1
<1>3. d % Wrap \in Time /\ d % Wrap \in Nat /\ (d < Wrap => d % Wrap = d)
  BY Clock
<1>4. PICK k \in Time : k = d % Wrap /\ k = Key(length)
  BY <1>2, <1>3 DEF Key
<1>5. k \in Nat /\ Wrap \in Nat
  BY <1>3, <1>4, Clock
<1>6. ASSUME d < Wrap PROVE ~(k < (IF Ticking THEN walk ELSE now))
  <2>1. k = d /\ now <= d
    BY <1>1, <1>2, <1>3, <1>4, <1>6
  <2>2. Ticking => walk <= now /\ walk \in Nat
    BY Clock DEF AtHead, TypeOK, Ticking
  <2> QED
    BY <1>1, <1>5, <2>1, <2>2
<1> QED
  BY <1>2, <1>4, <1>5, <1>6

LEMMA StopInv ==
  ASSUME Inv, NEW t \in Thread, Stop(t)
  PROVE  Inv'
<1>1. TypeOK /\ Stacked /\ Held /\ AtHead
  BY DEF Inv
<1>2. Running(t)
  BY DEF Stop, Wait, WaitFails, Yield, Finish, Fail
<1>3. status[t] = "running"
  BY <1>1, <1>2, OneRunning
<1>4. t \in refs /\ refs \in SUBSET Thread /\ thread_ref_map \in SUBSET Thread
  BY <1>1, <1>3 DEF TypeOK, Held
<1>5. /\ Recorded(t) \in SUBSET Thread
      /\ thread_ref_map \subseteq Recorded(t) /\ t \in Recorded(t)
  BY <1>2, <1>4, WhereRunning DEF Recorded
<1>6. due \in [Thread -> Nat]
  BY <1>1 DEF TypeOK
<1>7. ASSUME NEW length \in Length, Wait(t, length) \/ WaitFails(t, length)
      PROVE  Inv'
  <2>1. /\ now + length \in Nat /\ Key(length) \in Time
        /\ Key(length) < (IF Ticking THEN walk ELSE now) => now + length >= Wrap
    BY <1>1, WaitTime
  <2>2. PICK result \in {"suspended", "dead"} :
          /\ Returns(t, result, Slept(t, length))
          /\ due' = [due EXCEPT ![t] = now + length] /\ refs' = refs
          /\ thread_ref_map' = IF result = "suspended" THEN Recorded(t) ELSE thread_ref_map
    BY <1>7 DEF Wait, WaitFails
  <2>3. PICK m : m = Erased(Slept(t, length))
    OBVIOUS
  <2>4. PICK key \in Time : key = Key(length)
    BY <2>1
  <2>5. Left(t, m, {key})
    BY <1>2, <2>1, <2>3, <2>4, LeftAsleep
  <2>6. /\ status' = [status EXCEPT ![t] = result] /\ stack' = Front(stack)
        /\ yield_thread_map' = m /\ now' = now /\ walk' = walk
    BY <2>2, <2>3 DEF Returns
  <2>7. /\ due' \in [Thread -> Nat] /\ \A u \in Thread \ {t} : due'[u] = due[u]
        /\ due'[t] = now + length
    BY <1>6, <2>1, <2>2
  <2>8. \A k \in {key} : /\ result # "free" /\ due'[t] % Wrap = k
                         /\ k < (IF Ticking THEN walk ELSE now) => due'[t] >= Wrap
    BY <2>1, <2>4, <2>7 DEF Key
  <2>9. /\ refs' \in SUBSET Thread /\ refs \ {t} \subseteq refs' /\ t \in refs'
        /\ thread_ref_map' \in SUBSET Thread /\ thread_ref_map \subseteq thread_ref_map'
        /\ result = "suspended" => t \in thread_ref_map'
    BY <1>4, <1>5, <2>2
  <2>10. PICK K \in SUBSET Time : K = {key}
    OBVIOUS
  <2>11. result \in {"suspended", "dead", "free"}
    OBVIOUS
  <2> QED
    BY <1>2, <2>5, <2>6, <2>7, <2>8, <2>9, <2>10, <2>11, ReturnInv
<1>8. ASSUME Yield(t) \/ Finish(t) \/ Fail(t)
      PROVE  Inv'
  <2>1. PICK result \in {"suspended", "free", "dead"} :
          /\ Returns(t, result, yield_thread_map)
          /\ due' = due
          /\ refs' = IF result = "free" THEN refs \ {t} ELSE refs
          /\ \/ result = "suspended" /\ thread_ref_map' = Recorded(t)
             \/ result = "free" /\ thread_ref_map' = IF ToTick THEN thread_ref_map \ {t} ELSE thread_ref_map
             \/ result = "dead" /\ thread_ref_map' = thread_ref_map
    BY <1>8 DEF Yield, Finish, Fail
  <2>2. PICK m : m = Erased(yield_thread_map)
    OBVIOUS
  <2>3. Left(t, m, {})
    BY <1>2, <2>2, LeftAwake
  <2>4. /\ status' = [status EXCEPT ![t] = result] /\ stack' = Front(stack)
        /\ yield_thread_map' = m /\ now' = now /\ walk' = walk
    BY <2>1, <2>2 DEF Returns
  <2>5. /\ refs' \in SUBSET Thread /\ refs \ {t} \subseteq refs'
        /\ result # "free" => t \in refs'
    BY <1>4, <2>1
  <2>6. /\ thread_ref_map' \in SUBSET Thread /\ thread_ref_map \ {t} \subseteq thread_ref_map'
        /\ ~ToTick => thread_ref_map \subseteq thread_ref_map'
        /\ result = "suspended" => t \in thread_ref_map'
    BY <1>4, <1>5, <2>1
  <2>7. /\ due' \in [Thread -> Nat] /\ \A u \in Thread \ {t} : due'[u] = due[u]
        /\ result \in {"suspended", "dead", "free"}
    BY <1>6, <2>1
  <2>8. PICK K \in SUBSET Time : K = {}
    OBVIOUS
  <2>9. \A k \in K : /\ result # "free" /\ due'[t] % Wrap = k
                     /\ k < (IF Ticking THEN walk ELSE now) => due'[t] >= Wrap
    BY <2>8
  <2>10. Left(t, m, K)
    BY <2>3, <2>8
  <2> QED
    BY <1>2, <2>4, <2>5, <2>6, <2>7, <2>9, <2>10, ReturnInv
<1> QED
  BY <1>7, <1>8 DEF Stop

LEMMA ThreadExecInv ==
  ASSUME Inv, NEW t \in Thread, ThreadExec(t)
  PROVE  Inv'
<1>1. /\ TypeOK /\ Stacked /\ Held /\ Asleep /\ AtHead /\ SleepsOnce /\ Passed
  BY DEF Inv
<1>2. /\ status[t] = "free"
      /\ stack # <<>> \/ ~Ticking
      /\ status' = [status EXCEPT ![t] = "running"]
      /\ refs' = refs \cup {t} /\ stack' = Append(stack, t)
      /\ now' = now /\ thread_ref_map' = thread_ref_map /\ yield_thread_map' = yield_thread_map
      /\ walk' = walk /\ due' = due
  BY DEF ThreadExec
<1>3. stack \in Seq(Thread) /\ t \notin Range(stack)
  BY <1>1, <1>2 DEF TypeOK, Stacked
<1>4. /\ stack' \in Seq(Thread) /\ IsInjective(stack') /\ stack' # <<>>
      /\ Range(stack') = Range(stack) \cup {t}
      /\ stack # <<>> => Head(stack') = Head(stack)
  BY <1>1, <1>2, <1>3, AppendOnce DEF Stacked
<1>5. status'[t] = "running" /\ \A u \in Thread \ {t} : status'[u] = status[u]
  BY <1>1, <1>2 DEF TypeOK
<1>6. Ticking' <=> Ticking
  BY <1>2 DEF Ticking
<1>7. TypeOK'
  BY <1>1, <1>2, <1>4 DEF TypeOK, Status
<1>8. Stacked'
  BY <1>1, <1>4, <1>5 DEF Stacked
<1>9. Held'
  BY <1>1, <1>2, <1>5 DEF Held
<1>10. Asleep'
  <2> SUFFICES ASSUME NEW k \in Time, NEW u \in Range(yield_thread_map[k])
               PROVE  /\ due[u] % Wrap = k
                      /\ status'[u] \in {"suspended", "dead"} \/ Resumed(u)'
    BY <1>2 DEF Asleep
  <2>1. yield_thread_map[k] \in Seq(Thread)
    BY <1>1 DEF TypeOK
  <2>2. u \in Thread
    BY <2>1, RangeOfSeq
  <2>3. due[u] % Wrap = k /\ (status[u] \in {"suspended", "dead"} \/ Resumed(u))
    BY <1>1 DEF Asleep
  <2>4. Resumed(u) => Resumed(u)'
    BY <1>4, <1>6 DEF Resumed
  <2> QED
    BY <1>2, <1>5, <2>2, <2>3, <2>4
<1>11. AtHead'
  BY <1>1, <1>2, <1>4, <1>6 DEF AtHead, Current
<1>12. SleepsOnce' /\ Passed'
  BY <1>1, <1>2, <1>6 DEF SleepsOnce, Passed
<1> QED
  BY <1>7, <1>8, <1>9, <1>10, <1>11, <1>12 DEF Inv

LEMMA TickInv ==
  ASSUME Inv, Tick
  PROVE  Inv'
<1>1. /\ TypeOK /\ Stacked /\ Held /\ Asleep /\ AtHead /\ SleepsOnce /\ Passed
  BY DEF Inv
<1>2. PICK d \in Elapse : now + d <= MaxTime /\ now' = now + d /\ walk' = First(Due(now + d))
  BY DEF Tick
<1>3. /\ stack = <<>> /\ ~Ticking
      /\ status' = status /\ refs' = refs /\ thread_ref_map' = thread_ref_map
      /\ yield_thread_map' = yield_thread_map /\ stack' = stack /\ due' = due
  BY DEF Tick, Idle
<1>4. PICK keys \in SUBSET Time : keys = Due(now + d)
  BY DEF Due
<1>5. now' \in 0..MaxTime /\ MaxTime \in 0..Wrap - 1 /\ Wrap \in Nat
  BY <1>1, <1>2, ScriptAssumption DEF TypeOK
<1>6. /\ keys = {} => walk' = NoTick
      /\ keys # {} => walk' \in keys /\ \A j \in keys : walk' <= j
  BY <1>2, <1>4, FirstIs
<1>7. \A k \in Time : k \in keys <=> yield_thread_map[k] # <<>> /\ k <= now'
  BY <1>2, <1>4 DEF Due
<1>8. Ticking' => walk' \in Time /\ walk' <= now' /\ keys # {}
  BY <1>6, <1>7 DEF Ticking
<1>9. walk' # NoTick <=> keys # {}
  BY <1>6, Clock DEF NoTick
<1>10. Time \subseteq Nat /\ now' \in Nat
  BY <1>5, Clock
<1>11. TypeOK'
  BY <1>1, <1>3, <1>5, <1>6 DEF TypeOK
<1>12. Stacked' /\ Held' /\ SleepsOnce'
  BY <1>1, <1>3 DEF Stacked, Held, SleepsOnce
<1>13. Asleep'
  BY <1>1, <1>3 DEF Asleep, Resumed
<1>14. AtHead'
  BY <1>3, <1>8 DEF AtHead
<1>15. Passed'
  <2> SUFFICES ASSUME NEW k \in Time, k < (IF Ticking' THEN walk' ELSE now')
               PROVE  \A t \in Range(yield_thread_map[k]) : due[t] >= Wrap
    BY <1>3 DEF Passed
  <2>1. Ticking' <=> keys # {}
    BY <1>9 DEF Ticking
  <2>2. k <= now' /\ k \notin keys
    <3>1. CASE keys = {}
      BY <1>10, <2>1, <3>1
    <3>2. CASE keys # {}
      <4>1. walk' \in Nat /\ walk' <= now' /\ k < walk' /\ k \in Nat
        BY <1>8, <1>10, <2>1, <3>2
      <4> QED
        BY <1>6, <1>10, <3>2, <4>1
    <3> QED
      BY <3>1, <3>2
  <2>3. yield_thread_map[k] = <<>>
    BY <1>7, <2>2
  <2> QED
    BY <2>3 DEF Range
<1> QED
  BY <1>11, <1>12, <1>13, <1>14, <1>15 DEF Inv

LEMMA TickStepsInv ==
  ASSUME Inv, TickSteps
  PROVE  Inv'
<1>1. /\ TypeOK /\ Stacked /\ Held /\ Asleep /\ AtHead /\ SleepsOnce /\ Passed
  BY DEF Inv
<1>2. /\ Ticking /\ stack = <<>> /\ yield_thread_map[walk] = <<>>
      /\ walk' = First({k \in Due(now) : k > walk})
      /\ now' = now /\ status' = status /\ refs' = refs /\ thread_ref_map' = thread_ref_map
      /\ yield_thread_map' = yield_thread_map /\ stack' = stack /\ due' = due
  BY DEF TickSteps
<1>3. PICK keys \in SUBSET Time : keys = {k \in Due(now) : k > walk}
  BY DEF Due
<1>4. now \in Nat /\ walk \in Nat /\ walk \in Time /\ Time \subseteq Nat
  BY <1>1, <1>2, Clock DEF TypeOK, Ticking
<1>5. /\ keys = {} => walk' = NoTick
      /\ keys # {} => walk' \in keys /\ \A j \in keys : walk' <= j
  BY <1>2, <1>3, FirstIs
<1>6. \A k \in Time : k \in keys <=> yield_thread_map[k] # <<>> /\ k <= now /\ k > walk
  BY <1>3 DEF Due
<1>7. Ticking' => walk' \in Time /\ walk' <= now /\ keys # {}
  BY <1>5, <1>6 DEF Ticking
<1>8. walk' # NoTick <=> keys # {}
  BY <1>5, Clock DEF NoTick
<1>9. TypeOK'
  BY <1>1, <1>2, <1>5 DEF TypeOK
<1>10. Stacked' /\ Held' /\ SleepsOnce'
  BY <1>1, <1>2 DEF Stacked, Held, SleepsOnce
<1>11. Asleep'
  BY <1>1, <1>2 DEF Asleep, Resumed
<1>12. AtHead'
  BY <1>2, <1>7 DEF AtHead
<1>13. Passed'
  <2> SUFFICES ASSUME NEW k \in Time, k < (IF Ticking' THEN walk' ELSE now),
                      NEW t \in Range(yield_thread_map[k])
               PROVE  due[t] >= Wrap
    BY <1>2 DEF Passed
  <2>1. Ticking' <=> keys # {}
    BY <1>8 DEF Ticking
  <2>2. k <= now /\ k \notin keys /\ k \in Nat
    <3>1. CASE keys = {}
      BY <1>4, <2>1, <3>1
    <3>2. CASE keys # {}
      <4>1. walk' \in Nat /\ walk' <= now /\ k < walk' /\ k \in Nat
        BY <1>4, <1>7, <2>1, <3>2
      <4> QED
        BY <1>4, <1>5, <3>2, <4>1
    <3> QED
      BY <3>1, <3>2
  <2>3. yield_thread_map[k] # <<>>
    BY DEF Range
  <2>4. k < walk
    BY <1>2, <1>4, <1>6, <2>2, <2>3
  <2> QED
    BY <1>1, <1>2, <2>4 DEF Passed
<1> QED
  BY <1>9, <1>10, <1>11, <1>12, <1>13 DEF Inv

LEMMA TickResumesInv ==
  ASSUME Inv, TickResumes
  PROVE  Inv'
<1>1. /\ TypeOK /\ Stacked /\ Held /\ Asleep /\ AtHead /\ SleepsOnce /\ Passed
  BY DEF Inv
<1>2. /\ Ticking /\ stack = <<>> /\ yield_thread_map[walk] # <<>>
      /\ status[Current] = "suspended"
      /\ status' = [status EXCEPT ![Current] = "running"] /\ stack' = <<Current>>
      /\ now' = now /\ refs' = refs /\ thread_ref_map' = thread_ref_map
      /\ yield_thread_map' = yield_thread_map /\ walk' = walk /\ due' = due
  BY DEF TickResumes, Loops
<1>3. PICK t : t = Current
  OBVIOUS
<1>4. t \in Thread /\ walk \in Time
  <2>1. walk \in Time /\ yield_thread_map[walk] \in Seq(Thread)
    BY <1>1, <1>2 DEF TypeOK, Ticking
  <2> QED
    BY <1>2, <1>3, <2>1, HeadTailProperties DEF Current
<1>5. /\ stack' = <<t>> /\ stack' \in Seq(Thread) /\ stack' # <<>> /\ Head(stack') = t
      /\ Range(stack') = {t} /\ IsInjective(stack')
  BY <1>2, <1>3, <1>4 DEF Range, IsInjective
<1>6. /\ status[t] = "suspended" /\ status'[t] = "running"
      /\ \A u \in Thread \ {t} : status'[u] = status[u]
      /\ status' \in [Thread -> Status]
  BY <1>1, <1>2, <1>3, <1>4 DEF TypeOK, Status
<1>7. \A u \in Thread : status[u] # "running"
  BY <1>1, <1>2 DEF Stacked, Range
<1>8. Ticking' /\ Current' = t
  BY <1>2, <1>3 DEF Ticking, Current
<1>9. TypeOK'
  BY <1>1, <1>2, <1>5, <1>6 DEF TypeOK
<1>10. Stacked'
  BY <1>4, <1>5, <1>6, <1>7 DEF Stacked
<1>11. Held'
  BY <1>1, <1>2, <1>6 DEF Held
<1>12. Asleep'
  <2> SUFFICES ASSUME NEW k \in Time, NEW u \in Range(yield_thread_map[k])
               PROVE  /\ due[u] % Wrap = k
                      /\ status'[u] \in {"suspended", "dead"} \/ Resumed(u)'
    BY <1>2 DEF Asleep
  <2>1. yield_thread_map[k] \in Seq(Thread)
    BY <1>1 DEF TypeOK
  <2>2. u \in Thread
    BY <2>1, RangeOfSeq
  <2>3. due[u] % Wrap = k /\ status[u] \in {"suspended", "dead"}
    BY <1>1, <1>2 DEF Asleep, Resumed
  <2>4. u = t => Resumed(u)'
    BY <1>5, <1>8 DEF Resumed
  <2> QED
    BY <1>6, <2>2, <2>3, <2>4
<1>13. AtHead'
  <2>1. t \in thread_ref_map
    BY <1>1, <1>4, <1>6 DEF Held
  <2> QED
    BY <1>1, <1>2, <1>5, <1>8, <2>1 DEF AtHead
<1>14. SleepsOnce' /\ Passed'
  BY <1>1, <1>2, <1>8 DEF SleepsOnce, Passed
<1> QED
  BY <1>9, <1>10, <1>11, <1>12, <1>13, <1>14 DEF Inv

LEMMA TickRefusedInv ==
  ASSUME Inv, TickRefused
  PROVE  Inv'
<1>1. /\ TypeOK /\ Stacked /\ Held /\ Asleep /\ AtHead /\ SleepsOnce /\ Passed
  BY DEF Inv
<1>2. /\ Ticking /\ stack = <<>> /\ yield_thread_map[walk] # <<>>
      /\ yield_thread_map' = [yield_thread_map EXCEPT ![walk] = Tail(@)]
      /\ now' = now /\ status' = status /\ refs' = refs /\ thread_ref_map' = thread_ref_map
      /\ walk' = walk /\ due' = due /\ stack' = stack
  BY DEF TickRefused, Loops
<1>3. /\ walk \in Time /\ yield_thread_map \in [Time -> Seq(Thread)]
      /\ yield_thread_map[walk] \in Seq(Thread)
  BY <1>1, <1>2 DEF TypeOK, Ticking
<1>4. /\ Tail(yield_thread_map[walk]) \in Seq(Thread)
      /\ IsInjective(Tail(yield_thread_map[walk]))
      /\ Range(Tail(yield_thread_map[walk])) \subseteq Range(yield_thread_map[walk])
  BY <1>1, <1>2, <1>3, TailOnce DEF SleepsOnce
<1>5. /\ yield_thread_map' \in [Time -> Seq(Thread)]
      /\ \A k \in Time : /\ IsInjective(yield_thread_map'[k])
                         /\ Range(yield_thread_map'[k]) \subseteq Range(yield_thread_map[k])
  BY <1>1, <1>2, <1>3, <1>4 DEF SleepsOnce
<1>6. Ticking'
  BY <1>2 DEF Ticking
<1>7. TypeOK' /\ Stacked' /\ Held'
  BY <1>1, <1>2, <1>5 DEF TypeOK, Stacked, Held
<1>8. Asleep' /\ Passed'
  BY <1>1, <1>2, <1>5, <1>6 DEF Asleep, Resumed, Passed
<1>9. AtHead'
  BY <1>1, <1>2 DEF AtHead
<1>10. SleepsOnce'
  BY <1>1, <1>5 DEF SleepsOnce
<1> QED
  BY <1>7, <1>8, <1>9, <1>10 DEF Inv

LEMMA NewGameInv ==
  ASSUME Inv, NewGame
  PROVE  Inv'
<1>1. /\ stack = <<>> /\ ~Ticking /\ walk' = walk /\ stack' = <<>> /\ now' = 0
      /\ status' = [t \in Thread |-> "free"] /\ refs' = {} /\ thread_ref_map' = {}
      /\ yield_thread_map' = [k \in Time |-> <<>>] /\ due' = [t \in Thread |-> 0]
  BY DEF NewGame, Idle, NoSleepers
<1>2. /\ \A k \in Time : yield_thread_map'[k] = <<>>
      /\ \A t \in Thread : status'[t] = "free"
      /\ ~Ticking'
  BY <1>1 DEF Ticking
<1>3. TypeOK'
  BY <1>1, ScriptAssumption DEF Inv, TypeOK, Status
<1>4. Range(<<>>) = {} /\ IsInjective(<<>>)
  BY DEF Range, IsInjective
<1>5. Stacked' /\ Held'
  BY <1>1, <1>2, <1>4 DEF Stacked, Held
<1>6. Asleep' /\ AtHead' /\ SleepsOnce' /\ Passed'
  BY <1>2, <1>4 DEF Asleep, AtHead, SleepsOnce, Passed
<1> QED
  BY <1>3, <1>5, <1>6 DEF Inv

LEMMA StutterInv ==
  ASSUME Inv, UNCHANGED vars
  PROVE  Inv'
<1>1. /\ now' = now /\ status' = status /\ refs' = refs /\ thread_ref_map' = thread_ref_map
      /\ yield_thread_map' = yield_thread_map /\ walk' = walk /\ due' = due /\ stack' = stack
  BY DEF vars
<1> QED
  BY <1>1 DEF Inv, TypeOK, Stacked, Held, Asleep, Resumed, AtHead, Current, SleepsOnce, Passed, Ticking

LEMMA NextInv == Inv /\ [Next]_vars => Inv'
<1> SUFFICES ASSUME Inv, [Next]_vars PROVE Inv'
  OBVIOUS
<1>1. ASSUME NEW t \in Thread, ThreadExec(t) PROVE Inv'
  BY <1>1, ThreadExecInv
<1>2. ASSUME NEW t \in Thread, Stop(t) PROVE Inv'
  BY <1>2, StopInv
<1>3. CASE Tick
  BY <1>3, TickInv
<1>4. CASE TickResumes
  BY <1>4, TickResumesInv
<1>5. CASE TickRefused
  BY <1>5, TickRefusedInv
<1>6. CASE TickSteps
  BY <1>6, TickStepsInv
<1>7. CASE NewGame
  BY <1>7, NewGameInv
<1>8. CASE UNCHANGED vars
  BY <1>8, StutterInv
<1> QED
  BY <1>1, <1>2, <1>3, <1>4, <1>5, <1>6, <1>7, <1>8 DEF Next, TickLoop

LEMMA SpecInv == Spec => []Inv
<1> QED
  BY InitInv, NextInv, PTL DEF Spec

-----------------------------------------------------------------------------
(* The theorems.                                                           *)

(* Every variable has its type: Tick's iterator is a key of the map or its  *)
(* end, no key is out of the clock's range (ScriptProcess.h 21-25).        *)
THEOREM ScriptTypes == Spec => []TypeOK
<1>1. Inv => TypeOK
  BY DEF Inv
<1> QED
  BY <1>1, SpecInv, PTL

(* A thread that is to be resumed is held by a reference of the registry,  *)
(* and Tick finds the reference of the thread it has resumed (139-143).    *)
THEOREM ThreadsReferenced == Spec => []Referenced
<1>1. ASSUME Inv, NEW k \in Time, NEW t \in Range(yield_thread_map[k])
      PROVE  t \in refs
  <2>1. yield_thread_map[k] \in Seq(Thread)
    BY <1>1 DEF Inv, TypeOK
  <2>2. t \in Thread
    BY <2>1, RangeOfSeq
  <2>3. Resumed(t) => status[t] = "running"
    <3> SUFFICES ASSUME Resumed(t) PROVE status[t] = "running"
      OBVIOUS
    <3>1. stack # <<>> /\ t = Head(stack) /\ stack \in Seq(Thread) /\ IsInjective(stack)
      BY <1>1 DEF Inv, TypeOK, Stacked, Resumed
    <3>2. t \in Range(stack)
      BY <3>1, TailOnce
    <3> QED
      BY <1>1, <2>2, <3>2 DEF Inv, Stacked
  <2>4. status[t] # "free"
    BY <1>1, <2>3 DEF Inv, Asleep
  <2> QED
    BY <1>1, <2>2, <2>4 DEF Inv, Held
<1>2. Inv => (Ticking /\ stack # <<>> => Head(stack) \in thread_ref_map)
  BY DEF Inv, AtHead
<1>3. Inv => Referenced
  BY <1>1, <1>2 DEF Referenced
<1> QED
  BY <1>3, SpecInv, PTL

(* A thread is in the map once at most, for Tick erases the record it has  *)
(* resumed whatever the thread has done (137, 149).                        *)
THEOREM SleepersOnce == Spec => []SleepsOnce
<1>1. Inv => SleepsOnce
  BY DEF Inv
<1> QED
  BY <1>1, SpecInv, PTL

(* The thread that Tick resumes is due.                                    *)
LEMMA Woken == Inv => NotEarly
<1> SUFFICES ASSUME Inv, Ticking, stack # <<>>, ~(due[Head(stack)] >= Wrap)
             PROVE  due[Head(stack)] <= now
  BY DEF NotEarly
<1>1. walk \in Time /\ yield_thread_map[walk] \in Seq(Thread) /\ IsInjective(yield_thread_map[walk])
  BY DEF Inv, TypeOK, Ticking, SleepsOnce
<1>2. PICK t : t = Head(stack)
  OBVIOUS
<1>3. yield_thread_map[walk] # <<>> /\ Head(yield_thread_map[walk]) = t /\ walk <= now
  BY <1>2 DEF Inv, AtHead, Current
<1>4. t \in Range(yield_thread_map[walk]) /\ t \in Thread
  BY <1>1, <1>3, TailOnce
<1>5. due[t] % Wrap = walk /\ due[t] \in Nat
  BY <1>1, <1>4 DEF Inv, Asleep, TypeOK
<1>6. due[t] < Wrap
  BY <1>2, <1>5, Clock
<1>7. due[t] = walk
  BY <1>5, <1>6, Clock
<1> QED
  BY <1>2, <1>3, <1>7

(* A walk of the map that ends has left behind no thread that was due.     *)
LEMMA WalkEnds ==
  Inv /\ Inv' /\ [Next]_vars =>
    [~Ticking' /\ (Ticking \/ now' # now) =>
       \A k \in Time : \A t \in Range(yield_thread_map'[k]) :
         due'[t] >= Wrap \/ (k = due'[t] /\ k > now')]_vars
<1> SUFFICES ASSUME Inv, Inv', Next, ~Ticking', Ticking \/ now' # now,
                    NEW k \in Time, NEW t \in Range(yield_thread_map'[k]), due'[t] < Wrap
             PROVE  k = due'[t] /\ k > now'
  <2>1. ASSUME NEW k \in Time, NEW t \in Range(yield_thread_map'[k]), Inv'
        PROVE  due'[t] \in Nat /\ Wrap \in Nat
    <3>1. yield_thread_map'[k] \in Seq(Thread)
      BY <2>1 DEF Inv, TypeOK
    <3>2. t \in Thread
      BY <3>1, RangeOfSeq
    <3> QED
      BY <2>1, <3>2, Clock DEF Inv, TypeOK
  <2> QED
    BY <2>1
<1>1. yield_thread_map'[k] \in Seq(Thread)
  BY DEF Inv, TypeOK
<1>2. t \in Thread
  BY <1>1, RangeOfSeq
<1>3. due'[t] \in Nat /\ now' \in Nat /\ k \in Nat /\ Wrap \in Nat
  BY <1>2, Clock DEF Inv, TypeOK
<1>4. k = due'[t]
  <2>1. due'[t] % Wrap = k
    BY DEF Inv, Asleep
  <2> QED
    BY <1>3, <2>1, Clock
<1>5. ~(k < now')
  <2>1. \A j \in Time : j < (IF Ticking' THEN walk' ELSE now') =>
          \A u \in Range(yield_thread_map'[j]) : due'[u] >= Wrap
    BY DEF Inv, Passed
  <2> QED
    BY <1>3, <2>1
<1>6. Tick \/ TickSteps \/ NewGame
  <2>1. ASSUME NEW u \in Thread, ThreadExec(u) \/ Stop(u) PROVE now' = now /\ walk' = walk
    BY <2>1 DEF ThreadExec, Stop, Wait, WaitFails, Yield, Finish, Fail, Returns
  <2>2. TickResumes \/ TickRefused => now' = now /\ walk' = walk
    BY DEF TickResumes, TickRefused
  <2>3. ~(now' = now /\ walk' = walk)
    BY DEF Ticking
  <2> QED
    BY <2>1, <2>2, <2>3 DEF Next, TickLoop
<1>7. yield_thread_map'[k] # <<>>
  BY DEF Range
<1>8. k # now'
  <2>1. CASE NewGame
    BY <1>7, <2>1 DEF NewGame, NoSleepers
  <2>2. CASE Tick
    <3>1. PICK d \in Elapse : now' = now + d /\ walk' = First(Due(now + d))
      BY <2>2 DEF Tick
    <3>2. PICK keys \in SUBSET Time : keys = Due(now + d)
      BY DEF Due
    <3>3. walk' = NoTick /\ NoTick \notin Time
      BY Clock DEF Ticking, NoTick
    <3>4. keys = {}
      <4>1. First(keys) \notin keys
        BY <3>1, <3>2, <3>3
      <4> QED
        BY <4>1, FirstIs
    <3>5. yield_thread_map' = yield_thread_map
      BY <2>2 DEF Tick
    <3> QED
      BY <1>3, <1>7, <3>1, <3>2, <3>4, <3>5 DEF Due
  <2>3. CASE TickSteps
    <3>1. PICK keys \in SUBSET Time : keys = {j \in Due(now) : j > walk}
      BY DEF Due
    <3>2. /\ walk' = First(keys) /\ now' = now /\ yield_thread_map' = yield_thread_map
          /\ Ticking /\ yield_thread_map[walk] = <<>>
      BY <2>3, <3>1 DEF TickSteps
    <3>3. walk' = NoTick /\ NoTick \notin Time
      BY Clock DEF Ticking, NoTick
    <3>4. keys = {}
      <4>1. First(keys) \notin keys
        BY <3>1, <3>2, <3>3
      <4> QED
        BY <4>1, FirstIs
    <3>5. walk \in Nat /\ walk <= now
      BY <3>2, Clock DEF Inv, TypeOK, AtHead, Ticking
    <3> QED
      BY <1>3, <1>7, <3>1, <3>2, <3>4, <3>5 DEF Due
  <2> QED
    BY <1>6, <2>1, <2>2, <2>3
<1> QED
  BY <1>3, <1>4, <1>5, <1>8

(* Each thread wakes on time: Tick resumes none before it is due, and has  *)
(* resumed all that were when it returns (118-119, 130-156).               *)
THEOREM WakesOnTime == Spec => OnTime
<1>1. Spec => []NotEarly
  BY Woken, SpecInv, PTL
<1>2. Spec => Punctual
  BY WalkEnds, SpecInv, PTL DEF Spec, Punctual
<1> QED
  BY <1>1, <1>2, PTL DEF OnTime

=============================================================================
