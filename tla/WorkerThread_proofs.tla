------------------------ MODULE WorkerThread_proofs ------------------------
(***************************************************************************)
(* What every module built on WorkerThread can rely on: how the operations *)
(* on agendas and handler lists are typed, and that ThreadProc and Run     *)
(* keep ThreadBacked.                                                      *)
(***************************************************************************)
EXTENDS WorkerThread, SequenceTheorems, WellFoundedInduction, TLAPS

-----------------------------------------------------------------------------
(* Agendas written out.                                                    *)

(* What a call leaves on an agenda.                                        *)
LEMMA Concats ==
  ASSUME NEW S
  PROVE  /\ \A s \in Seq(S) : <<>> \o s = s /\ s \o <<>> = s
         /\ \A a, b \in S : <<a>> \o <<b>> = <<a, b>>
         /\ \A a, b, c \in S : <<a>> \o <<b, c>> = <<a, b, c>>
<1>1. \A s \in Seq(S) : <<>> \o s = s /\ s \o <<>> = s
  BY ConcatEmptySeq
<1>2. ASSUME NEW a \in S, NEW b \in S PROVE <<a>> \o <<b>> = <<a, b>>
  <2>1. /\ <<a>> \in Seq(S) /\ <<b>> \in Seq(S) /\ <<a, b>> \in Seq(S)
        /\ Len(<<a>>) = 1 /\ Len(<<b>>) = 1 /\ Len(<<a, b>>) = 2
    OBVIOUS
  <2>2. \A i \in 1..2 : (<<a>> \o <<b>>)[i] = <<a, b>>[i]
    BY <2>1
  <2>3. Len(<<a>> \o <<b>>) = 2 /\ <<a>> \o <<b>> \in Seq(S)
    BY <2>1, ConcatProperties
  <2> QED
    BY <2>1, <2>2, <2>3, SeqEqual
<1>3. ASSUME NEW a \in S, NEW b \in S, NEW c \in S PROVE <<a>> \o <<b, c>> = <<a, b, c>>
  <2>1. /\ <<a>> \in Seq(S) /\ <<b, c>> \in Seq(S) /\ <<a, b, c>> \in Seq(S)
        /\ Len(<<a>>) = 1 /\ Len(<<b, c>>) = 2 /\ Len(<<a, b, c>>) = 3
    OBVIOUS
  <2>2. \A i \in 1..3 : (<<a>> \o <<b, c>>)[i] = <<a, b, c>>[i]
    BY <2>1
  <2>3. Len(<<a>> \o <<b, c>>) = 3 /\ <<a>> \o <<b, c>> \in Seq(S)
    BY <2>1, ConcatProperties
  <2> QED
    BY <2>1, <2>2, <2>3, SeqEqual
<1> QED
  BY <1>1, <1>2, <1>3

(* The head of an agenda is executed first.                                *)
LEMMA Tuples ==
  /\ \A a : <<a>> # <<>> /\ Head(<<a>>) = a /\ Tail(<<a>>) = <<>>
  /\ \A a, b : <<a, b>> # <<>> /\ Head(<<a, b>>) = a /\ Tail(<<a, b>>) = <<b>>
  /\ \A a, b, c : <<a, b, c>> # <<>> /\ Head(<<a, b, c>>) = a /\ Tail(<<a, b, c>>) = <<b, c>>
OBVIOUS

(* The agenda after a call of one operation.                               *)
LEMMA Conses ==
  ASSUME NEW S, NEW s \in Seq(S), NEW x
  PROVE  <<x>> \o s # <<>> /\ Head(<<x>> \o s) = x /\ Tail(<<x>> \o s) = s
<1> DEFINE R == S \cup {x}
           v == <<x>> \o s
           u == Tail(v)
<1>1. s \in Seq(R) /\ <<x>> \in Seq(R) /\ Len(<<x>>) = 1 /\ <<x>>[1] = x /\ Len(s) \in Nat
  BY LenProperties, SeqMonotonic
<1>2. /\ v \in Seq(R) /\ Len(v) = 1 + Len(s)
      /\ \A i \in 1..(1 + Len(s)) : v[i] = IF i =< 1 THEN <<x>>[i] ELSE s[i - 1]
  <2>1. /\ v \in Seq(R) /\ Len(v) = Len(<<x>>) + Len(s)
        /\ \A i \in 1..(Len(<<x>>) + Len(s)) :
             v[i] = IF i =< Len(<<x>>) THEN <<x>>[i] ELSE s[i - Len(<<x>>)]
    BY <1>1, ConcatProperties
  <2> HIDE DEF v
  <2> QED
    BY <1>1, <2>1
<1> HIDE DEF v
<1>3. v # <<>>
  BY <1>1, <1>2
<1>4. Head(v) = x
  <2>1. Head(v) = v[1]
    BY <1>2, <1>3, HeadTailProperties
  <2> QED
    BY <1>1, <1>2, <2>1
<1>5. /\ u \in Seq(R) /\ Len(u) = Len(v) - 1
      /\ \A i \in 1..Len(u) : u[i] = v[i + 1]
  BY <1>2, <1>3, HeadTailProperties
<1> HIDE DEF u
<1>6. Len(u) = Len(s) /\ \A i \in 1..Len(u) : u[i] = s[i]
  <2>1. Len(u) = Len(s)
    BY <1>1, <1>2, <1>5
  <2>2. ASSUME NEW i \in 1..Len(u) PROVE u[i] = s[i]
    <3>1. i + 1 \in 1..(1 + Len(s)) /\ ~(i + 1 =< 1) /\ (i + 1) - 1 = i
      BY <1>1, <2>1
    <3>2. v[i + 1] = s[(i + 1) - 1]
      BY <1>2, <3>1
    <3> QED
      BY <1>5, <3>1, <3>2
  <2> QED
    BY <2>1, <2>2
<1>7. u = s
  BY <1>1, <1>5, <1>6, SeqEqual
<1> QED
  BY <1>3, <1>4, <1>7 DEF u, v

-----------------------------------------------------------------------------
(* Agendas and handler lists.                                              *)

(* Calling operations of S from an agenda of S leaves agendas of S.        *)
LEMMA CallType ==
  ASSUME NEW S, NEW t \in Thread, todo \in [Thread -> Seq(S)], todo[t] # <<>>,
         NEW ops \in Seq(S), Call(t, ops)
  PROVE  todo' \in [Thread -> Seq(S)]
<1>1. Tail(todo[t]) \in Seq(S)
  BY HeadTailProperties
<1>2. ops \o Tail(todo[t]) \in Seq(S)
  BY <1>1, ConcatProperties
<1> QED
  BY <1>2 DEF Call

(* Delegate::Add keeps a list of handlers.                                 *)
LEMMA AddHandlerType ==
  ASSUME NEW H, NEW d \in Delegate, NEW h \in H,
         list \in [Delegate -> Seq(H)], AddHandler(d, h)
  PROVE  list' \in [Delegate -> Seq(H)]
<1>1. Append(list[d], h) \in Seq(H)
  BY AppendProperties
<1> QED
  BY <1>1 DEF AddHandler

(* A set of natural numbers that is not empty has a least element.         *)
LEMMA MinType ==
  ASSUME NEW I, I # {}, I \subseteq Nat
  PROVE  Min(I) \in I
<1> DEFINE Less == OpToRel(<, Nat)
<1>1. \A y, x \in Nat : y < x => <<y, x>> \in Less
  <2>1. Less = {ss \in Nat \X Nat : ss[1] < ss[2]}
    BY DEF OpToRel
  <2> HIDE DEF Less
  <2> QED
    BY <2>1
<1>2. IsWellFoundedOn(Less, Nat)
  BY NatLessThanWellFounded
<1> HIDE DEF Less
<1>3. PICK x \in I : \A y \in I : ~ (<<y, x>> \in Less)
  BY <1>2, WFMin
<1>4. \A y \in I : x =< y
  <2> TAKE y \in I
  <2>1. x \in Nat /\ y \in Nat
    OBVIOUS
  <2>2. ~ (y < x)
    BY <1>1, <1>3, <2>1
  <2> QED
    BY <2>1, <2>2
<1> QED
  BY <1>4 DEF Min

(* RemoveFirst returns a sequence of the elements it was given.            *)
LEMMA RemoveFirstType ==
  ASSUME NEW S, NEW s \in Seq(S), NEW e
  PROVE  RemoveFirst(s, e) \in Seq(S)
<1>1. CASE ~ \E i \in 1..Len(s) : s[i] = e
  BY <1>1 DEF RemoveFirst
<1>2. CASE \E i \in 1..Len(s) : s[i] = e
  <2> DEFINE I == {i \in 1..Len(s) : s[i] = e}
             m == SelectInSeq(s, LAMBDA v : v = e)
  <2>1. I # {} /\ I \subseteq 1..Len(s)
    BY <1>2
  <2>2. m = Min(I)
    BY <2>1 DEF SelectInSeq
  <2> HIDE DEF I, m
  <2>3. m \in 1..Len(s)
    <3>1. I \subseteq Nat
      BY <2>1
    <3> QED
      BY <2>1, <2>2, <3>1, MinType
  <2>4. SubSeq(s, 1, m - 1) \in Seq(S) /\ SubSeq(s, m + 1, Len(s)) \in Seq(S)
    BY <2>3, SubSeqProperties, ElementOfSeq, LenProperties
  <2>5. RemoveAt(s, m) \in Seq(S)
    BY <2>4, ConcatProperties DEF RemoveAt
  <2> QED
    BY <1>2, <2>5 DEF RemoveFirst, m
<1> QED
  BY <1>1, <1>2

(* Delegate::Remove keeps a list of handlers.                              *)
LEMMA RemoveHandlerType ==
  ASSUME NEW H, NEW d \in Delegate, NEW h,
         list \in [Delegate -> Seq(H)], RemoveHandler(d, h)
  PROVE  list' \in [Delegate -> Seq(H)]
<1>1. RemoveFirst(list[d], h) \in Seq(H)
  BY RemoveFirstType
<1> QED
  BY <1>1 DEF RemoveHandler

-----------------------------------------------------------------------------
(* Handler lists written out.                                              *)

(* The handlers of a list run in the order in which they were added.       *)
LEMMA AppendTuples ==
  /\ \A a : Append(<<>>, a) = <<a>>
  /\ \A a, b : Append(<<a>>, b) = <<a, b>>
<1>1. ASSUME NEW a PROVE Append(<<>>, a) = <<a>>
  OBVIOUS
<1>2. ASSUME NEW a, NEW b PROVE Append(<<a>>, b) = <<a, b>>
  <2> DEFINE u == <<a>>
             v == <<a, b>>
             w == Append(u, b)
  <2>1. u \in Seq({a, b}) /\ Len(u) = 1 /\ u[1] = a
    OBVIOUS
  <2>2. v \in Seq({a, b}) /\ Len(v) = 2 /\ v[1] = a /\ v[2] = b
    OBVIOUS
  <2> HIDE DEF u, v
  <2>3. w \in Seq({a, b}) /\ Len(w) = 2 /\ w[1] = a /\ w[2] = b
    <3>1. b \in {a, b}
      OBVIOUS
    <3> DEFINE T == {a, b}
    <3>2. u \in Seq(T) /\ b \in T
      BY <2>1, <3>1
    <3> HIDE DEF T
    <3>3. /\ w \in Seq(T) /\ Len(w) = Len(u) + 1 /\ w[Len(u) + 1] = b
          /\ \A i \in 1..Len(u) : w[i] = u[i]
      BY <3>2, AppendProperties
    <3> HIDE DEF w
    <3>4. w \in Seq({a, b})
      BY <3>3 DEF T
    <3> QED
      BY <2>1, <3>3, <3>4
  <2> HIDE DEF w
  <2>4. \A i \in 1..2 : w[i] = v[i]
    BY <2>2, <2>3
  <2>5. w = v
    BY <2>2, <2>3, <2>4, SeqEqual
  <2> QED
    BY <2>5 DEF u, v, w
<1> QED
  BY <1>1, <1>2

(* What is not in a list is not removed from it.                           *)
LEMMA RemoveAbsent ==
  ASSUME NEW S, NEW s \in Seq(S), NEW e, e \notin S
  PROVE  RemoveFirst(s, e) = s
<1>1. \A i \in 1..Len(s) : s[i] \in S
  BY ElementOfSeq
<1> QED
  BY <1>1 DEF RemoveFirst

(* The first occurrence is at i.                                           *)
LEMMA RemoveHere ==
  ASSUME NEW S, NEW s \in Seq(S), NEW e, NEW i \in 1..Len(s), s[i] = e,
         \A j \in 1..(i - 1) : s[j] # e
  PROVE  RemoveFirst(s, e) = SubSeq(s, 1, i - 1) \o SubSeq(s, i + 1, Len(s))
<1> DEFINE I == {j \in 1..Len(s) : s[j] = e}
           m == SelectInSeq(s, LAMBDA v : v = e)
<1>1. i \in I /\ I \subseteq Nat /\ I \subseteq 1..Len(s)
  BY LenProperties
<1>2. m = Min(I)
  BY <1>1 DEF SelectInSeq
<1>3. \A j \in I : i =< j
  BY LenProperties
<1> HIDE DEF I, m
<1>4. Min(I) \in I
  BY <1>1, MinType
<1>5. \A j \in I : Min(I) =< j
  <2>1. \E x \in I : \A y \in I : x =< y
    BY <1>1, <1>3
  <2> QED
    BY <2>1 DEF Min
<1>6. Min(I) = i
  <2> DEFINE k == Min(I)
  <2>1. k \in Nat /\ i \in Nat /\ i =< k /\ k =< i
    BY <1>1, <1>3, <1>4, <1>5
  <2> HIDE DEF k
  <2>2. k = i
    BY <2>1
  <2> QED
    BY <2>2 DEF k
<1>7. RemoveFirst(s, e) = RemoveAt(s, m)
  BY <1>1 DEF RemoveFirst, m
<1> QED
  BY <1>2, <1>6, <1>7 DEF RemoveAt

(* Delegate::Remove of the first handler.                                  *)
LEMMA RemoveTuples ==
  /\ \A a : RemoveFirst(<<a>>, a) = <<>>
  /\ \A a, b : RemoveFirst(<<a, b>>, a) = <<b>>
  /\ \A a : RemoveFirst(<<>>, a) = <<>>
<1>1. ASSUME NEW a PROVE RemoveFirst(<<a>>, a) = <<>>
  <2>1. <<a>> \in Seq({a}) /\ Len(<<a>>) = 1 /\ 1 \in 1..Len(<<a>>) /\ <<a>>[1] = a
        /\ \A j \in 1..(1 - 1) : <<a>>[j] # a
    OBVIOUS
  <2>2. RemoveFirst(<<a>>, a) = SubSeq(<<a>>, 1, 1 - 1) \o SubSeq(<<a>>, 1 + 1, 1)
    BY <2>1, RemoveHere
  <2>3. SubSeq(<<a>>, 1, 0) = <<>> /\ SubSeq(<<a>>, 2, 1) = <<>>
    BY <2>1, SubSeqProperties
  <2>4. <<>> \o <<>> = <<>>
    OBVIOUS
  <2> QED
    BY <2>2, <2>3, <2>4
<1>2. ASSUME NEW a, NEW b PROVE RemoveFirst(<<a, b>>, a) = <<b>>
  <2> DEFINE s == <<a, b>>
  <2>1. s \in Seq({a, b}) /\ Len(s) = 2 /\ 1 \in 1..Len(s) /\ s[1] = a /\ s[2] = b
        /\ \A j \in 1..(1 - 1) : s[j] # a
    OBVIOUS
  <2> HIDE DEF s
  <2>2. RemoveFirst(s, a) = SubSeq(s, 1, 1 - 1) \o SubSeq(s, 1 + 1, 2)
    BY <2>1, RemoveHere
  <2>3. SubSeq(s, 1, 0) = <<>>
    BY <2>1, SubSeqProperties
  <2>4. SubSeq(s, 2, 2) = <<b>>
    <3> DEFINE u == SubSeq(s, 2, 2)
               v == <<b>>
    <3>1. u \in Seq({a, b}) /\ Len(u) = 1 /\ u[1] = b
      BY <2>1, SubSeqProperties
    <3>2. v \in Seq({a, b}) /\ Len(v) = 1 /\ v[1] = b
      OBVIOUS
    <3> HIDE DEF u, v
    <3>3. \A i \in 1..1 : u[i] = v[i]
      BY <3>1, <3>2
    <3>4. u = v
      BY <3>1, <3>2, <3>3, SeqEqual
    <3> QED
      BY <3>4 DEF u, v
  <2>5. <<>> \o <<b>> = <<b>>
    BY Concats
  <2> QED
    BY <2>2, <2>3, <2>4, <2>5 DEF s
<1>3. ASSUME NEW a PROVE RemoveFirst(<<>>, a) = <<>>
  BY DEF RemoveFirst
<1> QED
  BY <1>1, <1>2, <1>3

-----------------------------------------------------------------------------
(* Run and ThreadProc.                                                     *)

(* What a step of Work may rely on and has to keep.                        *)
ThreadCore ==
  /\ handle  \in [Worker -> BOOLEAN]
  /\ running \in [Worker -> BOOLEAN]
  /\ job     \in [OSThread -> Worker]
  /\ at      \in [OSThread -> Stage]

Backed == ThreadCore /\ ThreadBacked

(* No thread exists, and no object says it has one.                        *)
LEMMA BackedInit ==
  ASSUME handle  = [w \in Worker |-> FALSE], running = [w \in Worker |-> FALSE],
         job = [p \in OSThread |-> NoJob], at = [p \in OSThread |-> "free"]
  PROVE  Backed
<1>1. NoJob \in Worker
  BY ThreadAssumption DEF NoJob
<1> QED
  BY <1>1 DEF Backed, ThreadCore, ThreadBacked, Stage

(* A step that leaves the threads and their objects alone.                 *)
LEMMA BackedFrame ==
  ASSUME Backed, UNCHANGED <<handle, running, job, at>>
  PROVE  Backed'
BY DEF Backed, ThreadCore, ThreadBacked

(* A step of Work stays within Work.                                       *)
LEMMA BackedWork ==
  ASSUME Backed, NEW p \in OSThread, NEW s \in InWork, at[p] \in InWork,
         at' = [at EXCEPT ![p] = s], UNCHANGED <<handle, running, job>>
  PROVE  Backed'
<1>1. ThreadCore'
  BY DEF Backed, ThreadCore, Stage
<1>2. \A q \in OSThread : at[q] \in InWork => at'[q] \in InWork
  BY DEF Backed, ThreadCore
<1>3. \A q \in OSThread : at[q] = "unhandled" => at'[q] = "unhandled"
  BY DEF Backed, ThreadCore, InWork
<1> QED
  BY <1>1, <1>2, <1>3 DEF Backed, ThreadBacked

(* The thread Run creates is the one behind the handle it records.         *)
LEMMA BackedRunCreate ==
  ASSUME Backed, NEW t, NEW create, NEW w \in Worker, RunCreate(t, create, w)
  PROVE  Backed'
<1>1. FreeThread \in OSThread /\ at[FreeThread] = "free"
  BY DEF RunCreate, FreeThread
<1>2. /\ at'  = [at EXCEPT ![FreeThread] = "work"]
      /\ job' = [job EXCEPT ![FreeThread] = w]
      /\ running' = [running EXCEPT ![w] = TRUE]
      /\ handle'  = [handle EXCEPT ![w] = TRUE]
  BY DEF RunCreate
<1> HIDE DEF FreeThread
<1>3. ThreadCore'
  BY <1>1, <1>2 DEF Backed, ThreadCore, Stage, InWork
<1>4. at'[FreeThread] \in InWork /\ job'[FreeThread] = w
  BY <1>1, <1>2 DEF Backed, ThreadCore, InWork
<1>5. \A q \in OSThread : at[q] \in InWork \cup {"unhandled"} =>
                              at'[q] = at[q] /\ job'[q] = job[q]
  BY <1>1, <1>2 DEF Backed, ThreadCore, InWork
<1>6. \A v \in Worker : v # w => handle'[v] = handle[v] /\ running'[v] = running[v]
  BY <1>2 DEF Backed, ThreadCore
<1> QED
  BY <1>1, <1>3, <1>4, <1>5, <1>6 DEF Backed, ThreadBacked

(* ThreadProc clears thread_ before it leaves the stages a handle stands   *)
(* for, and running_ before it leaves those a running_ stands for.         *)
LEMMA BackedThreadProc ==
  ASSUME Backed, NEW p \in OSThread, ThreadProc(p)
  PROVE  Backed'
<1>1. CASE DropHandle(p)
  <2>1. ThreadCore'
    BY <1>1 DEF Backed, ThreadCore, DropHandle, Stage
  <2>2. \A q \in OSThread : q # p => at'[q] = at[q] /\ job'[q] = job[q]
    BY <1>1 DEF Backed, ThreadCore, DropHandle
  <2>3. at'[p] = "unhandled" /\ job'[p] = job[p] /\ handle'[job[p]] = FALSE
    BY <1>1 DEF Backed, ThreadCore, DropHandle
  <2>4. \A w \in Worker : w # job[p] => handle'[w] = handle[w]
    BY <1>1 DEF Backed, ThreadCore, DropHandle
  <2>5. running' = running
    BY <1>1 DEF DropHandle
  <2> QED
    BY <2>1, <2>2, <2>3, <2>4, <2>5 DEF Backed, ThreadBacked
<1>2. CASE ClearRunning(p)
  <2>1. ThreadCore'
    BY <1>2 DEF Backed, ThreadCore, ClearRunning, Stage
  <2>2. \A q \in OSThread : q # p => at'[q] = at[q] /\ job'[q] = job[q]
    BY <1>2 DEF Backed, ThreadCore, ClearRunning
  <2>3. at[p] \notin InWork /\ running'[job[p]] = FALSE
    BY <1>2 DEF Backed, ThreadCore, ClearRunning, InWork
  <2>4. \A w \in Worker : w # job[p] => running'[w] = running[w]
    BY <1>2 DEF Backed, ThreadCore, ClearRunning
  <2>5. handle' = handle
    BY <1>2 DEF ClearRunning
  <2> QED
    BY <2>1, <2>2, <2>3, <2>4, <2>5 DEF Backed, ThreadBacked
<1>3. CASE InvokeComplete(p) \/ ExitThread(p)
  <2>1. ThreadCore'
    <3>1. NoJob \in Worker
      BY ThreadAssumption DEF NoJob
    <3> QED
      BY <1>3, <3>1 DEF Backed, ThreadCore, InvokeComplete, ExitThread, Stage
  <2>2. \A q \in OSThread : q # p => at'[q] = at[q] /\ job'[q] = job[q]
    BY <1>3 DEF Backed, ThreadCore, InvokeComplete, ExitThread
  <2>3. at[p] \notin InWork \cup {"unhandled"}
    BY <1>3 DEF InvokeComplete, ExitThread, InWork
  <2>4. UNCHANGED <<handle, running>>
    BY <1>3 DEF InvokeComplete, ExitThread
  <2> QED
    BY <2>1, <2>2, <2>3, <2>4 DEF Backed, ThreadBacked
<1> QED
  BY <1>1, <1>2, <1>3 DEF ThreadProc

=============================================================================
