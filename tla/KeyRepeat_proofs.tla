-------------------------- MODULE KeyRepeat_proofs --------------------------
(***************************************************************************)
(* The timers of the keys, for every set of keys and any number of timers. *)
(* What is proved of them is inductive once the timers of a game and those *)
(* left outside of games are told apart, and no key that a delay timer is  *)
(* for was released elsewhere.                                             *)
(***************************************************************************)
EXTENDS KeyRepeat, TLAPS

Record == [code : Code, periodic : BOOLEAN]

TimersTyped ==
  /\ tm \in [Timers -> Record \cup {Null}]
  /\ RepeatTimer \in [Code -> Timers \cup {Null}]
  /\ RepeatDelayTimer \in [Code -> Timers \cup {Null}]

OwnedNow ==
  /\ \A c \in Code : Pointed(c)
  /\ \A t \in Timers : tm[t] # Null =>
       t \in {RepeatTimer[tm[t].code], RepeatDelayTimer[tm[t].code]}

(* Timer_Cleanup has deleted every timer.                                  *)
NoneOutside == ~inGame => \A t \in Timers : tm[t] = Null

(* The press that started a delay timer was seen after any release that    *)
(* was not.                                                                *)
DelayFresh == inGame => \A c \in Code : RepeatDelayTimer[c] # Null => c \notin away

Inv ==
  /\ TypeOK /\ Owned /\ RepeatsHeld /\ DownIsHeld
  /\ NoneOutside /\ DelayFresh

LEMMA NullIs == Null \notin Timers /\ Null \notin Record
BY KeyAssumption DEF KeyAssumption, Record, Code

-----------------------------------------------------------------------------
(* The listeners.                                                          *)

(* What is left of the timers of c when the ones in s are destroyed.       *)
LEMMA Destroys ==
  ASSUME TimersTyped, NEW s
  PROVE  /\ Destroyed(s) \in [Timers -> Record \cup {Null}]
         /\ \A t \in Timers : Destroyed(s)[t] = IF t \in s THEN Null ELSE tm[t]
BY DEF Destroyed, TimersTyped

(* The timers of d are left alone.                                         *)
LEMMA PointedKept ==
  ASSUME TimersTyped, NEW d \in Code, Pointed(d),
         RepeatTimer'[d] = RepeatTimer[d], RepeatDelayTimer'[d] = RepeatDelayTimer[d],
         \A x \in Timers, p \in BOOLEAN :
           tm[x] = [code |-> d, periodic |-> p] => tm'[x] = tm[x]
  PROVE  Pointed(d)'
<1>1. \A x \in Timers : tm[x] = [code |-> d, periodic |-> TRUE] => tm'[x] = tm[x]
  OBVIOUS
<1>2. \A x \in Timers : tm[x] = [code |-> d, periodic |-> FALSE] => tm'[x] = tm[x]
  OBVIOUS
<1>3. RepeatTimer[d] \in Timers \cup {Null} /\ RepeatDelayTimer[d] \in Timers \cup {Null}
  BY DEF TimersTyped
<1> QED
  BY <1>1, <1>2, <1>3 DEF Pointed

LEMMA Restarts ==
  ASSUME TimersTyped, OwnedNow, NEW c \in Code, NEW t \in Free,
         ~Repeats(c), RestartDelay(c, t), UNCHANGED RepeatTimer
  PROVE  TimersTyped' /\ OwnedNow'
<1> DEFINE old == RepeatDelayTimer[c]
           new == [code |-> c, periodic |-> FALSE]
<1>1. t \in Timers /\ tm[t] = Null /\ new \in Record
  BY DEF Free, Record
<1>2. tm' = [Destroyed({old}) EXCEPT ![t] = new]
  BY DEF RestartDelay
<1>3. \A x \in Timers : tm'[x] = IF x = t THEN new ELSE IF x = old THEN Null ELSE tm[x]
  BY <1>1, <1>2, Destroys
<1>4. tm' \in [Timers -> Record \cup {Null}]
  BY <1>1, <1>2, Destroys
<1>5. RepeatDelayTimer' = [RepeatDelayTimer EXCEPT ![c] = t]
  BY DEF RestartDelay
<1>6. TimersTyped'
  BY <1>1, <1>4, <1>5 DEF TimersTyped
<1>7. ASSUME NEW d \in Code
      PROVE  Pointed(d)'
  <2>1. CASE d = c
    BY <1>1, <1>3, <1>5, <2>1 DEF Pointed, Repeats, TimersTyped
  <2>2. CASE d # c
    <3>1. Pointed(d) /\ Pointed(c)
      BY DEF OwnedNow
    <3>2. RepeatTimer'[d] = RepeatTimer[d] /\ RepeatDelayTimer'[d] = RepeatDelayTimer[d]
      BY <1>5, <2>2 DEF TimersTyped
    <3>3. ASSUME NEW x \in Timers, NEW p \in BOOLEAN, tm[x] = [code |-> d, periodic |-> p]
          PROVE  tm'[x] = tm[x]
      <4>1. x # t
        BY <1>1, <3>3, NullIs DEF Record
      <4>2. x # old
        BY <2>2, <3>1, <3>3, NullIs DEF Pointed
      <4> QED
        BY <1>3, <4>1, <4>2
    <3> QED
      BY <3>1, <3>2, <3>3, PointedKept
  <2> QED
    BY <2>1, <2>2
<1>8. ASSUME NEW x \in Timers, tm'[x] # Null
      PROVE  x \in {RepeatTimer[tm[x].code], RepeatDelayTimer[tm[x].code]}'
  <2>1. CASE x = t
    BY <1>1, <1>3, <1>5, <2>1 DEF TimersTyped
  <2>2. CASE x # t
    <3>1. x # old /\ tm'[x] = tm[x] /\ tm[x] # Null
      BY <1>3, <1>8, <2>2
    <3>2. x \in {RepeatTimer[tm[x].code], RepeatDelayTimer[tm[x].code]} /\ tm[x].code \in Code
      BY <3>1 DEF OwnedNow, TimersTyped, Record
    <3> QED
      BY <1>5, <3>1, <3>2 DEF TimersTyped
  <2> QED
    BY <2>1, <2>2
<1> QED
  BY <1>6, <1>7, <1>8 DEF OwnedNow

LEMMA Clears ==
  ASSUME TimersTyped, OwnedNow, NEW s \in SUBSET Code, Clear(s)
  PROVE  /\ TimersTyped' /\ OwnedNow'
         /\ \A d \in Code :
              /\ RepeatTimer'[d] = IF d \in s THEN Null ELSE RepeatTimer[d]
              /\ RepeatDelayTimer'[d] = IF d \in s THEN Null ELSE RepeatDelayTimer[d]
<1> DEFINE gone == {RepeatTimer[c] : c \in s} \cup {RepeatDelayTimer[c] : c \in s}
<1>1. /\ tm' = Destroyed(gone)
      /\ \A d \in Code :
           /\ RepeatTimer'[d] = IF d \in s THEN Null ELSE RepeatTimer[d]
           /\ RepeatDelayTimer'[d] = IF d \in s THEN Null ELSE RepeatDelayTimer[d]
  BY DEF Clear
<1>2. \A x \in Timers : tm'[x] = IF x \in gone THEN Null ELSE tm[x]
  BY <1>1, Destroys
<1>3. TimersTyped'
  BY <1>1, Destroys DEF Clear, TimersTyped
<1>4. ASSUME NEW d \in Code
      PROVE  Pointed(d)'
  <2>1. CASE d \in s
    BY <1>1, <2>1 DEF Pointed
  <2>2. CASE d \notin s
    <3>1. RepeatTimer'[d] = RepeatTimer[d] /\ RepeatDelayTimer'[d] = RepeatDelayTimer[d]
      BY <1>1, <2>2
    <3>2. ASSUME NEW x \in Timers, NEW p \in BOOLEAN, tm[x] = [code |-> d, periodic |-> p]
          PROVE  tm'[x] = tm[x]
      <4>1. ASSUME NEW c \in s
            PROVE  x # RepeatTimer[c] /\ x # RepeatDelayTimer[c]
        <5>1. Pointed(c) /\ c # d
          BY <2>2 DEF OwnedNow
        <5> QED
          BY <3>2, <5>1, NullIs DEF Pointed
      <4> QED
        BY <1>2, <4>1
    <3>3. Pointed(d)
      BY DEF OwnedNow
    <3> QED
      BY <3>1, <3>2, <3>3, PointedKept
  <2> QED
    BY <2>1, <2>2
<1>5. ASSUME NEW x \in Timers, tm'[x] # Null
      PROVE  x \in {RepeatTimer[tm[x].code], RepeatDelayTimer[tm[x].code]}'
  <2>1. x \notin gone /\ tm'[x] = tm[x] /\ tm[x] # Null
    BY <1>2, <1>5
  <2>2. x \in {RepeatTimer[tm[x].code], RepeatDelayTimer[tm[x].code]} /\ tm[x].code \in Code
    BY <2>1 DEF OwnedNow, TimersTyped, Record
  <2>3. tm[x].code \notin s
    BY <2>1, <2>2
  <2> QED
    BY <1>1, <2>1, <2>2, <2>3
<1> QED
  BY <1>1, <1>3, <1>4, <1>5 DEF OwnedNow

(* A key that begins to repeat is down, and had a delay timer.             *)
LEMMA Expires ==
  ASSUME TimersTyped, OwnedNow, NEW u \in Timers, tm[u] # Null, ~tm[u].periodic,
         onRepeatDelayExpired(tm[u].code)
  PROVE  /\ TimersTyped' /\ OwnedNow'
         /\ \A d \in Code :
              /\ RepeatDelayTimer'[d] # Null => RepeatDelayTimer[d] # Null
              /\ RepeatTimer'[d] # Null =>
                   \/ RepeatTimer[d] # Null
                   \/ d \in InputKeyState /\ RepeatDelayTimer[d] # Null
<1> DEFINE c == tm[u].code
<1>1. c \in Code /\ tm[u] \in Record /\ tm[u] = [code |-> c, periodic |-> FALSE]
  BY DEF TimersTyped, Record
<1>2. RepeatDelayTimer[c] = u /\ RepeatTimer[c] = Null
  <2>1. Pointed(c) /\ u \in {RepeatTimer[c], RepeatDelayTimer[c]}
    BY <1>1 DEF OwnedNow
  <2>2. RepeatTimer[c] # u
    BY <1>1, <2>1, NullIs DEF Pointed
  <2> QED
    BY <2>1, <2>2, NullIs DEF Pointed
<1>3. onRepeatDelayExpired(c)
  OBVIOUS
<1> HIDE DEF c
<1>4. RepeatDelayTimer' = [RepeatDelayTimer EXCEPT ![c] = Null]
  BY <1>3 DEF onRepeatDelayExpired
<1>5. \A d \in Code : RepeatDelayTimer'[d] = IF d = c THEN Null ELSE RepeatDelayTimer[d]
  BY <1>4 DEF TimersTyped
<1>6. ASSUME NEW d \in Code, d # c, NEW x \in Timers, NEW p \in BOOLEAN,
             tm[x] = [code |-> d, periodic |-> p]
      PROVE  x # u
  BY <1>1, <1>6
<1>7. CASE ~StillDown(c)
  <2>1. tm' = Destroyed({u} \cup {Null}) /\ RepeatTimer' = [RepeatTimer EXCEPT ![c] = Null]
    BY <1>2, <1>3, <1>7 DEF onRepeatDelayExpired
  <2>2. \A x \in Timers : tm'[x] = IF x = u THEN Null ELSE tm[x]
    BY <2>1, Destroys, NullIs
  <2>3. \A d \in Code : RepeatTimer'[d] = RepeatTimer[d]
    BY <1>2, <2>1 DEF TimersTyped
  <2>4. TimersTyped'
    BY <1>1, <1>4, <2>1, Destroys DEF TimersTyped
  <2>5. ASSUME NEW d \in Code
        PROVE  Pointed(d)'
    <3>1. Pointed(d)
      BY DEF OwnedNow
    <3>2. CASE d = c
      BY <1>2, <1>5, <2>3, <3>2 DEF Pointed
    <3>3. CASE d # c
      <4>1. ASSUME NEW x \in Timers, NEW p \in BOOLEAN, tm[x] = [code |-> d, periodic |-> p]
            PROVE  tm'[x] = tm[x]
        BY <1>6, <2>2, <3>3, <4>1
      <4> QED
        BY <1>5, <2>3, <3>1, <3>3, <4>1, PointedKept
    <3> QED
      BY <3>2, <3>3
  <2>6. ASSUME NEW x \in Timers, tm'[x] # Null
        PROVE  x \in {RepeatTimer[tm[x].code], RepeatDelayTimer[tm[x].code]}'
    <3>1. x # u /\ tm'[x] = tm[x] /\ tm[x] # Null
      BY <2>2, <2>6
    <3>2. x \in {RepeatTimer[tm[x].code], RepeatDelayTimer[tm[x].code]} /\ tm[x].code \in Code
      BY <3>1 DEF OwnedNow, TimersTyped, Record
    <3> QED
      BY <1>2, <1>5, <2>3, <3>1, <3>2
  <2> QED
    BY <1>5, <2>3, <2>4, <2>5, <2>6 DEF OwnedNow
<1>8. CASE StillDown(c)
  <2> DEFINE new == [code |-> c, periodic |-> TRUE]
  <2>1. PICK t \in Free :
          /\ tm' = [Destroyed({u}) EXCEPT ![t] = new]
          /\ RepeatTimer' = [RepeatTimer EXCEPT ![c] = t]
    BY <1>2, <1>3, <1>8 DEF onRepeatDelayExpired
  <2>2. t \in Timers /\ tm[t] = Null /\ t # u /\ new \in Record
    BY <1>1 DEF Free, Record
  <2>3. \A x \in Timers : tm'[x] = IF x = t THEN new ELSE IF x = u THEN Null ELSE tm[x]
    BY <2>1, <2>2, Destroys
  <2>4. \A d \in Code : RepeatTimer'[d] = IF d = c THEN t ELSE RepeatTimer[d]
    BY <1>1, <2>1 DEF TimersTyped
  <2>5. TimersTyped'
    BY <1>1, <1>4, <2>1, <2>2, Destroys DEF TimersTyped
  <2>6. ASSUME NEW d \in Code
        PROVE  Pointed(d)'
    <3>1. CASE d = c
      BY <1>5, <2>2, <2>3, <2>4, <3>1 DEF Pointed
    <3>2. CASE d # c
      <4>1. Pointed(d)
        BY DEF OwnedNow
      <4>2. ASSUME NEW x \in Timers, NEW p \in BOOLEAN, tm[x] = [code |-> d, periodic |-> p]
            PROVE  tm'[x] = tm[x]
        <5>1. x # t
          BY <2>2, <4>2, NullIs DEF Record
        <5> QED
          BY <1>6, <2>3, <3>2, <4>2, <5>1
      <4> QED
        BY <1>5, <2>4, <3>2, <4>1, <4>2, PointedKept
    <3> QED
      BY <3>1, <3>2
  <2>7. ASSUME NEW x \in Timers, tm'[x] # Null
        PROVE  x \in {RepeatTimer[tm[x].code], RepeatDelayTimer[tm[x].code]}'
    <3>1. CASE x = t
      BY <1>1, <2>2, <2>3, <2>4, <3>1
    <3>2. CASE x # t
      <4>1. x # u /\ tm'[x] = tm[x] /\ tm[x] # Null
        BY <2>3, <2>7, <3>2
      <4>2. x \in {RepeatTimer[tm[x].code], RepeatDelayTimer[tm[x].code]} /\ tm[x].code \in Code
        BY <4>1 DEF OwnedNow, TimersTyped, Record
      <4>3. tm[x].code # c
        BY <1>2, <4>1, <4>2, NullIs
      <4> QED
        BY <1>5, <2>4, <4>1, <4>2, <4>3
    <3> QED
      BY <3>1, <3>2
  <2>8. c \in InputKeyState
    BY <1>8 DEF StillDown
  <2> QED
    BY <1>2, <1>5, <2>2, <2>4, <2>5, <2>6, <2>7, <2>8, NullIs DEF OwnedNow
<1> QED
  BY <1>7, <1>8

(* A press starts no timer that repeats, and a delay timer for its code    *)
(* unless that repeats.                                                    *)
LEMMA Presses ==
  ASSUME TimersTyped, OwnedNow, NEW c \in Code, onKeyDown(c)
  PROVE  /\ TimersTyped' /\ OwnedNow' /\ RepeatTimer' = RepeatTimer
         /\ \A d \in Code : RepeatDelayTimer'[d] # Null =>
              RepeatDelayTimer[d] # Null \/ (d = c /\ ~Repeats(c))
<1>1. CASE Enable /\ ~Repeats(c)
  <2>1. PICK t \in Free : RestartDelay(c, t)
    BY <1>1 DEF onKeyDown
  <2>2. UNCHANGED RepeatTimer
    BY <1>1 DEF onKeyDown
  <2>3. TimersTyped' /\ OwnedNow'
    BY <1>1, <2>1, <2>2, Restarts
  <2>4. \A d \in Code : d # c => RepeatDelayTimer'[d] = RepeatDelayTimer[d]
    BY <2>1 DEF RestartDelay, TimersTyped
  <2> QED
    BY <1>1, <2>2, <2>3, <2>4
<1>2. CASE ~(Enable /\ ~Repeats(c))
  BY <1>2 DEF onKeyDown, timers, TimersTyped, OwnedNow, Pointed
<1> QED
  BY <1>1, <1>2

LEMMA SameTimers ==
  ASSUME TimersTyped, OwnedNow, UNCHANGED timers
  PROVE  TimersTyped' /\ OwnedNow'
BY DEF timers, TimersTyped, OwnedNow, Pointed

-----------------------------------------------------------------------------
(* The inductive invariant, one step for each action.                      *)

LEMMA Invs ==
  ASSUME Inv
  PROVE  /\ TimersTyped
         /\ inGame => OwnedNow
         /\ \A c \in Code : inGame /\ RepeatTimer[c] # Null => c \in held \cup missed
BY DEF Inv, TypeOK, TimersTyped, Record, Owned, OwnedNow, RepeatsHeld

(* The types of the variables other than the timers.                       *)
OthersTyped ==
  /\ held \subseteq Key /\ InputKeyState \subseteq Key
  /\ chat \in BOOLEAN /\ inGame \in BOOLEAN /\ Enable \in BOOLEAN
  /\ missed \subseteq Key /\ away \subseteq Key

LEMMA Typed == TypeOK <=> OthersTyped /\ TimersTyped
BY DEF TypeOK, OthersTyped, TimersTyped, Record

(* What the actions within a game and those outside of it must preserve.   *)
LEMMA InGameInv ==
  ASSUME OthersTyped', TimersTyped', DownIsHeld',
         inGame' = TRUE, OwnedNow',
         \A c \in Code : RepeatTimer'[c] # Null => c \in held' \cup missed',
         \A c \in Code : RepeatDelayTimer'[c] # Null => c \notin away'
  PROVE  Inv'
<1>1. TypeOK'
  BY DEF TypeOK, OthersTyped, TimersTyped, Record
<1> QED
  BY <1>1 DEF Inv, Owned, OwnedNow, RepeatsHeld, NoneOutside, DelayFresh

LEMMA OutsideInv ==
  ASSUME OthersTyped', TimersTyped', DownIsHeld',
         inGame' = FALSE, \A t \in Timers : tm'[t] = Null
  PROVE  Inv'
<1>1. TypeOK'
  BY DEF TypeOK, OthersTyped, TimersTyped, Record
<1> QED
  BY <1>1 DEF Inv, Owned, RepeatsHeld, NoneOutside, DelayFresh

LEMMA StartInv == Init => Inv
<1> SUFFICES ASSUME Init PROVE Inv
  OBVIOUS
<1>1. OthersTyped /\ TimersTyped
  BY DEF Init, OthersTyped, TimersTyped, NoTimers, Record
<1> QED
  BY <1>1, Typed
     DEF Init, Inv, Owned, RepeatsHeld, DownIsHeld, NoneOutside, DelayFresh

(* A press of a key that is held, or repeats.                              *)
LEMMA PressedInv ==
  ASSUME Inv, NEW k \in Key, Pressed(k), held' \subseteq Key, missed' \subseteq Key,
         held \cup missed \subseteq held' \cup missed', k \in held' \cup missed',
         away' \subseteq away, UNCHANGED <<inGame, Enable>>,
         inGame /\ ~Repeats(k) => k \notin away',
         away \subseteq held' \cup away'
  PROVE  Inv'
<1>1. OthersTyped /\ TimersTyped
  BY Typed DEF Inv
<1>2. InputKeyState' = InputKeyState \cup {k} /\ chat' \in BOOLEAN
  BY <1>1 DEF Pressed, OthersTyped
<1>3. OthersTyped'
  BY <1>1, <1>2 DEF OthersTyped
<1>4. DownIsHeld'
  BY <1>2 DEF Inv, DownIsHeld
<1>5. k \in Code
  BY DEF Code
<1>6. CASE inGame
  <2>1. CASE ~chat
    <3>1. onKeyDown(k) /\ OwnedNow
      BY <1>6, <2>1, Invs DEF Pressed
    <3>2. /\ TimersTyped' /\ OwnedNow' /\ RepeatTimer' = RepeatTimer
          /\ \A d \in Code : RepeatDelayTimer'[d] # Null =>
               RepeatDelayTimer[d] # Null \/ (d = k /\ ~Repeats(k))
      BY <1>1, <1>5, <3>1, Presses
    <3>3. \A c \in Code : RepeatTimer'[c] # Null => c \in held' \cup missed'
      BY <1>6, <3>2, Invs
    <3>4. \A c \in Code : RepeatDelayTimer'[c] # Null => c \notin away'
      BY <1>6, <3>2 DEF Inv, DelayFresh
    <3>5. inGame' = TRUE
      BY <1>1, <1>6 DEF OthersTyped
    <3> QED
      BY <1>3, <1>4, <3>2, <3>3, <3>4, <3>5, InGameInv
  <2>2. CASE chat
    <3>1. UNCHANGED timers
      BY <2>2 DEF Pressed
    <3>2. TimersTyped' /\ OwnedNow'
      BY <1>1, <1>6, <3>1, Invs, SameTimers
    <3>3. \A c \in Code : RepeatTimer'[c] # Null => c \in held' \cup missed'
      BY <1>6, <3>1, Invs DEF timers
    <3>4. \A c \in Code : RepeatDelayTimer'[c] # Null => c \notin away'
      BY <1>6, <3>1 DEF Inv, DelayFresh, timers
    <3>5. inGame' = TRUE
      BY <1>1, <1>6 DEF OthersTyped
    <3> QED
      BY <1>3, <1>4, <3>2, <3>3, <3>4, <3>5, InGameInv
  <2> QED
    BY <2>1, <2>2
<1>7. CASE ~inGame
  <2>1. UNCHANGED timers
    BY <1>7 DEF Pressed
  <2>2. TimersTyped' /\ \A t \in Timers : tm'[t] = Null
    BY <1>1, <1>7, <2>1 DEF Inv, NoneOutside, timers, TimersTyped
  <2>3. inGame' = FALSE
    BY <1>1, <1>7 DEF OthersTyped
  <2> QED
    BY <1>3, <1>4, <2>2, <2>3, OutsideInv
<1> QED
  BY <1>6, <1>7

(* A release, or the return of the keyboard in a game: no timer is left    *)
(* for the codes in s.                                                     *)
LEMMA ClearedInv ==
  ASSUME Inv, inGame, NEW s \in SUBSET Code, Clear(s), OthersTyped', DownIsHeld',
         UNCHANGED inGame, away' \subseteq away,
         (held \cup missed) \ s \subseteq held' \cup missed'
  PROVE  Inv'
<1>1. TimersTyped /\ OwnedNow
  BY Invs
<1>2. /\ TimersTyped' /\ OwnedNow'
      /\ \A d \in Code :
           /\ RepeatTimer'[d] = IF d \in s THEN Null ELSE RepeatTimer[d]
           /\ RepeatDelayTimer'[d] = IF d \in s THEN Null ELSE RepeatDelayTimer[d]
  BY <1>1, Clears
<1>3. \A c \in Code : RepeatTimer'[c] # Null => c \in held' \cup missed'
  BY <1>2, Invs
<1>4. \A c \in Code : RepeatDelayTimer'[c] # Null => c \notin away'
  BY <1>2 DEF Inv, DelayFresh
<1>5. inGame' = TRUE
  BY DEF OthersTyped
<1> QED
  BY <1>2, <1>3, <1>4, <1>5, InGameInv

(* What does not touch the timers, and hides nothing that is down.         *)
LEMMA SameTimersInv ==
  ASSUME Inv, UNCHANGED <<timers, inGame>>, OthersTyped', DownIsHeld',
         inGame => away' \subseteq away,
         inGame => held \cup missed \subseteq held' \cup missed'
  PROVE  Inv'
<1>1. CASE inGame
  <2>1. TimersTyped' /\ OwnedNow'
    BY <1>1, Invs, SameTimers
  <2>2. \A c \in Code : RepeatTimer'[c] # Null => c \in held' \cup missed'
    BY <1>1, Invs DEF timers
  <2>3. \A c \in Code : RepeatDelayTimer'[c] # Null => c \notin away'
    BY <1>1 DEF Inv, DelayFresh, timers
  <2>4. inGame' = TRUE
    BY <1>1 DEF OthersTyped
  <2> QED
    BY <2>1, <2>2, <2>3, <2>4, InGameInv
<1>2. CASE ~inGame
  <2>1. TimersTyped' /\ \A t \in Timers : tm'[t] = Null
    BY <1>2, Invs DEF Inv, NoneOutside, timers, TimersTyped
  <2>2. inGame' = FALSE
    BY <1>2 DEF OthersTyped
  <2> QED
    BY <2>1, <2>2, OutsideInv
<1> QED
  BY <1>1, <1>2

LEMMA KeysInv ==
  ASSUME Inv, NEW k \in Key, KeyDown(k) \/ KeyUp(k)
  PROVE  Inv'
<1>1. OthersTyped /\ TimersTyped /\ k \in Code
  BY Typed DEF Inv, Code
<1>2. CASE KeyDown(k)
  <2>1. /\ held' = held \cup {k} /\ Pressed(k)
        /\ missed' = missed \ {k} /\ away' = away \ {k}
        /\ UNCHANGED <<inGame, Enable>>
    BY <1>2 DEF KeyDown
  <2>2. held' \subseteq Key /\ missed' \subseteq Key
    BY <1>1, <2>1 DEF OthersTyped
  <2> QED
    BY <2>1, <2>2, PressedInv
<1>3. CASE KeyUp(k)
  <2>1. OthersTyped'
    BY <1>1, <1>3 DEF KeyUp, OthersTyped
  <2>2. CASE inGame /\ ~chat
    <3>1. Clear({k}) /\ held' = held \ {k} /\ UNCHANGED <<missed, away, inGame>>
      BY <1>3, <2>2 DEF KeyUp, onKeyUp
    <3>2. InputKeyState' = InputKeyState \ {k}
      BY <1>3 DEF KeyUp
    <3>3. DownIsHeld'
      BY <3>1, <3>2 DEF Inv, DownIsHeld
    <3>4. {k} \in SUBSET Code /\ (held \cup missed) \ {k} \subseteq held' \cup missed'
      BY <1>1, <3>1
    <3> QED
      BY <2>1, <2>2, <3>1, <3>3, <3>4, ClearedInv
  <2>3. CASE ~(inGame /\ ~chat)
    <3>1. /\ UNCHANGED <<timers, inGame, away>> /\ held' = held \ {k}
          /\ missed' = missed \cup {k}
      BY <1>3, <2>3 DEF KeyUp
    <3>2. InputKeyState' = InputKeyState \ {k}
      BY <1>3 DEF KeyUp
    <3>3. DownIsHeld'
      BY <3>1, <3>2 DEF Inv, DownIsHeld
    <3> QED
      BY <2>1, <3>1, <3>3, SameTimersInv
  <2> QED
    BY <2>2, <2>3
<1> QED
  BY <1>2, <1>3

LEMMA MouseInv ==
  ASSUME Inv, NEW m \in Mouse, MouseDown(m) \/ MouseUp(m)
  PROVE  Inv'
<1>1. OthersTyped /\ TimersTyped /\ m \in Code /\ inGame
  BY Typed DEF Inv, Code, MouseDown, MouseUp
<1>2. UNCHANGED <<held, InputKeyState, chat, inGame, Enable, missed, away>>
  BY DEF MouseDown, MouseUp
<1>3. OthersTyped' /\ DownIsHeld'
  BY <1>1, <1>2 DEF OthersTyped, Inv, DownIsHeld
<1>4. CASE MouseUp(m)
  <2>1. Clear({m}) /\ {m} \in SUBSET Code
    BY <1>1, <1>4 DEF MouseUp, onKeyUp
  <2> QED
    BY <1>1, <1>2, <1>3, <2>1, ClearedInv
<1>5. CASE MouseDown(m)
  <2>1. onKeyDown(m) /\ OwnedNow
    BY <1>1, <1>5, Invs DEF MouseDown
  <2>2. /\ TimersTyped' /\ OwnedNow' /\ RepeatTimer' = RepeatTimer
        /\ \A d \in Code : RepeatDelayTimer'[d] # Null =>
             RepeatDelayTimer[d] # Null \/ (d = m /\ ~Repeats(m))
    BY <1>1, <2>1, Presses
  <2>3. m \notin away
    BY <1>1, KeyAssumption DEF OthersTyped, KeyAssumption
  <2>4. \A c \in Code : RepeatTimer'[c] # Null => c \in held' \cup missed'
    BY <1>1, <1>2, <2>2, Invs
  <2>5. \A c \in Code : RepeatDelayTimer'[c] # Null => c \notin away'
    BY <1>1, <1>2, <2>2, <2>3 DEF Inv, DelayFresh
  <2>6. inGame' = TRUE
    BY <1>1, <1>2 DEF OthersTyped
  <2> QED
    BY <1>3, <2>2, <2>4, <2>5, <2>6, InGameInv
<1> QED
  BY <1>4, <1>5

LEMMA FocusInv ==
  ASSUME Inv, Focus
  PROVE  Inv'
<1>1. OthersTyped /\ held' \subseteq held /\ UNCHANGED <<chat, inGame, Enable, missed>>
  BY Typed DEF Inv, Focus
<1>2. CASE inGame
  <2>1. InputKeyState' = {} /\ Clear(Code) /\ away' = {}
    BY <1>2 DEF Focus, KeyStateReset
  <2>2. OthersTyped' /\ DownIsHeld'
    BY <1>1, <2>1 DEF OthersTyped, DownIsHeld
  <2>3. held \cup missed \subseteq Code
    BY <1>1 DEF OthersTyped, Code
  <2> QED
    BY <1>1, <1>2, <2>1, <2>2, <2>3, ClearedInv
<1>3. CASE ~inGame
  <2>1. away' = away \cup (held \ held') /\ UNCHANGED <<InputKeyState, timers>>
    BY <1>3 DEF Focus
  <2>2. OthersTyped' /\ DownIsHeld'
    BY <1>1, <2>1 DEF OthersTyped, DownIsHeld, Inv
  <2> QED
    BY <1>1, <1>3, <2>1, <2>2, SameTimersInv
<1> QED
  BY <1>2, <1>3

LEMMA DelayInv ==
  ASSUME Inv, NEW t \in Timers, DelayExpires(t)
  PROVE  Inv'
<1>1. OthersTyped /\ TimersTyped /\ inGame /\ OwnedNow
  BY Invs, Typed DEF Inv, DelayExpires
<1>2. UNCHANGED <<held, InputKeyState, chat, inGame, Enable, missed, away>>
  BY DEF DelayExpires
<1>3. OthersTyped' /\ DownIsHeld' /\ inGame' = TRUE
  BY <1>1, <1>2 DEF OthersTyped, Inv, DownIsHeld
<1>4. /\ TimersTyped' /\ OwnedNow'
      /\ \A d \in Code :
           /\ RepeatDelayTimer'[d] # Null => RepeatDelayTimer[d] # Null
           /\ RepeatTimer'[d] # Null =>
                \/ RepeatTimer[d] # Null
                \/ d \in InputKeyState /\ RepeatDelayTimer[d] # Null
  BY <1>1, Expires DEF DelayExpires
<1>5. \A c \in Code : RepeatDelayTimer[c] # Null => c \notin away
  BY <1>1 DEF Inv, DelayFresh
<1>6. \A c \in Code : RepeatTimer'[c] # Null => c \in held' \cup missed'
  BY <1>1, <1>2, <1>4, <1>5, Invs DEF Inv, DownIsHeld
<1>7. \A c \in Code : RepeatDelayTimer'[c] # Null => c \notin away'
  BY <1>2, <1>4, <1>5
<1> QED
  BY <1>3, <1>4, <1>6, <1>7, InGameInv

(* The program presses a key only if it repeats, and then it is held.      *)
LEMMA RepeatInv ==
  ASSUME Inv, NEW t \in Timers, RepeatExpires(t)
  PROVE  Inv'
<1> DEFINE k == tm[t].code
<1>1. /\ inGame /\ tm[t] # Null /\ tm[t].periodic /\ Pressed(k)
      /\ UNCHANGED <<held, inGame, Enable, missed, away>>
  BY DEF RepeatExpires
<1>2. TimersTyped /\ OwnedNow /\ OthersTyped
  BY <1>1, Invs, Typed DEF Inv
<1>3. k \in Code /\ t \in {RepeatTimer[k], RepeatDelayTimer[k]}
  BY <1>1, <1>2 DEF TimersTyped, OwnedNow, Record
<1>4. Pointed(k)
  BY <1>2, <1>3 DEF OwnedNow
<1>5. RepeatTimer[k] = t
  BY <1>1, <1>3, <1>4, NullIs DEF Pointed
<1>6. k \in held \cup missed /\ Repeats(k)
  BY <1>1, <1>3, <1>5, Invs, NullIs DEF Repeats
<1>7. k \in Key /\ held' \subseteq Key /\ missed' \subseteq Key
  BY <1>1, <1>2, <1>6 DEF OthersTyped
<1> HIDE DEF k
<1> QED
  BY <1>1, <1>6, <1>7, PressedInv

LEMMA TogglesInv ==
  ASSUME Inv, ChatToggles \/ OptionToggles
  PROVE  Inv'
<1>1. /\ UNCHANGED <<held, InputKeyState, inGame, timers, missed, away>>
      /\ \/ chat' = ~chat /\ Enable' = Enable
         \/ chat' = chat /\ Enable' = ~Enable
  BY DEF ChatToggles, OptionToggles
<1>2. OthersTyped
  BY Typed DEF Inv
<1>3. OthersTyped' /\ DownIsHeld'
  BY <1>1, <1>2 DEF OthersTyped, Inv, DownIsHeld
<1> QED
  BY <1>1, <1>3, SameTimersInv

LEMMA GamesInv ==
  ASSUME Inv, Game_Init \/ Game_Cleanup
  PROVE  Inv'
<1>1. OthersTyped /\ TimersTyped
  BY Typed DEF Inv
<1>2. UNCHANGED <<held, InputKeyState, Enable, missed, away>>
  BY DEF Game_Init, Game_Cleanup
<1>3. DownIsHeld'
  BY <1>2 DEF Inv, DownIsHeld
<1>4. CASE Game_Init
  <2>1. inGame' = TRUE /\ UNCHANGED <<tm, chat>> /\ \A x \in Timers : tm[x] = Null
    BY <1>4 DEF Game_Init, Inv, NoneOutside
  <2>2. RepeatTimer' = NoTimers /\ RepeatDelayTimer' = NoTimers
    BY <1>4 DEF Game_Init, ArraysCleared
  <2>3. OthersTyped'
    BY <1>1, <1>2, <2>1 DEF OthersTyped
  <2>4. TimersTyped' /\ OwnedNow'
    BY <1>1, <2>1, <2>2 DEF TimersTyped, OwnedNow, Pointed, NoTimers
  <2>5. \A c \in Code : RepeatTimer'[c] = Null /\ RepeatDelayTimer'[c] = Null
    BY <2>2 DEF NoTimers
  <2> QED
    BY <1>3, <2>1, <2>3, <2>4, <2>5, InGameInv
<1>5. CASE Game_Cleanup
  <2>1. /\ inGame' = FALSE /\ chat' = FALSE /\ tm' = Destroyed(Timers)
        /\ UNCHANGED <<RepeatTimer, RepeatDelayTimer>>
    BY <1>5 DEF Game_Cleanup
  <2>2. OthersTyped'
    BY <1>1, <1>2, <2>1 DEF OthersTyped
  <2>3. TimersTyped' /\ \A x \in Timers : tm'[x] = Null
    BY <1>1, <2>1, Destroys DEF TimersTyped
  <2> QED
    BY <1>3, <2>1, <2>2, <2>3, OutsideInv
<1> QED
  BY <1>4, <1>5

LEMMA NextInv == Inv /\ [Next]_vars => Inv'
<1> SUFFICES ASSUME Inv, [Next]_vars
             PROVE  Inv'
  OBVIOUS
<1>1. CASE \E k \in Key : KeyDown(k) \/ KeyUp(k)
  BY <1>1, KeysInv
<1>2. CASE \E m \in Mouse : MouseDown(m) \/ MouseUp(m)
  BY <1>2, MouseInv
<1>3. CASE \E t \in Timers : DelayExpires(t)
  BY <1>3, DelayInv
<1>4. CASE \E t \in Timers : RepeatExpires(t)
  BY <1>4, RepeatInv
<1>5. CASE Focus
  BY <1>5, FocusInv
<1>6. CASE ChatToggles \/ OptionToggles
  BY <1>6, TogglesInv
<1>7. CASE Game_Init \/ Game_Cleanup
  BY <1>7, GamesInv
<1>8. CASE UNCHANGED vars
  BY <1>8
     DEF vars, timers, Inv, TypeOK, Owned, Pointed, RepeatsHeld, DownIsHeld,
         NoneOutside, DelayFresh
<1> QED
  BY <1>1, <1>2, <1>3, <1>4, <1>5, <1>6, <1>7, <1>8 DEF Next

LEMMA SpecInv == Spec => []Inv
BY StartInv, NextInv, PTL DEF Spec

-----------------------------------------------------------------------------
(* The theorems.                                                           *)

(* Every variable keeps its type: no mouse button gets a key state.        *)
THEOREM KeyTypes == Spec => []TypeOK
<1>1. Inv => TypeOK
  BY DEF Inv
<1> QED
  BY <1>1, SpecInv, PTL

(* In a game every timer is pointed to by the array of its kind, and every *)
(* pointer is to a timer that exists (KeyRepeat.cpp 11-74).                *)
THEOREM TimersOwned == Spec => []Owned
<1>1. Inv => Owned
  BY DEF Inv
<1> QED
  BY <1>1, SpecInv, PTL

(* Only a key that is held repeats, or one whose release the chat box hid  *)
(* (KeyRepeat.cpp 37, Input.cpp 214).                                      *)
THEOREM RepeatOnlyHeld == Spec => []RepeatsHeld
<1>1. Inv => RepeatsHeld
  BY DEF Inv
<1> QED
  BY <1>1, SpecInv, PTL

(* Only a key that is held is taken to be down, or one whose release was   *)
(* not seen (Input.cpp 205-240).                                           *)
THEOREM DownOnlyHeld == Spec => []DownIsHeld
<1>1. Inv => DownIsHeld
  BY DEF Inv
<1> QED
  BY <1>1, SpecInv, PTL

=============================================================================
