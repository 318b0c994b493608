----------------------------- MODULE Game_proofs -----------------------------
(***************************************************************************)
(* What the program and a game say to each other.  The orders of           *)
(* just-in-time selection (Packet), for every set of units: each reaches   *)
(* the units it is meant for, as long as the address of a unit that has    *)
(* died is not used again while the program has it selected.  And the      *)
(* messages of the pipe (PipeServer), for every number of games, pipes and *)
(* sessions.                                                               *)
(***************************************************************************)
EXTENDS Packet, PipeServer, FiniteSetTheorems, TLAPS

-----------------------------------------------------------------------------
(* The operators.                                                          *)

LEMMA FirstIn ==
  ASSUME NEW S \in SUBSET Unit, S # {}
  PROVE  First(S) \in S
BY DEF First

LEMMA KindsOf ==
  ASSUME NEW S \in SUBSET Unit
  PROVE  KindsIn(S) \subseteq KindOf
BY DEF KindsIn, KindOf

LEMMA FirstKind ==
  ASSUME NEW S \in SUBSET Unit, S # {}
  PROVE  Kind[First(S)] \in KindOf
BY FirstIn DEF KindOf

(* What the program's state j says of the selection: Tracks is of jit.     *)
Tracked(j) ==
  IF j.on THEN j.sel = j.current \cap alive
          ELSE j.sel = ui /\ j.current = {}

Bounds == alive \in SUBSET Unit /\ ui \in SUBSET alive /\ shown \in KindsIn(ui)

(* The program selects the units of an order: they are selected, and none  *)
(* else.                                                                   *)
LEMMA States ==
  ASSUME NEW on \in BOOLEAN, NEW current \in SUBSET Unit, NEW tries \in 0..Certain,
         NEW sel \in SUBSET Unit, NEW sub \in KindOf
  PROVE  /\ State(on, current, tries, sel, sub) \in Jit
         /\ State(on, current, tries, sel, sub).on = on
         /\ State(on, current, tries, sel, sub).current = current
         /\ State(on, current, tries, sel, sub).tries = tries
         /\ State(on, current, tries, sel, sub).sel = sel
         /\ State(on, current, tries, sel, sub).sub = sub
BY DEF State, Jit

LEMMA Fields ==
  ASSUME NEW j \in Jit
  PROVE  /\ j.on \in BOOLEAN /\ j.current \in SUBSET Unit /\ j.tries \in 0..Certain
         /\ j.sel \in SUBSET Unit /\ j.sub \in KindOf
BY DEF Jit

LEMMA Zero == 0 \in 0..Certain
BY PacketAssumption DEF PacketAssumption

LEMMA Switches ==
  ASSUME Bounds, NEW j \in Jit, NEW S \in SUBSET alive,
         NEW k, S # {} => k \in KindOf
  PROVE  /\ SwitchTo(j, S, k) \in Jit
         /\ SwitchTo(j, S, k).on = j.on
         /\ SwitchTo(j, S, k).current = S
         /\ j.sel = j.current \cap alive => SwitchTo(j, S, k).sel = S
<1> DEFINE sel == (j.sel \ j.current) \cup (S \cap alive)
           sub == IF S = {} THEN j.sub ELSE k
<1>1. sel \in SUBSET Unit /\ sub \in KindOf /\ S \in SUBSET Unit
  BY Fields DEF Bounds
<1>2. j.sel = j.current \cap alive => sel = S
  OBVIOUS
<1>3. SwitchTo(j, S, k) = State(j.on, S, j.tries, sel, sub)
  BY DEF SwitchTo
<1> HIDE DEF sel, sub
<1> QED
  BY <1>1, <1>2, <1>3, States, Fields

(* The program selects the units of an order: they are selected, and none  *)
(* else.                                                                   *)
LEMMA JitSelects ==
  ASSUME Bounds, NEW j \in Jit, NEW S \in SUBSET alive
  PROVE  /\ JitSelect(j, S) \in Jit
         /\ JitSelect(j, S).on
         /\ JitSelect(j, S).current = S
         /\ Tracked(j) => JitSelect(j, S).sel = S
<1> DEFINE b == Begin(j)
           current == IF j.on THEN j.current ELSE j.current \cup ui
<1>1. current \in SUBSET Unit
  BY Fields DEF Bounds
<1>2. b = State(TRUE, current, 0, j.sel, j.sub)
  BY DEF Begin
<1>3. Tracked(j) => j.sel = current \cap alive
  BY DEF Tracked, Bounds
<1> HIDE DEF current
<1>4. b \in Jit /\ b.on /\ (Tracked(j) => b.sel = b.current \cap alive)
  <2>1. b = [on |-> TRUE, current |-> current, tries |-> 0, sel |-> j.sel, sub |-> j.sub]
    BY <1>2 DEF State
  <2> HIDE DEF b
  <2>2. b \in Jit /\ b.on /\ b.current = current /\ b.sel = j.sel
    BY <1>1, <2>1, Fields, Zero DEF Jit
  <2> QED
    BY <1>3, <2>2
<1>5. JitSelect(j, S) = IF b.current = S THEN b ELSE SwitchTo(b, S, Kind[First(S)])
  BY DEF JitSelect
<1>6. S # {} => Kind[First(S)] \in KindOf
  BY FirstKind DEF Bounds
<1> HIDE DEF b
<1>7. CASE b.current = S
  BY <1>4, <1>5, <1>7
<1>8. CASE b.current # S
  BY <1>4, <1>5, <1>6, <1>8, Switches
<1> QED
  BY <1>7, <1>8

LEMMA Clears ==
  ASSUME NEW j \in Jit
  PROVE  /\ Clear(j) \in Jit /\ ~Clear(j).on
         /\ Clear(j).current = {} /\ Clear(j).sel = j.sel
<1>1. Clear(j) = [on |-> FALSE, current |-> {}, tries |-> 0, sel |-> j.sel, sub |-> j.sub]
  BY DEF Clear, State
<1> QED
  BY <1>1, Fields, Zero DEF Jit

(* The selection displayed becomes the one of the game.                    *)
LEMMA SelectsBack ==
  ASSUME Bounds, NEW j \in Jit, j.on
  PROVE  /\ SelectBack(j) \in Jit
         /\ ~SelectBack(j).on
         /\ Tracked(j) => SelectBack(j).sel = ui /\ SelectBack(j).current = {}
<1>1. CASE j.current = ui
  <2>1. SelectBack(j) = Clear(j)
    BY <1>1 DEF SelectBack
  <2>2. Tracked(j) => j.sel = ui
    BY <1>1 DEF Tracked, Bounds
  <2> QED
    BY <2>1, <2>2, Clears
<1>2. CASE j.current # ui
  <2> DEFINE b == SwitchTo(j, ui, shown)
  <2>1. SelectBack(j) = Clear(b)
    BY <1>2 DEF SelectBack
  <2>2. shown \in KindOf /\ ui \in SUBSET alive
    BY KindsOf DEF Bounds
  <2>3. b \in Jit /\ (Tracked(j) => b.sel = ui)
    BY <2>2, Switches DEF Tracked
  <2> QED
    BY <2>1, <2>3, Clears
<1> QED
  BY <1>1, <1>2

LEMMA ActionFollows ==
  ASSUME Bounds, NEW j \in Jit
  PROVE  /\ BeforeAction(j) \in Jit
         /\ ~BeforeAction(j).on
         /\ Tracked(j) => BeforeAction(j).sel = ui /\ BeforeAction(j).current = {}
<1>1. CASE j.on
  BY <1>1, SelectsBack DEF BeforeAction
<1>2. CASE ~j.on
  BY <1>2 DEF BeforeAction, Tracked
<1> QED
  BY <1>1, <1>2

LEMMA Selecteds ==
  ASSUME NEW j \in Jit, NEW S \in SUBSET Unit, NEW k \in KindOf
  PROVE  /\ Selected(j, S, k) \in Jit
         /\ Selected(j, S, k).on = j.on
         /\ Selected(j, S, k).current = j.current
         /\ Selected(j, S, k).sel = S
BY Fields, States DEF Selected

-----------------------------------------------------------------------------
(* The types.                                                              *)

Sent == [by : {"player", "program"}, to : SUBSET Unit, sub : KindOf, shown : KindOf]

LEMMA Bounded ==
  ASSUME TypeOK
  PROVE  Bounds /\ jit \in Jit /\ ui \in SUBSET Unit /\ shown \in KindOf
BY KindsOf DEF TypeOK, Bounds

LEMMA OrderIs ==
  ASSUME shown \in KindOf, NEW by \in {"player", "program"}, NEW j \in Jit, Ordered(by, j)
  PROVE  order' \in Sent /\ order'.by = by /\ order'.to = j.sel
BY Fields DEF Ordered, Sent

(* What an action leaves of the units and orders, if it is none of their   *)
(* own actions.                                                            *)
LEMMA SameUnits ==
  ASSUME TypeOK, UNCHANGED <<alive, ui, shown>>, jit' \in Jit, order' \in Sent \/ order' = order
  PROVE  TypeOK'
BY DEF TypeOK, Sent

LEMMA Displays ==
  ASSUME TypeOK, NEW S \in SUBSET alive, NEW k \in KindsIn(S), Display(S, k), UNCHANGED <<alive, order>>
  PROVE  TypeOK' /\ (Tracks => Tracks')
<1>1. jit \in Jit /\ S \in SUBSET Unit /\ k \in KindOf
  BY KindsOf DEF TypeOK
<1>2. CASE jit.on
  BY <1>1, <1>2 DEF Display, TypeOK, Tracks
<1>3. CASE ~jit.on
  <2>1. jit' = Selected(jit, S, k)
    BY <1>3 DEF Display
  <2>2. jit' \in Jit /\ jit'.on = jit.on /\ jit'.current = jit.current /\ jit'.sel = S
    BY <1>1, <2>1, Selecteds
  <2> QED
    BY <1>3, <2>2 DEF Display, TypeOK, Tracks
<1> QED
  BY <1>2, <1>3

-----------------------------------------------------------------------------
(* One lemma for each group of actions: the types, and the selection.      *)

LEMMA PlayerSelecting ==
  ASSUME TypeOK, PlayerSelects \/ Tab \/ RecallGroup
  PROVE  TypeOK' /\ (Tracks => Tracks')
<1>1. CASE PlayerSelects
  BY <1>1, Displays DEF PlayerSelects
<1>2. CASE Tab
  BY <1>2, Displays, Bounded DEF Tab, Bounds
<1>3. CASE RecallGroup
  <2>0. PICK S \in SUBSET alive : \E k \in KindsIn(S) :
          ui' = S /\ shown' = k /\ jit' = Selected(Clear(jit), S, k)
    BY <1>3 DEF RecallGroup
  <2>1. PICK k \in KindsIn(S) :
          ui' = S /\ shown' = k /\ jit' = Selected(Clear(jit), S, k)
    BY <2>0
  <2>2. Clear(jit) \in Jit /\ ~Clear(jit).on /\ Clear(jit).current = {}
    BY Bounded, Clears
  <2>3. S \in SUBSET Unit /\ k \in KindOf
    BY KindsOf DEF TypeOK
  <2> HIDE DEF Clear
  <2>4. jit' \in Jit /\ ~jit'.on /\ jit'.current = {} /\ jit'.sel = S
    BY <2>1, <2>2, <2>3, Selecteds
  <2>5. UNCHANGED <<alive, order>>
    BY <1>3 DEF RecallGroup
  <2> QED
    BY <2>1, <2>4, <2>5 DEF TypeOK, Tracks
<1> QED
  BY <1>1, <1>2, <1>3

(* An order of the player.                                                 *)
LEMMA PlayerActing ==
  ASSUME TypeOK, PlayerActs \/ PlayerActsElse
  PROVE  /\ TypeOK' /\ (Tracks => Tracks')
         /\ PlayerActs /\ Tracks => order' \in Sent /\ order'.by = "player" /\ order'.to = ui
<1>1. Bounds /\ jit \in Jit /\ shown \in KindOf
  BY Bounded
<1>2. jit' = BeforeAction(jit) /\ UNCHANGED <<alive, ui, shown>>
  BY DEF PlayerActs, PlayerActsElse
<1>3. jit' \in Jit /\ ~jit'.on /\ (Tracks => jit'.sel = ui /\ jit'.current = {})
  BY <1>1, <1>2, ActionFollows DEF Tracks, Tracked
<1>4. CASE PlayerActs
  <2>1. Ordered("player", jit')
    BY <1>4 DEF PlayerActs
  <2>2. order' \in Sent /\ order'.by = "player" /\ order'.to = jit'.sel
    BY <1>1, <1>3, <2>1, OrderIs
  <2> QED
    BY <1>2, <1>3, <2>2, SameUnits DEF Tracks
<1>5. CASE PlayerActsElse /\ order' = order /\ ~PlayerActs
  BY <1>2, <1>3, <1>5, SameUnits DEF Tracks
<1> QED
  BY <1>4, <1>5 DEF PlayerActsElse

(* An order of the program to the units S.                                 *)
LEMMA ProgramActing ==
  ASSUME TypeOK, ProgramActs
  PROVE  /\ TypeOK' /\ (Tracks => Tracks')
         /\ Tracks => order' \in Sent /\ order'.by = "program"
         /\ UNCHANGED ui
<1>1. Bounds /\ jit \in Jit /\ shown \in KindOf
  BY Bounded
<1>2. PICK S \in SUBSET alive, useJIT \in BOOLEAN :
        /\ Ordered("program", JitSelect(jit, S))
        /\ jit' = IF useJIT THEN JitSelect(jit, S) ELSE SelectBack(JitSelect(jit, S))
  BY DEF ProgramActs
<1> DEFINE j == JitSelect(jit, S)
<1>3. j \in Jit /\ j.on /\ j.current = S /\ (Tracks => j.sel = S)
  BY <1>1, JitSelects DEF Tracks, Tracked
<1>4. Ordered("program", j) /\ jit' = IF useJIT THEN j ELSE SelectBack(j)
  BY <1>2
<1>5. UNCHANGED <<alive, ui, shown>>
  BY DEF ProgramActs
<1> HIDE DEF j
<1>6. order' \in Sent /\ order'.by = "program"
  BY <1>1, <1>3, <1>4, OrderIs
<1>7. Tracks => Tracked(j)
  BY <1>3 DEF Tracked
<1>8. jit' \in Jit /\ (Tracks => Tracked(jit'))
  <2>1. CASE useJIT
    BY <1>3, <1>4, <1>7, <2>1
  <2>2. CASE ~useJIT
    BY <1>1, <1>3, <1>4, <1>7, <2>2, SelectsBack DEF Tracked
  <2> QED
    BY <2>1, <2>2
<1> QED
  BY <1>5, <1>6, <1>8, SameUnits DEF Tracks, Tracked

(* Orders of the program to the units that the player has selected.        *)
LEMMA SelectedActing ==
  ASSUME TypeOK, Deny \/ DirectionMove
  PROVE  /\ TypeOK' /\ (Tracks => Tracks')
         /\ Tracks => order' \in Sent /\ order'.to = ui
         /\ UNCHANGED ui
<1>1. Bounds /\ jit \in Jit /\ shown \in KindOf /\ ui \in SUBSET alive
  BY Bounded DEF Bounds
<1>2. UNCHANGED <<alive, ui, shown>>
  BY DEF Deny, DirectionMove
<1>3. CASE Deny
  <2> DEFINE j == BeforeAction(jit)
  <2>1. j \in Jit /\ (Tracks => Tracked(j))
    BY <1>1, ActionFollows DEF Tracks, Tracked
  <2>2. jit' = JitSelect(j, ui) /\ Ordered("program", jit')
    BY <1>3 DEF Deny
  <2> HIDE DEF j
  <2>3. jit' \in Jit /\ jit'.on /\ jit'.current = ui /\ (Tracks => jit'.sel = ui)
    BY <1>1, <2>1, <2>2, JitSelects
  <2>4. order' \in Sent /\ order'.to = jit'.sel
    BY <1>1, <2>2, <2>3, OrderIs
  <2> QED
    BY <1>1, <1>2, <2>3, <2>4, SameUnits DEF Tracks
<1>4. CASE DirectionMove
  <2> DEFINE j == JitSelect(jit, ui)
  <2>1. j \in Jit /\ (Tracks => Tracked(j))
    BY <1>1, JitSelects DEF Tracks, Tracked
  <2>2. jit' = BeforeAction(j) /\ Ordered("player", jit')
    BY <1>4 DEF DirectionMove
  <2> HIDE DEF j
  <2>3. jit' \in Jit /\ ~jit'.on /\ (Tracks => jit'.sel = ui /\ jit'.current = {})
    BY <1>1, <2>1, <2>2, ActionFollows
  <2>4. order' \in Sent /\ order'.to = jit'.sel
    BY <1>1, <2>2, <2>3, OrderIs
  <2> QED
    BY <1>2, <2>3, <2>4, SameUnits DEF Tracks
<1> QED
  BY <1>3, <1>4

LEMMA TimerExpiring ==
  ASSUME TypeOK, TimerExpires
  PROVE  TypeOK' /\ (Tracks => Tracks')
<1>1. Bounds /\ jit \in Jit /\ jit.on
  BY Bounded DEF TimerExpires
<1>2. UNCHANGED <<alive, ui, shown, order>>
  BY DEF TimerExpires
<1>3. CASE jit' = SelectBack(jit)
  <2>1. /\ jit' \in Jit /\ ~jit'.on
        /\ Tracks => jit'.sel = ui /\ jit'.current = {}
    BY <1>1, <1>3, SelectsBack DEF Tracks, Tracked
  <2> QED
    BY <1>2, <2>1, SameUnits DEF Tracks
<1>4. CASE jit.tries + 1 < Certain /\ jit' = [jit EXCEPT !.tries = @ + 1]
  <2>1. jit.tries + 1 \in 0..Certain
    BY <1>1, <1>4, PacketAssumption DEF Jit, PacketAssumption
  <2>2. /\ jit' \in Jit /\ jit'.on = jit.on
        /\ jit'.current = jit.current /\ jit'.sel = jit.sel
    BY <1>1, <1>4, <2>1 DEF Jit
  <2> QED
    BY <1>2, <2>2, SameUnits DEF Tracks
<1> QED
  BY <1>3, <1>4 DEF TimerExpires

LEMMA Dying ==
  ASSUME TypeOK, Dies
  PROVE  TypeOK' /\ (Tracks => Tracks') /\ order' = order
<1>1. PICK u \in alive :
        /\ alive' = alive \ {u}
        /\ ui' = ui \ {u}
        /\ shown' \in IF shown \in KindsIn(ui') THEN {shown} ELSE KindsIn(ui')
        /\ jit' = Selected(jit, jit.sel \ {u}, IF jit.on THEN jit.sub ELSE shown')
  BY DEF Dies
<1> DEFINE k == IF jit.on THEN jit.sub ELSE shown'
           S == jit.sel \ {u}
<1>2. ui' \in SUBSET alive' /\ alive' \in SUBSET Unit /\ shown' \in KindsIn(ui')
  BY <1>1 DEF TypeOK
<1>3. shown' \in KindOf /\ jit \in Jit
  BY <1>2, KindsOf DEF TypeOK
<1>4. k \in KindOf /\ S \in SUBSET Unit
  BY <1>3, Fields
<1>5. jit' = Selected(jit, S, k)
  BY <1>1
<1> HIDE DEF k, S
<1>6. jit' \in Jit /\ jit'.on = jit.on /\ jit'.current = jit.current /\ jit'.sel = S
  BY <1>3, <1>4, <1>5, Selecteds
<1>7. Tracks => Tracks'
  BY <1>1, <1>6 DEF Tracks, S
<1> QED
  BY <1>2, <1>6, <1>7 DEF Dies, TypeOK

LEMMA Creating ==
  ASSUME TypeOK, Created
  PROVE  TypeOK' /\ (~Reuse /\ Tracks => Tracks') /\ UNCHANGED <<ui, order>>
BY DEF Created, TypeOK, Tracks

LEMMA StartingAnew ==
  ASSUME TypeOK, NewGame
  PROVE  TypeOK' /\ Tracks' /\ order' = NoOrder
<1>1. Clear(jit) \in Jit /\ ~Clear(jit).on /\ Clear(jit).current = {}
  BY Clears DEF TypeOK
<1>2. {} \in SUBSET Unit /\ NoKind \in KindOf
  BY DEF KindOf
<1>3. jit' = Selected(Clear(jit), {}, NoKind)
  BY DEF NewGame, Cleanup
<1> HIDE DEF Clear
<1>4. jit' \in Jit /\ ~jit'.on /\ jit'.current = {} /\ jit'.sel = {}
  BY <1>1, <1>2, <1>3, Selecteds
<1> QED
  BY <1>4 DEF NewGame, TypeOK, Tracks, KindsIn

LEMMA Starting == Init => TypeOK /\ Tracks
BY PacketAssumption DEF Init, TypeOK, Tracks, Jit, KindOf, KindsIn, PacketAssumption

LEMMA NextTypes ==
  ASSUME TypeOK, [Next]_vars
  PROVE  TypeOK' /\ (~Reuse /\ Tracks => Tracks')
<1>1. CASE PlayerSelects \/ Tab \/ RecallGroup
  BY <1>1, PlayerSelecting
<1>2. CASE PlayerActs \/ PlayerActsElse
  BY <1>2, PlayerActing
<1>3. CASE ProgramActs
  BY <1>3, ProgramActing
<1>4. CASE Deny \/ DirectionMove
  BY <1>4, SelectedActing
<1>5. CASE TimerExpires
  BY <1>5, TimerExpiring
<1>6. CASE Dies
  BY <1>6, Dying
<1>7. CASE Created
  BY <1>7, Creating
<1>8. CASE NewGame
  BY <1>8, StartingAnew
<1>9. CASE UNCHANGED vars
  BY <1>9 DEF vars, TypeOK, Tracks
<1> QED
  BY <1>1, <1>2, <1>3, <1>4, <1>5, <1>6, <1>7, <1>8, <1>9 DEF Next

-----------------------------------------------------------------------------
(* The theorems.                                                           *)

(* The program's state and every order have their types, for every set of  *)
(* units and whether or not addresses are used again.                      *)
THEOREM PacketTypes == Spec => []TypeOK
<1>1. Init => TypeOK
  BY Starting
<1>2. TypeOK /\ [Next]_vars => TypeOK'
  BY NextTypes
<1> QED
  BY <1>1, <1>2, PTL DEF Spec

(* JustInTimeSelection is the selection of the game while it differs from  *)
(* the one displayed, which is the game's at all other times, unless a new *)
(* unit gets the address of one that died while the program had it         *)
(* selected (Packet.cpp 57-127, 188-238).                                  *)
THEOREM SelectionTracked ==
  ASSUME ~Reuse
  PROVE  Spec => []Tracks
<1> DEFINE Inv == TypeOK /\ Tracks
<1>1. Init => Inv
  BY Starting
<1>2. Inv /\ [Next]_vars => Inv'
  BY NextTypes
<1>3. Inv => Tracks
  OBVIOUS
<1> HIDE DEF Inv
<1> QED
  BY <1>1, <1>2, <1>3, PTL DEF Spec

-----------------------------------------------------------------------------
(* Every step does what is promised of it.                                 *)

Received == IF order = NoOrder THEN NoOrder ELSE [by |-> order.by, to |-> order.to]

LEMMA OrderReceived ==
  ASSUME order' \in Sent
  PROVE  Received' = [by |-> order'.by, to |-> order'.to] /\ order'.to \in SUBSET Unit
<1>1. NoOrder \notin Sent
  BY PacketAssumption DEF PacketAssumption, Sent, KindOf
<1> QED
  BY <1>1 DEF Received, Sent

LEMMA StepPromised ==
  ASSUME TypeOK, TypeOK', Tracks, [Next]_vars
  PROVE  \/ Promise!Selects \/ Promise!PlayerOrders
         \/ \E S \in SUBSET Unit : Promise!ProgramOrders(S)
<1>1. ui' \in SUBSET Unit
  BY DEF TypeOK
<1>2. ASSUME order' \in {order, NoOrder}
      PROVE  Promise!Selects
  BY <1>1, <1>2 DEF Promise!Selects, Received
<1>3. ASSUME order' \in Sent, order'.by = "player", order'.to = ui, UNCHANGED ui, ui # {}
      PROVE  Promise!PlayerOrders
  BY <1>3, OrderReceived DEF Promise!PlayerOrders, Received
<1>4. ASSUME order' \in Sent, order'.by = "program", UNCHANGED ui
      PROVE  \E S \in SUBSET Unit : Promise!ProgramOrders(S)
  BY <1>4, OrderReceived DEF Promise!ProgramOrders, Received
<1>5. CASE PlayerActs
  BY <1>3, <1>5, PlayerActing DEF PlayerActs
<1>6. CASE ProgramActs
  BY <1>4, <1>6, ProgramActing
<1>7. CASE Deny
  <2>1. order' \in Sent /\ UNCHANGED ui
    BY <1>7, SelectedActing
  <2>2. order'.by = "program"
    BY <1>7 DEF Deny, Ordered
  <2> QED
    BY <1>4, <2>1, <2>2
<1>8. CASE DirectionMove
  <2>1. order' \in Sent /\ order'.to = ui /\ UNCHANGED ui
    BY <1>8, SelectedActing
  <2>2. order'.by = "player"
    BY <1>8 DEF DirectionMove, Ordered
  <2>3. ui # {}
    BY <1>8, FS_EmptySet DEF DirectionMove
  <2> QED
    BY <1>3, <2>1, <2>2, <2>3
<1>9. CASE PlayerSelects \/ Tab \/ RecallGroup \/ PlayerActsElse \/ TimerExpires
  BY <1>2, <1>9 DEF PlayerSelects, Tab, RecallGroup, PlayerActsElse, TimerExpires
<1>10. CASE Dies \/ Created
  BY <1>2, <1>10 DEF Dies, Created
<1>11. CASE NewGame
  BY <1>2, <1>11 DEF NewGame
<1>12. CASE UNCHANGED vars
  BY <1>2, <1>12 DEF vars
<1> QED
  BY <1>5, <1>6, <1>7, <1>8, <1>9, <1>10, <1>11, <1>12 DEF Next

(* The orders of the player and those the program gives meanwhile are the  *)
(* ones promised: each step is a step of Orders (Packet.cpp 415-466).      *)
THEOREM OrdersKept ==
  ASSUME ~Reuse
  PROVE  Spec => KeepsPromise
<1> DEFINE Inv == TypeOK /\ Tracks
<1>1. Init => Inv
  BY Starting
<1>2. Inv /\ [Next]_vars => Inv'
  BY NextTypes
<1>3. Init => Promise!Init
  BY DEF Init, Promise!Init
<1>4. Inv /\ Inv' /\ [Next]_vars => [Promise!Next]_<<ui, Received>>
  BY StepPromised DEF Promise!Next
<1> HIDE DEF Inv
<1> QED
  BY <1>1, <1>2, <1>3, <1>4, PTL DEF Spec, KeepsPromise, Promise!Spec, Received

-----------------------------------------------------------------------------
(* The pipe.                                                               *)

Peers ==
  \A p \in Pipe : peer[p] \in Game =>
    name[peer[p]] = p /\ pc[peer[p]] \notin {"out", "copied", "named"}

(* Sessions do not change under the pipe thread: what it has copied is the *)
(* session of its pipe, or the zeros of a logout.                          *)
OneSession ==
  /\ srv \notin {"off", "create"} /\ pipe # 0 => origin[pipe] = logins
  /\ srv = "serve" => copy \in {0, logins}

(* The key data a game has is that, and it is not zeros once it has served *)
(* to decrypt a text.                                                      *)
Keyed(g) ==
  /\ key[g] # 0 => name[g] # 0 /\ key[g] = origin[name[g]]
  /\ pc[g] = "out" => key[g] = 0
  /\ pc[g] \in {"net", "net?", "inited"} => key[g] # 0

ServerInv ==
  PipeTypeOK /\ Alternate /\ Peers /\ OneSession /\ \A g \in Game : Keyed(g)

LEMMA PipeInitInv == PipeInit => ServerInv
<1> SUFFICES ASSUME PipeInit
             PROVE  ServerInv
  OBVIOUS
<1>1. PipeTypeOK
  <2>1. /\ made = 0 /\ pipe = 0 /\ smem = 0 /\ logins = 0 /\ session = 0 /\ copy = 0
        /\ 0 \in 0..MaxPipe /\ 0 \in 0..MaxLogin
    BY PipeAssumption DEF PipeInit
  <2>2. /\ origin \in [Pipe -> 0..logins] /\ peer \in [Pipe -> Game \cup {None}]
        /\ name \in [Game -> 0..made] /\ key \in [Game -> 0..logins]
    BY <2>1 DEF PipeInit
  <2>3. pc \in [Game -> Places]
    BY DEF PipeInit, Places
  <2>4. req \in [Game -> Request \cup {None}] /\ ans \in [Game -> Answer \cup {None}]
    BY DEF PipeInit
  <2>5. /\ srv = "off" /\ term = FALSE /\ open = {} /\ revision \in [Game -> Revision]
        /\ made \in 0..MaxPipe /\ pipe \in 0..made /\ smem \in 0..made
        /\ copy \in 0..logins /\ session = logins /\ logins \in 0..MaxLogin
    BY <2>1 DEF PipeInit
  <2> QED
    BY <2>2, <2>3, <2>4, <2>5 DEF PipeTypeOK
<1>2. Alternate /\ Peers /\ OneSession
  BY PipeAssumption DEF PipeInit, Alternate, Peers, OneSession
<1>3. \A g \in Game : Keyed(g)
  BY DEF PipeInit, Keyed
<1> QED
  BY <1>1, <1>2, <1>3 DEF ServerInv

(* The client around the thread.                                           *)
LEMMA ClientInv ==
  ASSUME ServerInv, Login \/ ClearSession \/ StopSignal \/ CloseServing
  PROVE  ServerInv'
<1> USE DEF ServerInv
<1>1. UNCHANGED <<peer, games, revision, made, origin, smem>>
  BY DEF Login, ClearSession, StopSignal, CloseServing, server
<1>2. UNCHANGED <<pc, name, req, ans, key>>
  BY <1>1 DEF games
<1>3. PipeTypeOK'
  <2>1. CASE Login
    <3>1. /\ logins' \in 0..MaxLogin /\ session' = logins' /\ 0..logins \subseteq 0..logins'
          /\ UNCHANGED <<pipe, open, copy>> /\ srv' = "create" /\ term' = FALSE
      BY <2>1, PipeAssumption DEF PipeTypeOK, Login
    <3>2. copy \in 0..logins' /\ origin \in [Pipe -> 0..logins'] /\ key \in [Game -> 0..logins']
      BY <3>1 DEF PipeTypeOK
    <3> QED
      BY <1>1, <1>2, <3>1, <3>2 DEF PipeTypeOK
  <2>2. CASE ClearSession
    BY <1>1, <1>2, <2>2 DEF PipeTypeOK, ClearSession, server
  <2>3. CASE StopSignal \/ CloseServing
    <3>1. /\ UNCHANGED <<srv, copy, session, logins>> /\ term' \in BOOLEAN
          /\ pipe' \in {0, pipe} /\ open' \subseteq open
      BY <2>3 DEF PipeTypeOK, StopSignal, CloseServing, Term, sessions
    <3>2. pipe' \in 0..made /\ open' \subseteq 1..made
      BY <3>1 DEF PipeTypeOK
    <3> QED
      BY <1>1, <1>2, <3>1, <3>2 DEF PipeTypeOK
  <2> QED
    BY <2>1, <2>2, <2>3
<1>4. Alternate' /\ Peers' /\ \A g \in Game : Keyed(g)'
  BY <1>1, <1>2 DEF Alternate, Waits, Peers, Keyed
<1>5. OneSession'
  BY <1>1 DEF OneSession, Login, ClearSession, StopSignal, CloseServing, server, Term,
              sessions
<1> QED
  BY <1>3, <1>4, <1>5

(* The thread: only a pipe nobody knows yet gets another origin.           *)
LEMMA ServerStepInv ==
  ASSUME ServerInv, Server
  PROVE  ServerInv'
<1> USE DEF ServerInv
<1>1. UNCHANGED <<peer, pc, name, req, ans, key, revision, session, logins>>
  BY DEF Server, Create, Announce, Listen, AcceptOrStopped, Broken, End, games, sessions
<1>2. Alternate' /\ Peers'
  BY <1>1 DEF Alternate, Waits, Peers
<1>3. CASE Create
  <2>1. made + 1 \in Pipe /\ made' = made + 1 /\ made \in Nat
    BY <1>3, PipeAssumption DEF Create, PipeTypeOK, Pipe
  <2>2. PipeTypeOK'
    BY <1>1, <1>3, <2>1, PipeAssumption DEF Create, PipeTypeOK, sessions
  <2>3. OneSession'
    BY <1>1, <1>3, <2>1 DEF Create, OneSession, PipeTypeOK
  <2>4. ASSUME NEW g \in Game
        PROVE  Keyed(g)'
    <3>1. name[g] # made + 1
      BY <2>1 DEF PipeTypeOK
    <3>2. origin'[name[g]] = origin[name[g]] \/ name[g] = 0
      BY <1>3, <2>1, <3>1, PipeAssumption DEF Create, PipeTypeOK, Pipe
    <3> QED
      BY <1>1, <3>2 DEF Keyed
  <2> QED
    BY <1>2, <2>2, <2>3, <2>4
<1>4. CASE Announce \/ Listen \/ AcceptOrStopped \/ Broken \/ End
  <2>1. UNCHANGED <<origin, made>>
    BY <1>4 DEF Announce, Listen, AcceptOrStopped, Broken, End
  <2>2. PipeTypeOK'
    <3>1. CASE Announce
      BY <1>1, <3>1, PipeAssumption DEF Announce, PipeTypeOK, Context, sessions, games
    <3>2. CASE Listen
      BY <1>1, <3>2 DEF Listen, PipeTypeOK, sessions, games
    <3>3. CASE AcceptOrStopped \/ Broken
      <4>1. copy' \in 0..logins /\ srv' \in {"serve", "end"}
        BY <3>3, PipeAssumption DEF AcceptOrStopped, Broken, PipeTypeOK
      <4>2. UNCHANGED <<term, pipe, smem>> /\ open' \subseteq open
        BY <3>3 DEF AcceptOrStopped, Broken
      <4>3. open' \subseteq 1..made
        BY <4>2 DEF PipeTypeOK
      <4> QED
        BY <1>1, <2>1, <4>1, <4>2, <4>3 DEF PipeTypeOK
    <3>4. CASE End
      <4>1. /\ srv' \in {"off", "create"} /\ UNCHANGED <<term, smem, copy>>
            /\ pipe' \in {0, pipe} /\ open' \subseteq open
        BY <3>4 DEF End, Term, sessions
      <4>2. pipe' \in 0..made /\ open' \subseteq 1..made
        BY <4>1 DEF PipeTypeOK
      <4> QED
        BY <1>1, <2>1, <4>1, <4>2 DEF PipeTypeOK
    <3> QED
      BY <1>4, <3>1, <3>2, <3>3, <3>4
  <2>3. OneSession'
    BY <1>1, <1>4, <2>1
       DEF Announce, Listen, AcceptOrStopped, Broken, End, OneSession, PipeTypeOK, sessions, Term
  <2>4. \A g \in Game : Keyed(g)'
    BY <1>1, <2>1 DEF Keyed
  <2> QED
    BY <1>2, <2>2, <2>3, <2>4
<1> QED
  BY <1>3, <1>4 DEF Server

(* An answer to the game at the other end of the pipe.                     *)
LEMMA ServeInv ==
  ASSUME ServerInv, NEW g \in Game, Serve(g)
  PROVE  ServerInv'
<1> USE DEF ServerInv
<1>1. /\ UNCHANGED <<srv, term, made, pipe, open, origin, peer, smem, session, copy, logins>>
      /\ UNCHANGED <<pc, name, revision>>
      /\ srv = "serve" /\ pipe # 0 /\ peer[pipe] = g /\ req[g] # None
      /\ req' = [req EXCEPT ![g] = None]
      /\ key' = [key EXCEPT ![g] = IF req[g] = "data" THEN copy ELSE @]
  BY DEF Serve, Serving, server, sessions
<1>2. /\ req \in [Game -> Request \cup {None}] /\ ans \in [Game -> Answer \cup {None}]
      /\ key \in [Game -> 0..logins] /\ copy \in 0..logins
      /\ pipe \in Pipe
  BY <1>1, PipeAssumption DEF PipeTypeOK, Pipe
<1>3. PICK a \in Answers(g) : ans' = [ans EXCEPT ![g] = a]
  BY DEF Serve
<1>4. req[g] \in Request /\ a \in {req[g], "null"}
  BY <1>1, <1>2, <1>3 DEF Answers, Request
<1>5. PipeTypeOK'
  <2>1. a \in Answer
    BY <1>4 DEF Answer
  <2>2. /\ req' \in [Game -> Request \cup {None}] /\ ans' \in [Game -> Answer \cup {None}]
        /\ key' \in [Game -> 0..logins]
    BY <1>1, <1>2, <1>3, <2>1
  <2> QED
    BY <1>1, <2>2 DEF PipeTypeOK
<1>6. Waits(g, req[g]) /\ ans[g] = None
  BY <1>1 DEF Alternate
<1>7. Alternate'
  BY <1>1, <1>2, <1>3, <1>4, <1>6 DEF Alternate, Waits
<1>8. Peers' /\ OneSession'
  BY <1>1 DEF Peers, OneSession
<1>9. ASSUME NEW h \in Game
      PROVE  Keyed(h)'
  <2>1. CASE h # g \/ req[g] # "data"
    BY <1>1, <1>2, <2>1 DEF Keyed
  <2>2. CASE h = g /\ req[g] = "data"
    <3>1. key'[g] = copy /\ copy \in {0, origin[pipe]}
      BY <1>1, <1>2, <2>2 DEF OneSession
    <3>2. pc[g] = "data?" /\ name[g] = pipe
      BY <1>1, <1>2, <1>6, <2>2 DEF Waits, Waiting, Peers
    <3> QED
      BY <1>1, <2>2, <3>1, <3>2 DEF Keyed
  <2> QED
    BY <2>1, <2>2
<1> QED
  BY <1>5, <1>7, <1>8, <1>9

(* A game that has started copies what the shared memory has.              *)
LEMMA InjectInv ==
  ASSUME ServerInv, NEW g \in Game, Inject(g)
  PROVE  ServerInv'
<1> USE DEF ServerInv
<1>1. /\ UNCHANGED <<srv, term, made, pipe, open, origin, session, copy, logins, revision, key>>
      /\ pc[g] = "out" /\ pc' = [pc EXCEPT ![g] = "copied"]
      /\ name' = [name EXCEPT ![g] = smem]
      /\ UNCHANGED <<peer, smem, req, ans>>
  BY DEF Inject, At, server, sessions
<1>2. PipeTypeOK'
  BY <1>1 DEF PipeTypeOK, Places
<1>3. /\ \A h \in Game \ {g} : pc'[h] = pc[h] /\ name'[h] = name[h]
      /\ pc'[g] = "copied"
  BY <1>1 DEF PipeTypeOK
<1>4. req[g] = None /\ ans[g] = None
  BY <1>1 DEF Alternate, Waits, Waiting, Request, PipeTypeOK
<1>5. Alternate'
  BY <1>1, <1>3, <1>4 DEF Alternate, Waits
<1>6. Peers' /\ OneSession'
  BY <1>1, <1>3 DEF Peers, OneSession
<1>7. ASSUME NEW h \in Game
      PROVE  Keyed(h)'
  <2>1. key[g] = 0
    BY <1>1 DEF Keyed
  <2> QED
    BY <1>1, <1>3, <2>1 DEF Keyed
<1> QED
  BY <1>2, <1>5, <1>6, <1>7

(* Every other step of game g moves it to a place, and has read what there *)
(* was for it.                                                             *)
MovesTo(g, place) ==
  /\ UNCHANGED <<srv, term, made, pipe, open, origin, session, copy, logins>>
  /\ UNCHANGED <<name, key, revision>>
  /\ smem' \in {0, smem}
  /\ pc' = [pc EXCEPT ![g] = place]
  /\ \/ peer' = peer
     \/ place = "data" /\ name[g] \in open /\ peer' = [peer EXCEPT ![name[g]] = g]
  /\ req' \in [Game -> Request \cup {None}] /\ ans' \in [Game -> Answer \cup {None}]
  /\ \A h \in Game \ {g} : req'[h] = req[h] /\ ans'[h] = ans[h]
  /\ ans'[g] = None
  /\ req'[g] = None \/ place = Waiting[req'[g]]

LEMMA MovesInv ==
  ASSUME ServerInv, NEW g \in Game, NEW place \in Places \ {"out", "copied"},
         MovesTo(g, place),
         place = "named" => pc[g] = "copied",
         place \in {"net", "net?", "inited"} => key[g] # 0
  PROVE  ServerInv'
<1> USE DEF ServerInv
<1>1. /\ UNCHANGED <<srv, term, made, pipe, open, origin, session, copy, logins>>
      /\ UNCHANGED <<name, key, revision>>
      /\ pc'[g] = place /\ \A h \in Game \ {g} : pc'[h] = pc[h]
  BY DEF MovesTo, PipeTypeOK
<1>2. name[g] \in open => name[g] \in Pipe
  BY PipeAssumption DEF PipeTypeOK, Pipe
<1>3. PipeTypeOK'
  <2>1. pc' \in [Game -> Places] /\ smem' \in 0..made
    BY DEF MovesTo, PipeTypeOK
  <2>2. peer' \in [Pipe -> Game \cup {None}]
    BY <1>2 DEF MovesTo, PipeTypeOK
  <2> QED
    BY <1>1, <2>1, <2>2 DEF MovesTo, PipeTypeOK
<1>4. Alternate'
  <2>1. ASSUME NEW h \in Game \ {g}
        PROVE  req'[h] = req[h] /\ ans'[h] = ans[h] /\ pc'[h] = pc[h]
    BY <1>1 DEF MovesTo
  <2>2. ans'[g] = None /\ (req'[g] # None => pc'[g] = Waiting[req'[g]])
    BY <1>1 DEF MovesTo
  <2> QED
    BY <2>1, <2>2 DEF Alternate, Waits
<1>5. Peers'
  <2>1. ASSUME NEW p \in Pipe, peer'[p] \in Game
        PROVE  name[peer'[p]] = p /\ pc'[peer'[p]] \notin {"out", "copied", "named"}
    <3>1. CASE peer'[p] = peer[p]
      BY <1>1, <2>1, <3>1 DEF Peers
    <3>2. CASE peer'[p] # peer[p]
      BY <1>1, <1>2, <2>1, <3>2 DEF MovesTo, PipeTypeOK
    <3> QED
      BY <3>1, <3>2
  <2> QED
    BY <1>1, <2>1 DEF Peers
<1>6. OneSession' /\ \A h \in Game : Keyed(h)'
  BY <1>1 DEF OneSession, Keyed
<1> QED
  BY <1>3, <1>4, <1>5, <1>6

LEMMA GameInv ==
  ASSUME ServerInv, NEW g \in Game, Advances(g) \/ Exit(g)
  PROVE  ServerInv'
<1> USE DEF server, sessions
<1>1. /\ pc \in [Game -> Places]
      /\ req \in [Game -> Request \cup {None}] /\ ans \in [Game -> Answer \cup {None}]
  BY DEF ServerInv, PipeTypeOK
<1>2. /\ pc[g] \in {"net", "net?", "inited"} => key[g] # 0
      /\ ans[g] # None => req[g] = None
      /\ (\A r \in Request : ~Waits(g, r)) => req[g] = None /\ ans[g] = None
  BY DEF ServerInv, Keyed, Alternate, PipeTypeOK
<1>3. \A r \in Request : Waits(g, r) => pc[g] \in {"data?", "lang?", "net?"}
  BY DEF Request, Waits, Waiting
<1>4. {"named", "data", "failed", "gone", "data?", "lang?", "net?", "lang", "net", "inited"}
        \subseteq Places \ {"out", "copied"}
  BY DEF Places, Request, Waiting
<1>5. CASE ClearMemory(g)
  <2>1. MovesTo(g, "named") /\ pc[g] = "copied"
    BY <1>1, <1>2, <1>3, <1>5 DEF ClearMemory, At, MovesTo
  <2> QED
    BY <1>4, <2>1, MovesInv
<1>6. CASE Connect(g)
  <2>1. MovesTo(g, "data")
    BY <1>1, <1>2, <1>3, <1>6 DEF Connect, At, Free, MovesTo
  <2> QED
    BY <1>4, <2>1, MovesInv
<1>7. CASE ConnectFails(g)
  <2>1. MovesTo(g, "failed")
    BY <1>1, <1>2, <1>3, <1>7 DEF ConnectFails, At, MovesTo
  <2> QED
    BY <1>4, <2>1, MovesInv
<1>8. CASE Ask(g)
  <2>1. pc[g] \in Request /\ req[g] = None /\ ans[g] = None
    BY <1>2, <1>3, <1>8 DEF Ask, Request
  <2>2. CASE Alive(g)
    <3>1. MovesTo(g, Waiting[pc[g]])
      BY <1>1, <1>8, <2>1, <2>2 DEF Ask, MovesTo
    <3>2. /\ Waiting[pc[g]] \in {"data?", "lang?", "net?"}
          /\ Waiting[pc[g]] = "net?" => pc[g] = "net"
      BY <2>1 DEF Waiting, Request
    <3> QED
      BY <1>2, <1>4, <3>1, <3>2, MovesInv
  <2>3. CASE ~Alive(g)
    <3>1. MovesTo(g, "failed")
      BY <1>1, <1>8, <2>1, <2>3 DEF Ask, MovesTo
    <3> QED
      BY <1>4, <3>1, MovesInv
  <2> QED
    BY <2>2, <2>3
<1>9. CASE Read(g)
  <2>1. PICK place \in {"lang", "net", "inited", "failed"} :
          /\ pc' = [pc EXCEPT ![g] = place]
          /\ place \in {"net", "inited"} => key[g] # 0
    <3>1. CASE GotKey(g)
      <4>1. ~GotTexts(g) /\ ~GotOffsets(g)
        BY <3>1 DEF GotKey, GotTexts, GotOffsets, Waits, Waiting
      <4>2. pc' = [pc EXCEPT ![g] = "lang"]
        BY <1>9, <3>1, <4>1 DEF Read
      <4> QED
        BY <4>2
    <3>2. CASE ~GotKey(g)
      <4>1. GotOffsets(g) => ~GotTexts(g) /\ key[g] # 0
        BY <1>2 DEF GotTexts, GotOffsets, Waits, Waiting
      <4>2. GotTexts(g) => key[g] # 0
        BY DEF GotTexts
      <4> QED
        BY <1>9, <3>2, <4>1, <4>2 DEF Read
    <3> QED
      BY <3>1, <3>2
  <2>2. MovesTo(g, place)
    BY <1>1, <1>2, <1>9, <2>1 DEF Read, MovesTo
  <2> QED
    BY <1>4, <2>1, <2>2, MovesInv
<1>10. CASE ReadFails(g)
  <2>1. MovesTo(g, "failed")
    BY <1>1, <1>10 DEF ReadFails, MovesTo
  <2> QED
    BY <1>4, <2>1, MovesInv
<1>11. CASE Exit(g)
  <2>1. MovesTo(g, "gone")
    BY <1>1, <1>11 DEF Exit, MovesTo
  <2> QED
    BY <1>4, <2>1, MovesInv
<1> QED
  BY <1>5, <1>6, <1>7, <1>8, <1>9, <1>10, <1>11 DEF Advances

LEMMA PipeNextInv ==
  ASSUME ServerInv, [PipeNext]_pipeVars
  PROVE  ServerInv'
<1>1. CASE Login \/ ClearSession \/ StopSignal \/ CloseServing
  BY <1>1, ClientInv
<1>2. CASE Server
  BY <1>2, ServerStepInv
<1>3. CASE \E g \in Game : Serve(g) \/ Inject(g) \/ Advances(g) \/ Exit(g)
  BY <1>3, ServeInv, InjectInv, GameInv
<1>4. CASE UNCHANGED pipeVars
  <2>1. /\ UNCHANGED <<srv, term, made, pipe, open, origin, peer, smem, session, copy, logins>>
        /\ UNCHANGED <<pc, name, req, ans, key, revision>>
    BY <1>4 DEF pipeVars, server, sessions, games
  <2>2. PipeTypeOK'
    BY <2>1 DEF ServerInv, PipeTypeOK
  <2>3. Alternate' /\ Peers' /\ OneSession' /\ \A g \in Game : Keyed(g)'
    BY <2>1 DEF ServerInv, Alternate, Waits, Peers, OneSession, Keyed
  <2> QED
    BY <2>2, <2>3 DEF ServerInv
<1> QED
  BY <1>1, <1>2, <1>3, <1>4 DEF PipeNext

LEMMA PipeInvHolds == PipeSpec => []ServerInv
BY PipeInitInv, PipeNextInv, PTL DEF PipeSpec

(* The server, its pipes and every game keep their types: in particular    *)
(* the name in shared memory is of a pipe there is, or none (Pipe.h 18-23, *)
(* ThreadPipe.cpp 235-256).                                                *)
THEOREM PipeTypes == PipeSpec => []PipeTypeOK
<1>1. ServerInv => PipeTypeOK
  BY DEF ServerInv
<1> QED
  BY <1>1, PipeInvHolds, PTL

(* No game reads the answer to another request than its last, however      *)
(* games and sessions end in between (ThreadPipe.cpp 131-197).             *)
THEOREM Alternates == PipeSpec => []Alternate
<1>1. ServerInv => Alternate
  BY DEF ServerInv
<1> QED
  BY <1>1, PipeInvHolds, PTL

(***************************************************************************)
(* A game that has started holds the key data of the session in which its  *)
(* pipe was created: the copy of GameConnection_Loop is of the session of  *)
(* its pipe or zeros, for the next session begins with another thread, and *)
(* nothing can be decrypted with zeros (ThreadPipe.cpp 115-165).           *)
(***************************************************************************)
THEOREM KeysOfSessions == PipeSpec => []KeyOfSession
<1>1. ServerInv => KeyOfSession
  BY DEF ServerInv, Keyed, KeyOfSession
<1> QED
  BY <1>1, PipeInvHolds, PTL

==============================================================================
