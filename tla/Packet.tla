------------------------------- MODULE Packet -------------------------------
(***************************************************************************)
(* Just-in-time selection (DreamWarcraft/Packet.cpp): an order goes to the *)
(* units that are selected in the game all players share.  To order other  *)
(* units than the player's, the program selects them with packets of its   *)
(* own, which the player does not see, and selects the player's again when *)
(* the player gives an order, or after a while.  In between it drops the   *)
(* packets of what the player selects.                                     *)
(*                                                                         *)
(* External: the game, with the selection its packets make (sel, sub) and  *)
(* the one it displays (ui, shown).  Everything runs on its main thread.   *)
(***************************************************************************)
EXTENDS Integers, FiniteSets

CONSTANTS
  Unit,      (* units, by address                                          *)
  Kind,      (* the kind of each unit; a subgroup is the units of a kind   *)
  Certain,   (* expiries of the timer after which it selects back (12)     *)
  Reuse,     (* whether a new unit may get the address of a unit that died *)
             (* while the program had it selected                          *)
  NoOrder, NoKind

ASSUME PacketAssumption ==
  /\ DOMAIN Kind = Unit
  /\ Certain \in Nat \ {0}
  /\ Reuse \in BOOLEAN
  /\ NoOrder \notin
       [by : {"player", "program"}, to : SUBSET Unit,
        sub : {Kind[u] : u \in Unit} \cup {NoKind},
        shown : {Kind[u] : u \in Unit} \cup {NoKind}]

VARIABLES
  alive,    (* the units there are                                         *)
  ui,       (* the units displayed as selected (SelectedUnitGet)           *)
  shown,    (* the kind of the subgroup displayed (ActiveSubgroupGet)      *)
  jit,      (* the program's state and the selection of the game           *)
  order     (* history: the last order, the units selected for it, their   *)
            (* subgroup and the one displayed                              *)

vars == <<alive, ui, shown, jit, order>>

KindOf == {Kind[u] : u \in Unit} \cup {NoKind}
KindsIn(S) == IF S = {} THEN {NoKind} ELSE {Kind[u] : u \in S}

Jit == [on : BOOLEAN,            (* ActionProcessing                       *)
        current : SUBSET Unit,   (* JustInTimeSelection                    *)
        tries : 0..Certain,      (* what JITSelectBackChanceCurrent counts *)
        sel : SUBSET Unit,       (* the selection in the game ...          *)
        sub : KindOf]            (* ... and its subgroup                   *)

Init ==
  /\ alive \in SUBSET Unit
  /\ ui = {} /\ shown = NoKind
  /\ jit = [on |-> FALSE, current |-> {}, tries |-> 0, sel |-> {}, sub |-> NoKind]
  /\ order = NoOrder

-----------------------------------------------------------------------------
(* The steps of the design notes, on the state j.                          *)

State(on, current, tries, sel, sub) ==
  [on |-> on, current |-> current, tries |-> tries, sel |-> sel, sub |-> sub]

(* The game selects S.                                                     *)
Selected(j, S, k) == State(j.on, j.current, j.tries, S, k)

(* 2, 3, 5 and 6: deselect current, select S, refresh, switch subgroup.    *)
SwitchTo(j, S, k) ==
  State(j.on, S, j.tries,
        (j.sel \ j.current) \cup (S \cap alive), IF S = {} THEN j.sub ELSE k)

(* begin() of a std::set: which unit that is depends on nothing but the set.*)
First(S) == CHOOSE u \in S : TRUE

(* 1: if not processing, current <- the selection displayed.               *)
Begin(j) ==
  State(TRUE, IF j.on THEN j.current ELSE j.current \cup ui, 0, j.sel, j.sub)

JitSelect(j, S) ==
  LET b == Begin(j)
  IN  IF b.current = S THEN b ELSE SwitchTo(b, S, Kind[First(S)])

(* 7: current <- empty, no longer processing.                              *)
Clear(j) == State(FALSE, {}, 0, j.sel, j.sub)

(* Mutation: the units of the program stay selected.                       *)
SelectBackAdds(j) ==
  Clear(IF j.current = ui THEN j ELSE Selected(j, j.sel \cup ui, shown))

(* 5, 6, 7.                                                                *)
SelectBack(j) == Clear(IF j.current = ui THEN j ELSE SwitchTo(j, ui, shown))

(* The player's order: 5.a.                                                *)
BeforeAction(j) == IF j.on THEN SelectBack(j) ELSE j

Ordered(by, j) ==
  order' = [by |-> by, to |-> j.sel, sub |-> j.sub, shown |-> shown]

-----------------------------------------------------------------------------
(* The player.                                                             *)

(* What is displayed changes, and the game sends packets that select the   *)
(* same (0x16, 0x1A, 0x19), which are dropped while the program's          *)
(* selection is on (5.c).                                                  *)
Display(S, k) ==
  /\ ui' = S /\ shown' = k
  /\ jit' = IF jit.on THEN jit ELSE Selected(jit, S, k)

PlayerSelects ==
  /\ \E S \in SUBSET alive : \E k \in KindsIn(S) : Display(S, k)
  /\ UNCHANGED <<alive, order>>

(* The next subgroup is displayed, with the packet 0x19.                   *)
Tab ==
  /\ \E k \in KindsIn(ui) : Display(ui, k)
  /\ UNCHANGED <<alive, order>>

(* The packet 0x18 selects the whole of a group: 5.b.                      *)
RecallGroup ==
  /\ \E S \in SUBSET alive \ {{}} : \E k \in KindsIn(S) :
       /\ ui' = S /\ shown' = k
       /\ jit' = Selected(Clear(jit), S, k)
  /\ UNCHANGED <<alive, order>>

PlayerActs ==
  /\ ui # {}
  /\ jit' = BeforeAction(jit)
  /\ Ordered("player", jit')
  /\ UNCHANGED <<alive, ui, shown>>

(* Escape, a submenu, and orders that a listener destroys (LastHit).       *)
PlayerActsElse ==
  /\ jit' = BeforeAction(jit)
  /\ UNCHANGED <<alive, ui, shown, order>>

-----------------------------------------------------------------------------
(* The program.                                                            *)

(* UnitGroup::sendAction for the units S of a group, selecting back at     *)
(* once or later.  A group of dead units has the empty set of units.       *)
ProgramActs ==
  /\ \E S \in SUBSET alive : \E useJIT \in BOOLEAN :
       LET j == JitSelect(jit, S)
       IN  Ordered("program", j) /\ jit' = IF useJIT THEN j ELSE SelectBack(j)
  /\ UNCHANGED <<alive, ui, shown>>

(* The player's order to attack a unit of the player's own is destroyed,   *)
(* after 5.a, and sent by the program (SmartDeny).                         *)
Deny ==
  /\ ui # {}
  /\ jit' = JitSelect(BeforeAction(jit), ui)
  /\ Ordered("program", jit')
  /\ UNCHANGED <<alive, ui, shown>>

(* DirectionMove sends orders to the one unit selected as if the player    *)
(* did: 5.a is executed between the selection and the order.               *)
DirectionMove ==
  /\ Cardinality(ui) = 1
  /\ jit' = BeforeAction(JitSelect(jit, ui))
  /\ Ordered("player", jit')
  /\ UNCHANGED <<alive, ui, shown>>

(* Mutation: the chance grows beyond certainty.                            *)
TimerExpiresNever ==
  /\ jit.on
  /\ jit' = [jit EXCEPT !.tries = @ + 1]
  /\ UNCHANGED <<alive, ui, shown, order>>

(* Mutation: the chance starts again each time.                            *)
TimerExpiresAnew ==
  /\ jit.on
  /\ \/ jit' = SelectBack(jit)
     \/ jit' = [jit EXCEPT !.tries = 1 - @]
  /\ UNCHANGED <<alive, ui, shown, order>>

(* JITSelectBackTimerFunc: with a chance that grows until it is certain.   *)
TimerExpires ==
  /\ jit.on
  /\ \/ jit' = SelectBack(jit)
     \/ jit.tries + 1 < Certain /\ jit' = [jit EXCEPT !.tries = @ + 1]
  /\ UNCHANGED <<alive, ui, shown, order>>

-----------------------------------------------------------------------------
(* Units and games.                                                        *)

(* A unit that dies is deselected in the game and on the display; the next *)
(* subgroup is displayed when it was the last of its kind.                 *)
Dies ==
  /\ \E u \in alive :
       /\ alive' = alive \ {u}
       /\ ui' = ui \ {u}
       /\ shown' \in IF shown \in KindsIn(ui') THEN {shown} ELSE KindsIn(ui')
       /\ jit' = Selected(jit, jit.sel \ {u}, IF jit.on THEN jit.sub ELSE shown')
  /\ UNCHANGED order

Created ==
  /\ \E u \in Unit \ alive :
       /\ Reuse \/ u \notin jit.current
       /\ alive' = alive \cup {u}
  /\ UNCHANGED <<ui, shown, jit, order>>

(* Mutation: the end of a game does not clear.                             *)
CleanupMissing(j) == j

(* Packet_Cleanup.                                                         *)
Cleanup(j) == Clear(j)

NewGame ==
  /\ alive' \in SUBSET Unit
  /\ ui' = {} /\ shown' = NoKind
  /\ jit' = Selected(Cleanup(jit), {}, NoKind)
  /\ order' = NoOrder

-----------------------------------------------------------------------------
Next ==
  \/ PlayerSelects \/ Tab \/ RecallGroup \/ PlayerActs \/ PlayerActsElse
  \/ ProgramActs \/ Deny \/ DirectionMove \/ TimerExpires
  \/ Dies \/ Created \/ NewGame

Spec == Init /\ [][Next]_vars

(* The timer runs as long as the game does.                                *)
FairSpec == Spec /\ WF_vars(TimerExpires)

-----------------------------------------------------------------------------
(* Properties.                                                             *)

(* Every variable has its type (Packet.cpp 10-19, 104).                    *)
TypeOK ==
  /\ alive \in SUBSET Unit
  /\ ui \in SUBSET alive /\ shown \in KindsIn(ui)
  /\ jit \in Jit
  /\ order \in {NoOrder} \cup
       [by : {"player", "program"}, to : SUBSET Unit, sub : KindOf, shown : KindOf]

(* "While the selection displayed and the true one differ, current records *)
(* the true one" (466): else deselecting it would leave units selected.    *)
(* At all other times they do not differ, whatever was dropped before.     *)
Tracks ==
  IF jit.on THEN jit.sel = jit.current \cap alive
            ELSE jit.sel = ui /\ jit.current = {}

(* Every order reaches the units it is meant for: the player's those       *)
(* displayed as selected, the program's those it was sent for.             *)
Promise == INSTANCE Orders WITH
  order <- IF order = NoOrder THEN NoOrder ELSE [by |-> order.by, to |-> order.to]
KeepsPromise == Promise!Spec

(* The selection the player sees becomes the true one again (460), once    *)
(* the program has stopped sending orders.                                 *)
Sends == ProgramActs \/ Deny
Restores == []<><<Sends>>_vars \/ (jit.on ~> ~jit.on)

(* "The selection and the subgroup displayed always correspond to the      *)
(* state of selection shown, and so entirely to what the player has in     *)
(* mind" (462): an order of the player goes to the subgroup displayed.     *)
SubgroupFollows ==
  order # NoOrder /\ order.by = "player" => order.sub = order.shown

=============================================================================
