------------------------------- MODULE Orders -------------------------------
(***************************************************************************)
(* What just-in-time selection promises (the design notes at the end of    *)
(* DreamWarcraft/Packet.cpp): the program may order units about while the  *)
(* player plays, and every order reaches the units it is meant for.  Those *)
(* of the player are the units the player sees selected.                   *)
(***************************************************************************)
CONSTANTS Unit, NoOrder

VARIABLES
  ui,      (* the units the player sees selected                           *)
  order    (* the last order that units have received                      *)

Order == [by : {"player", "program"}, to : SUBSET Unit]

Init == ui = {} /\ order = NoOrder

(* The player selects, or units of the selection die, or a game ends.      *)
Selects == ui' \in SUBSET Unit /\ order' \in {order, NoOrder}

PlayerOrders ==
  /\ ui # {}
  /\ order' = [by |-> "player", to |-> ui]
  /\ UNCHANGED ui

ProgramOrders(S) ==
  /\ order' = [by |-> "program", to |-> S]
  /\ UNCHANGED ui

Next == Selects \/ PlayerOrders \/ \E S \in SUBSET Unit : ProgramOrders(S)

Spec == Init /\ [][Next]_<<ui, order>>

=============================================================================
