------------------------------ MODULE MCTimer ------------------------------
(* An instance of Timer for TLC.                                           *)
EXTENDS Timer
CONSTANTS t1, t2
(* A one-shot timer as the hooks create it, another one-shot timer and a   *)
(* periodic one of GetTimer, and a one-shot timer of a script.             *)
Hook     == [timeout |-> 0, periodic |-> FALSE, auto |-> TRUE]
OneShot  == [timeout |-> 1, periodic |-> FALSE, auto |-> TRUE]
Periodic == [timeout |-> 0, periodic |-> TRUE,  auto |-> TRUE]
Script   == [timeout |-> 2, periodic |-> FALSE, auto |-> FALSE]
AllKinds == {Hook, OneShot, Periodic, Script}
=============================================================================
