---------------------------- MODULE MCKeyRepeat ----------------------------
(* An instance of KeyRepeat for TLC.                                       *)
EXTENDS KeyRepeat, TLC

(* Timers are interchangeable.                                             *)
Symmetry == Permutations(Timers)

=============================================================================
