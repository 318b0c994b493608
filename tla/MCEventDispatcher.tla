------------------------- MODULE MCEventDispatcher -------------------------
(* Instances of EventDispatcher for TLC.                                   *)
EXTENDS EventDispatcher, TLC
CONSTANTS o1, o2, e1, e2, l1, l2
(* Event objects, ids and listeners are interchangeable.                   *)
Symmetry ==
  Permutations(EventObject) \cup Permutations(EventId) \cup Permutations(Listener)
=============================================================================
