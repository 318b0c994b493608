CONSTANTS
  t1 = t1
  t2 = t2
  Timers = {t1, t2}
  Kind <- AllKinds
  Elapse = {1}
  Wrap = 4
SPECIFICATION FairSpec
INVARIANTS TypeOK QueuedOnce CallbackHoldsIts Exact LateBound
PROPERTIES DestroyedDeleted
