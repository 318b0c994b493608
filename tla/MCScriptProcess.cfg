SPECIFICATION FairSpec
CONSTANTS
  t1 = t1
  t2 = t2
  t3 = t3
  Thread = {t1, t2, t3}
  Length = {0, 1, 4}
  Elapse = {1, 2}
  Wrap = 5
  MaxTime = 2
INVARIANTS TypeOK Referenced SleepsOnce
PROPERTIES OnTime TickEnds
