SPECIFICATION Spec
CONSTANTS
  Key = {slash, key}
  Slash = slash
  Mouse = {wheel}
  Timers = {t1, t2, t3, t4}
  Null = Null
SYMMETRY Symmetry
INVARIANTS TypeOK Owned RepeatsHeld DownIsHeld
