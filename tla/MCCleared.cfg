CONSTANTS
  p1 = p1
  p2 = p2
  p3 = p3
  OSThread = {p1, p2, p3}
  Worker <- AuthWorkers
  Caller <- MCCaller
  Event = {}
  Handler <- AuthHandler
  Op <- AuthOp
  AliveObject <- MCAlive
  MaxFailed = 3
  MaxLogins = 1
  Calm = TRUE
SPECIFICATION Spec
CHECK_DEADLOCK FALSE
INVARIANTS Cleared
