CONSTANTS
  p1 = p1
  p2 = p2
  p3 = p3
  p4 = p4
  OSThread = {p1, p2, p3, p4}
  Worker <- GameWorker
  Caller <- Callers
  Event <- Events
  Handler <- AllHandlers
  Op <- AllOps
  Admin = TRUE
  Pace = "idle"
  MaxLogins = 2
  MaxChanges = 3
SPECIFICATION FairSpec
CHECK_DEADLOCK FALSE
INVARIANTS TypeOK AtRest Assertions RunHeeded ThreadBacked
PROPERTIES StateCycle StopCompletes LockEnds
