CONSTANTS
  p1 = p1
  p2 = p2
  p3 = p3
  p4 = p4
  OSThread = {p1, p2, p3, p4}
  Worker <- GameWorker
  Caller <- Callers
  Event <- Events
  Handler <- AllHandlers
  Op <- AllOps
  Admin = TRUE
  Pace = "opened"
  MaxLogins = 1
  MaxChanges = 0
SPECIFICATION Spec
CHECK_DEADLOCK FALSE
INVARIANTS StartAssertion
