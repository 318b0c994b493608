SPECIFICATION PipeFairSpec
CONSTANTS
  Game = {g1, g2}
  Revision <- Revisions
  OwnRevision = 1
  MaxPipe = 4
  MaxLogin = 2
  Early = FALSE
  None = None
CHECK_DEADLOCK FALSE
INVARIANTS PipeTypeOK Alternate KeyOfSession
PROPERTIES Settles
