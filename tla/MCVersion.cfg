SPECIFICATION PipeSpec
CONSTANTS
  Game = {g1, g2}
  Revision <- Revisions
  OwnRevision = 1
  MaxPipe = 2
  MaxLogin = 1
  Early = FALSE
  None = None
CHECK_DEADLOCK FALSE
INVARIANTS VersionMatches
