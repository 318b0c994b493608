SPECIFICATION FairSpec
CONSTANTS
  Unit <- Units
  Kind <- Kinds
  Certain = 3
  Reuse = FALSE
  NoOrder = NoOrder
  NoKind = NoKind
INVARIANTS TypeOK Tracks
PROPERTIES KeepsPromise Restores
