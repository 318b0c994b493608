CONSTANTS
  o1 = o1
  o2 = o2
  e1 = e1
  e2 = e2
  l1 = l1
  l2 = l2
  EventObject = {o1, o2}
  NoEvent = NoEvent
  EventId = {e1, e2}
  Listener = {l1, l2}
  MaxSubscriber = 1
  MaxLevel = 2
  Wrap = 8
  MaxDepth = 3
  MaxListens = 2
SPECIFICATION Spec
SYMMETRY Symmetry
INVARIANTS TypeOK OwnState LevelCounts LevelHeld Registered
