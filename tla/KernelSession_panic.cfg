SPECIFICATION ShortSpec
CONSTANTS
  Menu <- MenuOfParts
  Fragile <- Breakable
  Placements = 2
  Readings = {1, 2}
INVARIANT PanicLeavesTheSession
CHECK_DEADLOCK FALSE
