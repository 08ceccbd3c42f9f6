SPECIFICATION Background
CONSTANTS
  MaxEvents = 4
  MaxFaults = 1
  MaxPanics = 1
  Capacity = 2
  Batch = 2
  PartLimit = 2
  Tabs = {"one", "two"}
  MaxVersion = 2
  MaxSteps = 1
  MaxAttempts = 2
  Scripts = {"blank", "part", "typo"}
  Broken = {"typo"}
  Barren = {"blank"}
  Blank = "blank"
  Paths = {"file"}
  Values = {0, 1}
  MaxInputs = 6
INVARIANTS
  LogIsInOrder
  NothingAcceptedIsLost
  RefusalsAreReported
  CriticalRecordsAreFlushed
  CardTellsTheTruth
  ShownIsOfTheScript
PROPERTIES
  AcceptedReachesTheFile
  LogDropReturns
  BusyEnds
  NothingIsLostUnasked
  EditsAreShown
CHECK_DEADLOCK FALSE
