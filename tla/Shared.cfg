SPECIFICATION SharedSpec
CONSTANTS
    w1 = w1
    w2 = w2
    ui = ui
    other = other
    preview = preview
    NoKey = NoKey
    NoJob = NoJob
    Workers <- TwoWorkers
    Submitters <- TwoSubmitters
    Keys <- OneKey
    Priorities <- OnePriority
    MaxJobs = 3
    Menu <- MenuOfParts
    Fragile <- Breakable
    Placements = 2
    Readings = {1, 2}
    Files = {"a"}
    NoFile = "none"
    MaxDocs = 3
    MaxEdits = 5
SYMMETRY WorkerSymmetry
INVARIANTS
    EachJobInOnePlace
    OneSurvivorPerKey
    NoLostWakeup
    HandlesTellTheTruth
    SessionIsItsJournal
PROPERTIES
    UndoAndRedoWalkALine
    ClosingAsks
CHECK_DEADLOCK FALSE
