SPECIFICATION ForegroundSpec
CONSTANTS
    Files = {"a"}
    NoFile = "none"
    MaxDocs = 2
    MaxEdits = 5
    w1 = w1
    w2 = w2
    ui = ui
    other = other
    preview = preview
    NoKey = NoKey
    NoJob = NoJob
    Workers <- TwoWorkers
    Submitters <- OneSubmitter
    Keys <- OneKey
    Priorities <- TwoPriorities
    MaxJobs = 2
INVARIANTS
    OneOperationAtATime
    WithdrawnNeverLands
    SubmissionOrderHolds
PROPERTIES
    ConfirmedIsSettled
    EveryJobIsAnswered
    DropReturns
    KeepsItsPromise
CHECK_DEADLOCK FALSE
