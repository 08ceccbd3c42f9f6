SPECIFICATION WorkSpec
CONSTANTS
    s1 = s1
    s2 = s2
    s3 = s3
    x = x
    y = y
    Sessions <- ThreeSessions
    Contents <- TwoContents
    MaxRevision = 2
    Counts = {1, 2}
    Fragments = {0, 1}
    JournalLength = 2
    Tools = {}
    MaxOperations = 3
    MaxPieces = 4
    MaxSketchRevision = 3
SYMMETRY Symmetry
INVARIANTS
    ReferencesNeverDangle
    ListedPartsResolve
    StagedOnThePresent
    NamesMeanOneThing
    ReplayChangesNothing
    LinkedValuesFollow
PROPERTIES
    KeepsTheLibrary
