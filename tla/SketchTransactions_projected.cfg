SPECIFICATION SketchSpec
CONSTANTS
    Counts = {1}
    Fragments = {0, 1}
    JournalLength = 2
    Tools = {"line", "relation", "delete", "project", "undo"}
    MaxOperations = 3
    MaxPieces = 4
    MaxSketchRevision = 3
INVARIANT
    ProjectionIsDeletable
