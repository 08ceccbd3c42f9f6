------------------------- MODULE MCLibraryAndSketch -------------------------
(***************************************************************************)
(* The sketch a part is drawn in, and the library a part is saved into.    *)
(* They have nothing to do with each other here, so one run checks them    *)
(* side by side; the initial state picks the one that moves, and for the   *)
(* sketch the tools and the bounds it moves under.                         *)
(***************************************************************************)
EXTENDS MCCatalogStore, SketchTransactions

VARIABLE work  \* "library", or what is done to the sketch

\* Lines, patterns and trims, on top of each other, are dragged and deleted.
Shaping ==
    INSTANCE SketchTransactions WITH
        Tools <- {"line", "pattern", "trim", "delete", "drag"}, Counts <- {1},
        MaxOperations <- 4, MaxPieces <- 5, MaxSketchRevision <- 5, JournalLength <- 1

\* Sizes typed over a variable that changes, with undo and redo.
Following ==
    INSTANCE SketchTransactions WITH
        Tools <- {"circle", "delete", "parameter", "undo", "variable"},
        MaxOperations <- 2, MaxPieces <- 2, JournalLength <- 1

\* Patterns of patterns, whose counts follow the variable or cannot.
Repeating ==
    INSTANCE SketchTransactions WITH
        Tools <- {"line", "pattern", "parameter", "delete", "variable"},
        MaxSketchRevision <- 4

\* Lines are joined to each other and measured from an edge of the body.
Measuring ==
    INSTANCE SketchTransactions WITH
        Tools <- {"line", "relation", "delete", "project", "undo"}, Counts <- {1},
        MaxSketchRevision <- 4

WorkInit ==
    /\ work \in {"library", "shaping", "following", "repeating", "measuring"}
    /\ StoreInit /\ SketchInit
    \* What stands still starts in one state only.
    /\ work # "library" => package = [s \in Sessions |-> CHOOSE p \in Packages : TRUE]
    /\ work \in {"library", "shaping", "measuring"} => named = 1

WorkNext ==
    \/ work = "library" /\ StoreNext /\ UNCHANGED <<sketchVars, work>>
    \/ /\ \/ work = "shaping" /\ Shaping!SketchNext
          \/ work = "following" /\ Following!SketchNext
          \/ work = "repeating" /\ Repeating!SketchNext
          \/ work = "measuring" /\ Measuring!SketchNext
       /\ UNCHANGED <<storeVars, work>>

WorkSpec == WorkInit /\ [][WorkNext]_<<storeVars, sketchVars, work>>
=============================================================================
