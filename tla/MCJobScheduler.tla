--------------------------- MODULE MCJobScheduler ---------------------------
(* Instances of JobScheduler for TLC. *)
EXTENDS JobScheduler, TLC

CONSTANTS w1, w2, ui, other, preview

TwoWorkers == {w1, w2}
OneSubmitter == {ui}
TwoSubmitters == {ui, other}
OneKey == {preview}
\* Commit and InteractivePreview, the two levels the workbench uses.
OnePriority == {2}
TwoPriorities == {2, 3}

\* Workers are interchangeable: no invariant names one.
WorkerSymmetry == Permutations(Workers)
=============================================================================
