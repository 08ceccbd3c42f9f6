------------------------- MODULE MCWorkbenchAndJobs -------------------------
(***************************************************************************)
(* The scenes of MCWorkbench that are about one document at a time, and    *)
(* the job scheduler the workbench computes on, side by side: Workbench    *)
(* holds a job only as the answer that is to come (Worker), and that it    *)
(* comes is what is checked of the scheduler.                              *)
(***************************************************************************)
EXTENDS MCWorkbench, MCJobScheduler

ForegroundInit == Init /\ WorkbenchInit /\ scene \in (Scenes \ {"closing", "reopening"}) \cup {"jobs"}

ForegroundNext ==
    \/ scene = "jobs" /\ Next /\ UNCHANGED sceneVars
    \/ ScenesNext /\ UNCHANGED vars

\* WorkbenchFairness, and Fairness when it is the scheduler that moves.
ForegroundSpec ==
    /\ ForegroundInit
    /\ [][ForegroundNext]_<<vars, sceneVars>>
    /\ WorkbenchFairness
    /\ \A c \in Submitters : WF_vars(scene = "jobs" /\ (Register(c) \/ NotifyOne(c)))
    /\ \A w \in Workers : WF_vars(scene = "jobs" /\ WorkerStep(w))
    /\ WF_vars(scene = "jobs" /\ (DropNotifyAll \/ DropJoin))
=============================================================================
