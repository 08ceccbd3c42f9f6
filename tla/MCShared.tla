------------------------------ MODULE MCShared ------------------------------
(***************************************************************************)
(* What several threads, clients or tabs share: the job scheduler, the     *)
(* kernel session of the JSON-RPC server, and the window of the workbench. *)
(* They have nothing to do with each other here, so one run checks what is *)
(* safe of them side by side; the initial state picks the one that moves.  *)
(***************************************************************************)
EXTENDS MCJobScheduler, MCSession, MCWorkbench

VARIABLE subject  \* "jobs", "kernel" or "window"

SharedInit ==
    /\ subject \in {"jobs", "kernel", "window"}
    /\ Init /\ SessionInit /\ ScenesInit
    \* What stands still starts in one state only.
    /\ subject # "kernel" => stepFile = CHOOSE content \in Readings : TRUE
    /\ scene \in IF subject = "window" THEN {"closing", "computing", "reopening"} ELSE {"closing"}

SharedNext ==
    \/ subject = "jobs" /\ Next /\ UNCHANGED <<kernelVars, sceneVars, subject>>
    \/ subject = "kernel" /\ ShortNext /\ UNCHANGED <<vars, sceneVars, subject>>
    \/ subject = "window" /\ ScenesNext /\ UNCHANGED <<vars, kernelVars, subject>>

SharedSpec == SharedInit /\ [][SharedNext]_<<vars, kernelVars, sceneVars, subject>>
=============================================================================
