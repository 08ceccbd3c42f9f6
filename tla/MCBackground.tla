---------------------------- MODULE MCBackground ----------------------------
(***************************************************************************)
(* The threads that work behind a window, each on its own: the writer of   *)
(* the development log, the updaters of two tabs, and the runs and the     *)
(* prompts of Script Studio.  They share nothing, so one run checks them   *)
(* side by side; the initial state picks the one that moves.               *)
(***************************************************************************)
EXTENDS DevelopmentLog, UpdateService, ScriptStudio

VARIABLE subject  \* "log", "updates", "runs" or "prompts"

\* Bound: inputs that overtake the runs.
HastyInputs == 3

\* The user edits, and asks for anything, whatever runs are on their way.
Hasty == StudioNext /\ inputs' <= HastyInputs

\* The user leaves the parameter and the buttons alone and waits for the runs,
\* which leaves MaxInputs inputs to the files and the prompts.
Patient ==
  \/ Tick \/ Close \/ \E r \in runs : RunEnds(r)
  \/ /\ Quiet
     /\ \/ \E script \in Scripts : Type(script)
        \/ \E action \in Actions : AskFor(action)
        \/ \E purpose \in {"export", "import"} : OpenPrompt(purpose)
        \/ Save \/ AnswerModal \/ AnswerPrompt \/ AnswerImport \/ Escape

BackgroundInit ==
  /\ subject \in {"log", "updates", "runs", "prompts"}
  /\ LogInit /\ UpdateInit /\ StudioInit
  \* What stands still starts in one state only.
  /\ subject # "updates" => feed = 0 /\ front = CHOOSE t \in Tabs : TRUE
  /\ subject \notin {"runs", "prompts"} => \A p, q \in Paths : files[p] = "part"

BackgroundNext ==
  \/ subject = "log" /\ LogNext /\ UNCHANGED <<updateVars, studioVars, subject>>
  \/ subject = "updates" /\ UpdateNext /\ UNCHANGED <<logVars, studioVars, subject>>
  \/ /\ \/ subject = "runs" /\ Hasty
        \/ subject = "prompts" /\ Patient
     /\ UNCHANGED <<logVars, updateVars, subject>>

\* LogFairness, UpdateFairness and StudioFairness, of the one that moves.
Background ==
  /\ BackgroundInit /\ [][BackgroundNext]_<<logVars, updateVars, studioVars, subject>>
  /\ WF_logVars(subject = "log" /\ WriterStep)
  /\ WF_logVars(subject = "log" /\ Join)
  /\ WF_updateVars(subject = "updates" /\ \E k \in threads : CheckEnds(k) \/ DownloadEnds(k))
  /\ \A t \in Tabs : WF_updateVars(subject = "updates" /\ Poll(t))
  /\ WF_studioVars(subject \in {"runs", "prompts"} /\ \E r \in runs : RunEnds(r))
  /\ WF_studioVars(subject \in {"runs", "prompts"} /\ Tick)
=============================================================================
