---------------------------- MODULE ScriptStudio ----------------------------
(***************************************************************************)
(* Script Studio (apps/script-studio/src/lib.rs): one window with one      *)
(* script.  Every edit runs the script on a thread of its own; a run that  *)
(* is overtaken is cancelled and not waited for, and the answers arrive    *)
(* over one channel in any order.  Around the runs stand the files and the *)
(* prompts that ask before unsaved work is replaced.                       *)
(*                                                                         *)
(* A script is a name; what the kernel makes of it is given by Broken and  *)
(* Barren.  A run that panics is not modelled.  While the path prompt      *)
(* shows, its field takes the keyboard, so nothing is typed into the       *)
(* script.                                                                 *)
(***************************************************************************)
EXTENDS Naturals, FiniteSets

CONSTANTS
  Scripts,   \* the scripts that are typed, opened and imported
  Broken,    \* those that do not compile
  Barren,    \* those that run without building a body
  Blank,     \* the script a new window or an example holds
  Paths,     \* the files
  Values,    \* the values of the customizer; 0 is a parameter left alone
  MaxInputs  \* bound: what the user does

ASSUME StudioAssumption ==
  /\ Blank \in Scripts /\ Broken \subseteq Scripts /\ Barren \subseteq Scripts
  /\ 0 \in Values /\ Values \subseteq Nat /\ MaxInputs \in Nat

VARIABLES
  studio,      \* the script and the prompts around it: a Studio record
  files,       \* what the files hold
  auto,        \* auto_run
  generation,  \* of the latest run
  worker,      \* the generation waited for, 0 when none is
  runs,        \* the runs on their threads
  results,     \* the outcomes in the channel
  outcome,     \* what the window shows
  inputs       \* inputs so far

runVars == <<generation, worker, runs, results, outcome>>
studioVars == <<studio, files, auto, runVars, inputs>>

NoPath == "no path"
NoScript == "no script"
NoModel == <<>>

\* DiscardAction; whether a path is chosen in a dialog or typed is left open.
NoAction == [do |-> "nothing"]
Actions == {[do |-> "close"], [do |-> "replace"], [do |-> "choose"]}
             \cup {[do |-> "open", path |-> p] : p \in Paths}

Studio == [source : Scripts, saved : Scripts,  \* the script, and as last saved or loaded
           path : Paths \cup {NoPath},
           value : Values,                     \* the customizer's one parameter
           edited : BOOLEAN,                   \* last_edit is set
           requested : BOOLEAN,                \* run_requested
           prompt : {"none", "open", "save", "export", "import"},
           import : Scripts \cup {NoScript},   \* pending_import
           discard : Actions \cup {NoAction},  \* what the unsaved-changes modal asks about
           resume : Actions \cup {NoAction},   \* what waits for a save
           choice : {"none", "save", "discard"},  \* what the modal was answered last
           window : {"open", "closing", "closed"}]

Model == {NoModel} \cup (Scripts \X Values)
Outcome == [generation : Nat, script : Scripts, value : Values, model : Model,
            failed : BOOLEAN, cancelled : BOOLEAN]

StudioTypeOK ==
  /\ studio \in Studio
  /\ files \in [Paths -> Scripts]
  /\ auto \in BOOLEAN
  /\ generation \in Nat /\ worker \in {0, generation}
  /\ runs \subseteq [generation : 1..generation, script : Scripts, value : Values, cancelled : BOOLEAN]
  /\ results \subseteq Outcome /\ outcome \in Outcome
  /\ inputs \in 0..MaxInputs

StudioInit ==
  /\ studio = [source |-> Blank, saved |-> Blank, path |-> NoPath, value |-> 0,
               edited |-> FALSE, requested |-> TRUE, prompt |-> "none", import |-> NoScript,
               discard |-> NoAction, resume |-> NoAction, choice |-> "none", window |-> "open"]
  /\ files \in [Paths -> Scripts \ {Blank}]
  /\ auto = TRUE
  /\ generation = 0 /\ worker = 0 /\ runs = {} /\ results = {}
  /\ outcome = [generation |-> 0, script |-> Blank, value |-> 0, model |-> NoModel,
                failed |-> FALSE, cancelled |-> FALSE]
  /\ inputs = 0

Open == studio.window = "open"
Dirty == studio.source # studio.saved
Modal == studio.discard # NoAction
Input == Open /\ inputs < MaxInputs /\ inputs' = inputs + 1

-----------------------------------------------------------------------------
(* Editing. *)

Edit(changed) == Input /\ ~Modal /\ studio' = changed /\ UNCHANGED <<files, auto, runVars>>

Type(script) ==
  /\ studio.prompt = "none" /\ script # studio.source
  /\ Edit([studio EXCEPT !.source = script, !.edited = TRUE])

SetParameter(v) ==
  /\ v # studio.value
  /\ Edit([studio EXCEPT !.value = v, !.requested = TRUE])

\* F5 or the button.
Run == Edit([studio EXCEPT !.requested = TRUE])

ToggleAuto == Input /\ ~Modal /\ auto' = ~auto /\ UNCHANGED <<studio, files, runVars>>

-----------------------------------------------------------------------------
(* Runs. *)

Builds(r) == r.script \notin Broken \cup Barren

\* A run answers once: with what its script builds or, when it saw its token
\* set between two steps, with nothing.
Answer(r, cancelled) ==
  [generation |-> r.generation, script |-> r.script, value |-> r.value,
   model |-> IF Builds(r) /\ ~cancelled THEN <<r.script, r.value>> ELSE NoModel,
   failed |-> r.script \in Broken,
   cancelled |-> cancelled]

RunEnds(r) ==
  /\ runs' = runs \ {r}
  /\ \/ results' = results \cup {Answer(r, FALSE)}
     \/ r.cancelled /\ r.script \notin Broken /\ results' = results \cup {Answer(r, TRUE)}
  /\ UNCHANGED <<studio, files, auto, generation, worker, outcome, inputs>>

\* Mutant: any answer is taken for the current run's.
AnyAnswer(o) == worker # 0

\* The channel may also hold the answers of runs that were overtaken.
Awaited(o) == o.generation = worker

\* A run that failed before it built anything keeps the last model.
Adopted(o) == IF o.model = NoModel /\ o.failed THEN [o EXCEPT !.model = outcome.model] ELSE o

\* The channel is drained; waiting is the worker that is left.
PollWorker(waiting) ==
  /\ results' = {}
  /\ \/ (\A o \in results : ~Awaited(o)) /\ waiting = worker /\ UNCHANGED outcome
     \/ \E o \in results :
          /\ Awaited(o) /\ waiting = 0
          /\ outcome' = IF o.cancelled THEN outcome ELSE Adopted(o)

\* Mutant: an edit alone starts no run.
DueOnRequest == studio.requested

\* Asked for, or the debounce time after the last edit has passed.
Due == studio.requested \/ (auto /\ studio.edited)

\* The run waited for is cancelled; the new one takes the script as it is.
StartRun(waiting) ==
  /\ generation' = generation + 1 /\ worker' = generation + 1
  /\ runs' = {[r EXCEPT !.cancelled = @ \/ r.generation = waiting] : r \in runs}
               \cup {[generation |-> generation + 1, script |-> studio.source,
                      value |-> studio.value, cancelled |-> FALSE]}
  /\ studio' = [studio EXCEPT !.requested = FALSE, !.edited = FALSE]

\* One frame: a requested run starts in it, a debounced one may have to wait.
Tick ==
  /\ Open /\ (Due \/ results # {})
  /\ \E waiting \in {0, worker} :
       /\ PollWorker(waiting)
       /\ \/ Due /\ StartRun(waiting)
          \/ /\ ~studio.requested /\ results # {}
             /\ worker' = waiting
             /\ UNCHANGED <<generation, runs, studio>>
  /\ UNCHANGED <<files, auto, inputs>>

-----------------------------------------------------------------------------
(* Files, and what stands between an unsaved script and its replacement.   *)
(* Each operator gives the states the window s may be in afterwards.       *)

\* open_path, load_example.
Loaded(s, script, from) ==
  [s EXCEPT !.source = script, !.saved = script, !.path = from, !.value = 0,
            !.requested = TRUE]

Opened(s, p) == {Loaded(s, files[p], p), s}  \* s when the file cannot be read

\* perform: a dialog ends with a path or without one; without a dialog the
\* path is typed into the prompt.
Performed(s, action) ==
  CASE action.do = "close" -> {[s EXCEPT !.window = "closing"]}
    [] action.do = "replace" -> {Loaded(s, Blank, NoPath)}
    [] action.do = "open" -> Opened(s, action.path)
    [] action.do = "choose" -> {[s EXCEPT !.prompt = "open"], [s EXCEPT !.resume = NoAction]}
                                 \cup UNION {Opened(s, p) : p \in Paths}
    [] OTHER -> {s}

\* guard_unsaved, and the close button of the window.
Guarded(s, action) ==
  IF s.source # s.saved THEN {[s EXCEPT !.discard = action, !.choice = "none"]}
  ELSE Performed(s, action)

\* save_to: an action that waits goes ahead once the save has landed.
Landed(s, p) ==
  Performed([s EXCEPT !.saved = s.source, !.path = p, !.resume = NoAction], s.resume)

\* Mutant: what waits for the save goes ahead whether it lands or not.
SaveToAnyway(s, p) ==
  \/ files' = [files EXCEPT ![p] = s.source] /\ studio' \in Landed(s, p)
  \/ UNCHANGED files /\ studio' \in Performed([s EXCEPT !.resume = NoAction], s.resume)

SaveTo(s, p) ==
  \/ files' = [files EXCEPT ![p] = s.source] /\ studio' \in Landed(s, p)
  \/ UNCHANGED files /\ studio' = [s EXCEPT !.resume = NoAction]

\* request_path for a save: typed, chosen, or cancelled.
SaveAs(s) ==
  \/ UNCHANGED files /\ studio' \in {[s EXCEPT !.prompt = "save"], [s EXCEPT !.resume = NoAction]}
  \/ \E p \in Paths : SaveTo(s, p)

SaveScript(s) == IF s.path = NoPath THEN SaveAs(s) ELSE SaveTo(s, s.path)

Asked(do) == Input /\ do /\ UNCHANGED <<auto, runVars>>

\* The menus are there whenever the modal is not; dropped files only while
\* nothing else is asked.
AskFor(action) ==
  /\ \/ action.do = "close"
     \/ action.do \in {"replace", "choose"} /\ ~Modal
     \/ action.do = "open" /\ ~Modal /\ studio.prompt = "none" /\ studio.import = NoScript
  /\ Asked(studio' \in Guarded(studio, action) /\ UNCHANGED files)

Save == ~Modal /\ Asked(SaveScript(studio) \/ SaveAs(studio))

\* import_journal: a journal that cannot be read or decompiled offers nothing,
\* and what is offered compiles.
Imported(s) == {s} \cup {[s EXCEPT !.import = script] : script \in Scripts \ Broken}

\* The other purposes a path is asked for, without the modal; an export is
\* offered for a model only.  The path is typed into the prompt, or chosen in a
\* dialog that is cancelled or used at once.
OpenPrompt(purpose) ==
  /\ ~Modal /\ purpose = "export" => outcome.model # NoModel
  /\ Asked(/\ \/ studio' \in {[studio EXCEPT !.prompt = purpose],
                             [studio EXCEPT !.resume = NoAction]}
              \/ purpose = "export" /\ UNCHANGED studio
              \/ purpose = "import" /\ studio' \in Imported(studio)
           /\ UNCHANGED files)

\* The modal's answer.
AnswerModal ==
  /\ Modal
  /\ LET s == [studio EXCEPT !.discard = NoAction]
     IN  Asked(\/ SaveScript([s EXCEPT !.resume = studio.discard, !.choice = "save"])
               \/ /\ studio' \in Performed([s EXCEPT !.choice = "discard"], studio.discard)
                  /\ UNCHANGED files
               \/ studio' = s /\ UNCHANGED files)

\* The path prompt's answer: a path, no path, or cancelled.
AnswerPrompt ==
  /\ ~Modal /\ studio.prompt # "none"
  /\ LET s == [studio EXCEPT !.prompt = "none"]
     IN  Asked(\/ studio' \in {s, [s EXCEPT !.resume = NoAction]} /\ UNCHANGED files
               \/ \E p \in Paths :
                    \/ studio.prompt = "open" /\ studio' \in Opened(s, p) /\ UNCHANGED files
                    \/ studio.prompt = "save" /\ SaveTo(s, p)
               \/ studio.prompt = "import" /\ studio' \in Imported(s) /\ UNCHANGED files)

\* The import window's answer: the decompiled script, or the open one.
AnswerImport ==
  /\ ~Modal /\ studio.import # NoScript
  /\ LET s == [studio EXCEPT !.import = NoScript]
     IN  Asked(/\ studio' \in {s, [s EXCEPT !.source = studio.import, !.value = 0,
                                            !.requested = TRUE]}
               /\ UNCHANGED files)

\* Escape reaches all three of them.
Escape ==
  /\ Modal \/ studio.prompt # "none" \/ studio.import # NoScript
  /\ Asked(/\ studio' = [studio EXCEPT
                !.prompt = "none", !.import = NoScript, !.discard = NoAction,
                !.resume = IF studio.prompt = "none" THEN @ ELSE NoAction]
           /\ UNCHANGED files)

\* The next frame asks the window to close.
Close ==
  /\ studio.window = "closing"
  /\ studio' = [studio EXCEPT !.window = "closed"]
  /\ UNCHANGED <<files, auto, runVars, inputs>>

-----------------------------------------------------------------------------
StudioNext ==
  \/ \E script \in Scripts : Type(script)
  \/ \E v \in Values : SetParameter(v)
  \/ Run \/ ToggleAuto
  \/ \E r \in runs : RunEnds(r)
  \/ Tick
  \/ \E action \in Actions : AskFor(action)
  \/ \E purpose \in {"export", "import"} : OpenPrompt(purpose)
  \/ Save \/ AnswerModal \/ AnswerPrompt \/ AnswerImport \/ Escape
  \/ Close

\* Runs end, and a window that waits for one or owes one draws frames
\* (request_repaint, request_repaint_after).
StudioFairness == WF_studioVars(\E r \in runs : RunEnds(r)) /\ WF_studioVars(Tick)

StudioSpec == StudioInit /\ [][StudioNext]_studioVars /\ StudioFairness

-----------------------------------------------------------------------------
(* Properties. *)

\* When no run is due or awaited, the window shows the outcome of the script
\* and the parameter as they stand; and it awaits only the run asked for last.
Quiet == Open /\ worker = 0 /\ ~studio.requested /\ ~studio.edited
ShownIsOfTheScript ==
  /\ StudioTypeOK
  /\ Quiet => outcome.script = studio.source /\ outcome.value = studio.value

\* Every edit re-runs the script: one that is left alone is shown, without a
\* further input, whatever runs it overtook.
EditsAreShown ==
  \A script \in Scripts :
    (studio.source = script /\ auto) ~>
      (outcome.script = script \/ studio.source # script \/ ~auto \/ ~Open)

\* The modal is answered Don't save in this step.
DontSave == studio.choice # "discard" /\ studio'.choice = "discard"

\* The import window is answered Replace script in this step.
Pulled ==
  /\ studio.import # NoScript
  /\ studio'.import = NoScript /\ studio'.source = studio.import

SourceReplaced == studio'.source # studio.source /\ ~\E script \in Scripts : Type(script)
Kept == \E p \in Paths : files'[p] = studio.source

\* The path typed into the Open prompt replaces a script with unsaved work.
AtStake == Dirty /\ studio.prompt = "open"

LosesNothing ==
  /\ Dirty /\ (SourceReplaced \/ (Open /\ studio'.window = "closing")) =>
       \/ Kept \/ DontSave \/ Pulled
       \/ AtStake /\ studio'.prompt = "none"
  /\ ~AtStake /\ AtStake' => DontSave \/ Pulled

\* Whatever a save, a dialog, the modal and the prompts hand on to each other,
\* a script with unsaved work is replaced, or the window closed over it, only
\* by a step that leaves it in a file, by the answer Don't save, by Replace
\* script, or by the path of an Open prompt; and unsaved work comes under an
\* Open prompt only by the answer Don't save or by Replace script.  So a save
\* that was asked for and failed loses nothing.
NothingIsLostUnasked == [][LosesNothing]_studioVars

=============================================================================
