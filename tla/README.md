# A verification project for Artificer

Artificer is a parametric CAD workbench in Rust: a desktop program (egui), a
geometry kernel, a document that remembers how every body was made, a catalogue
of parts, background solvers and a scripting studio. This directory holds TLA+
models of the parts whose correctness is a matter of *order*: which call comes
after which, which thread gets there first, what an undo, a refused change or a
failed rebuild leaves behind. The geometry itself is numerical and is not
modelled; what a kernel operation *builds* is represented by its name.

Paths below are relative to `src/`.

Contents

1. [Inventory](#1-inventory)
2. [What makes this program hard](#2-what-makes-this-program-hard)
3. [The modules](#3-the-modules)
4. [The job scheduler](#4-the-job-scheduler)
5. [The workbench window](#5-the-workbench-window)
6. [The document](#6-the-document)
7. [The part catalogue](#7-the-part-catalogue)
8. [Sketches and their canvas](#8-sketches-and-their-canvas)
9. [The kernel session](#9-the-kernel-session)
10. [In the background: log, updates, scripts](#10-in-the-background-log-updates-scripts)
11. [The runs](#11-the-runs)
12. [Where the program and its documents disagree](#12-where-the-program-and-its-documents-disagree)
13. [What is proved](#13-what-is-proved)
14. [What is only model-checked, and what is not modelled](#14-what-is-only-model-checked-and-what-is-not-modelled)
15. [Plan](#15-plan)
16. [Running it](#16-running-it)

---

## 1. Inventory

| Component | State | Operations | Correct when | Model |
|---|---|---|---|---|
| Job scheduler, `crates/compute/src/lib.rs` | a heap of jobs, the last cancellation token per key, a stop flag, all under one mutex; a token and a result channel per job | `submit`, `cancel`, `try_take`/`wait`, the workers' loop, `Drop` | no job lost or run twice; a keyed job supersedes the older ones; every handle is answered; `Drop` returns | `JobScheduler`, `JobPromise` |
| Document, `crates/model/src/lib.rs` | the ordered feature timeline with dependencies, dirty and suppression marks and cached kernel results; bodies, sketches, branch heads; the history cursor; identity allocators; a wrapping revision; two bounded journals | append, remove a plane, edit a recipe or a sketch payload, suppress, hide, move the cursor, undo, redo, set the limit, save and load | identities never reused; nothing clean is out of date; what was saved loads again; undo and redo walk along one line | `DocumentState`, `ModelDocument`, `EditHistory` |
| Rebuild transactions, same file | a plan made from one state, the results recorded so far, a failure | plan, record a success or a failure, commit, roll back | all or nothing; refused when anything changed since the plan; branch heads are what a full replay builds | `ModelDocument` |
| Variables and sketches that follow them, `crates/model/src/parameters.rs`, `apps/workbench/src/sketch_links.rs` | bindings, expressions, which sketch dimensions follow | bind, follow, abandon | a variable and its followers change together, and one undo takes back both | `ModelDocument` (one variable) |
| Tabs and closing, `apps/workbench/src/documents.rs` | open documents, the active one, a prompt | open, close, ask, save and close | nothing unsaved closes unasked | `Workbench` |
| Pending operations and the background extrusion, `apps/workbench/src/lib.rs` | one staged operation, one extrusion computed by a job, one document to open, a file | stage, confirm, cancel, poll, undo, scrub, save, open | one operation at a time; a withdrawn one never lands; a confirmed one is applied or refused | `Workbench` (composed with the scheduler in `MCWorkbenchAndJobs`) |
| Document session of the workbench, `apps/workbench/src/{lib,document_replay}.rs` | the kernel snapshots in memory, the pending rebuild | drive a rebuild, restore the runtime after undo, open a file by replay | every attached snapshot is in memory; every dirty branch is rebuilt; a file that was saved opens | the driver's use of a plan in `ModelDocument`; the rest is not modelled |
| Development log, `apps/workbench/src/development_log.rs` | a bounded channel, a count of drops, a buffered, rotating file, an incident file | record, write, rotate, flush, finish, panic | accepted events are written in order, drops are counted once, dropping the recorder returns | `DevelopmentLog` |
| Update service, `apps/workbench/src/update.rs` | a status and a channel for every tab, threads | check, download, apply, poll | the card is busy exactly while an answer is under way, and offers what was fetched | `UpdateService` |
| Script Studio, `apps/script-studio/src/lib.rs` | a script, its runs and their generations, files and prompts | type, run, adopt, open, save, ask | only the newest run is shown; nothing unsaved is replaced unasked | `ScriptStudio` |
| Part catalogue, `crates/catalog/src/store.rs` | content-addressed objects, references, previews on disk; an index in memory | publish, rebuild the index, preview | a revision is immutable; a crash leaves no dangling reference; what an index lists resolves | `CatalogStore`, `PartLibrary` (previews are not modelled) |
| Kernel session and server, `crates/kernel/src/api/` | labelled steps, a journal, undo and redo, a lock | JSON-RPC requests, patterns, undo, redo, reset | the session is what its journal builds, whatever failed half-way | `KernelSession` |
| Sketch transactions and canvas, `crates/sketch/src/{transaction,definition}.rs`, `crates/sketch-ui/src/lib.rs` | operations, the pieces they drew, relations, links to a variable; an edit at the gate; a bounded journal | stage, append, confirm, cancel, drag, project, undo, redo, follow | an edit is committed on the sketch it was staged on; a name means one thing for ever; what follows the variable is current | `SketchTransactions` |
| Components, joints, kinematics, `crates/model/src/{components,assembly,kinematics}.rs` | instances, joint edges, grounding, poses | insert, ground, join, move | the joints form a forest | not modelled yet (planned) |
| Kernel geometry, sketch solver, FEM, CAM, STEP, viewport, scan add-on | numbers | | | not modelled: numerical or pure |

**How they interact.** One UI thread owns every document. It stages a *pending
operation*; confirming it runs a kernel command, either inline or as a job of the
*scheduler*, whose answer is polled on later frames. A confirmed command becomes
a feature of the *document* with the kernel result attached. Editing an earlier
feature or a variable marks features dirty; the *session* asks the document for a
rebuild plan, executes it step by step on the kernel, and commits the results or
rolls back. Undo and redo swap whole documents, and the session then restores
its kernel snapshots from the attached results. Saving serialises the present;
loading validates it and replays the features to get the snapshots back. A sketch
is edited on a canvas of its own, which stages a candidate, commits it under a
revision, and follows the variables of the document. Beside the UI thread stand
the scheduler's workers, the log's writer, an updater's threads per tab, the runs
of Script Studio, and the kernel server's clients.

## 2. What makes this program hard

`PROJECT.json` lists every hazard at its line. In short:

* **Interleavings** in the scheduler: ids are drawn before the lock, the
  notification is sent after it, a token can be set between a worker's last check
  and its send, and `Drop` races all of it.
* **Stale state** in the document: a rebuild is planned on one state and
  committed on another, with edits and undos between, and the revision counter
  wraps. Cached results stay on features that are rolled back, suppressed or
  detached, and later plans read them, or pass over a feature that came since. On the canvas, an edit is told from
  another by a revision that undo takes back and later edits give out again.
* **Late answers**: an extrusion that was computed while the user cancelled it,
  undid, opened another file or closed the tab; a script run that was overtaken;
  a progress report behind the download's own answer.
* **Long sequences of legal calls**: suppress, rebuild, restore; edit behind
  the cursor, rebuild later features in another order; delete the plane the
  cursor names, then undo.
* **Partial failure**: the third of four following sketches refuses the new
  value of a variable; a rebuild stops at a step; a job panics; a feature pattern
  is refused, or panics, after some of its instances were built.
* **Crashes and races** in the catalogue: a process may end, or a call fail,
  between any two of the file operations that publish a part, and another
  process may publish the same revision meanwhile.
* **Bounds**: journals with a limit that can shrink, allocators that must never
  hand out an identity an undone state still uses, a log channel that drops.

## 3. The modules

| Module | What it is |
|---|---|
| `JobScheduler` | the scheduler: submitters, workers, handles and the dropping owner, one action per critical section or atomic step |
| `JobPromise` | what a handle's holder may rely on; no threads, heap, lock or channel |
| `DocumentState` | the document as a value: the pure functions its operations are made of |
| `ModelDocument` | the document as a state machine: one action per operation, journals, allocators, revision, rebuild transactions |
| `EditHistory` | what undo and redo promise: a place on a line of states |
| `Workbench` | the window: tabs and prompts, and in every tab one operation, one background extrusion, one document to open, one file |
| `CatalogStore` | the part library on disk and the sessions that save into it, one action per file operation |
| `PartLibrary` | a write-once library; no files, links or indexes |
| `KernelSession` | the session behind the JSON-RPC server, one action per request |
| `SketchTransactions` | a sketch as a replayed list of operations, and the canvas that edits it |
| `DevelopmentLog` | the recorder: producer, channel, writer thread, files, panics and crashes |
| `UpdateService` | the updaters of all tabs, their threads and channels |
| `ScriptStudio` | one window with one script, its runs, files and prompts |
| `MCJobScheduler`, `MCSession`, `MCWorkbench`, `MCModelDocument`, `MCCatalogStore` | values, scenes and menus for TLC |
| `MCShared`, `MCWorkbenchAndJobs`, `MCDocumentScenarios`, `MCLibraryAndSketch`, `MCBackground` | components side by side in one run; the initial state picks the one that moves |
| `PrefixTheorems` | induction and recursion along the prefixes of a sequence, stated with sets so that the provers can use them |
| `JobScheduler_proofs` | the scheduler: types, four safety invariants, the refinement of `JobPromise` |
| `ModelDocument_proofs` | the document: journals, the refinement of `EditHistory`, identities and cursors, types, clean features |
| `Workbench_proofs` | the window: types, one operation at a time, withdrawn work, closing |
| `CatalogStore_proofs` | the library: types, two safety invariants, the refinement of `PartLibrary` |
| `SketchTransactions_proofs` | the canvas |
| `Background_proofs` | the log, the updaters and Script Studio |
| `KernelSession_proofs` | the session is what its journal builds; undo and redo walk one line |

`DocumentState` declares no variable, so that later modules act on the same
values. No module uses a `RECURSIVE` operator: prefix computations (`Heads`,
`Downstream`, `Drained`, `Counted`, …) are functions over `0..n`, which keeps
all of them within reach of the proofs.

Components that share nothing are checked in one run, side by side: a variable
`subject` is chosen in the initial state and only that component moves, while the
others stand still in one state. The run explores the sum of their states, never
the product, and every property speaks of its own component.

Mutated forms of an operator (`MustWaitUntested`, `PushUnbounded`, …) stand
before the operator they change, under a comment "Mutant". They are not part of
the specification; each shows that a property would notice a plausible mistake.

## 4. The job scheduler

### Correspondence

`crates/compute/src/lib.rs` 246–511. What the code does while it holds the mutex
is one action; every step outside it is an action of its own.

| Code | Model |
|---|---|
| `submit`: draw an id (atomic), lock, register under the key, push, unlock, notify | `AllocateId`, `Register`, `NotifyOne` |
| `worker_loop`: lock, wait while empty and not stopped, leave or pop | `Wait`, `SpuriousWakeup`, `Exit`, `Pop` |
| the action built by `submit`: check the token, run under `catch_unwind`, check again, send | `SkipCancelled` / `StartOperation`, `OperationReturns` / `OperationPanics`, `FinalCheck`, `Send` |
| `JobHandle::cancel`, `CancellationToken::cancel` | `Cancel` |
| `Drop for SchedulerInner`: stop, cancel every token of the map, clear the heap; notify all; join | `DropStop`, `DropNotifyAll`, `DropJoin` |
| `JobHandle::try_take`, `wait` | `HandleReads` on `channel` |

A job and its token share one name, because every job owns exactly one token.
Clearing the heap destroys the closures and with them the senders: `channel`
becomes `closed` and the handle reads `SchedulerStopped`. `NotifyOne` wakes any
one waiting worker or, if there is none, nobody: that is where wakeups could be
lost. Left out: times, thread names, the number of workers a machine gets, and
reading the same handle twice after its value was taken.

### What is checked

* In `Shared` (2 workers, 2 submitters, 3 jobs, 1 key, 1 priority):
  `EachJobInOnePlace`, `OneSurvivorPerKey`, `NoLostWakeup`, `HandlesTellTheTruth`
  in every interleaving.
* In `Workbench` (2 workers, 1 submitter, 2 jobs, 1 key, 2 priorities, with
  fairness): `SubmissionOrderHolds`, `EveryJobIsAnswered`, `DropReturns` and the
  refinement `KeepsItsPromise`.

`SubmissionOrderHolds` is `SurvivorIsNewest` (the job of a key that is not
cancelled is the one submitted last) and `NoOvertaking` (of two jobs of one
priority the older is taken first). Both need one submitting thread, because ids
are drawn before the lock: with two, an older id may register later and cancel the
newer job. The workbench submits from its UI thread only
(`apps/workbench/src/lib.rs` 11707, 11860, 12893, 13849 and the panels for
statics, motion, topology and heat), which is the instance of the run.

`KeepsItsPromise` is a refinement. `JobPromise` cancels *all* earlier jobs of a
key when a new one registers and all keyed jobs when it closes, whereas the code
reaches only the last token per key. That these come to the same thing is the
invariant `OneSurvivorPerKey`, and a step-by-step check of the refinement is how
one sees it. It also says that an answer is final, that a job cancelled in the
queue never runs, and that nothing is published of a cancelled one.

**Why the bounds are enough.** Three jobs under one key make a chain of two
replacements, which is where a map that forgets or keeps the wrong token shows;
the properties of the live run speak of two jobs at a time. Two workers and one
waiting submitter make every pattern of "one asleep, one about to take the lock"
that a lost wakeup needs. A fourth job adds a longer queue, no new relation
between two jobs and a worker. The safety properties and the refinement are
proved for any numbers.

**Fairness.** A thread that is inside a call or a loop keeps being scheduled (weak
fairness of each worker's step, of the steps of `submit` after its first and of
`Drop` after its first), and operations terminate. Nobody is obliged to submit,
to cancel or to drop. Workers may be woken spuriously at any time but need not
be. Without the assumption that operations return, no job need ever be answered:
the real ones poll their token.

## 5. The workbench window

### Correspondence

`apps/workbench/src/documents.rs` (the shell around the tabs) and the part of
`apps/workbench/src/lib.rs` that stages, confirms, cancels, saves and opens. An
action is one input of the user, one frame's poll, or the worker finishing.

| Code | Model |
|---|---|
| `open_document`, `activate`, `request_close`, `intercept_window_close` | `OpenTab`, `Activate`, `RequestClose`, `CloseWindow`, `WindowGoes` |
| `close_prompt_window`, `save_for_close`, `carry_out_close` | `DrawPrompt`, `AnswerSave`, `AnswerDiscard`, `AnswerCancel` |
| `stage_sketch_extrusion`, `begin_extrusion_edit` | `StageExtrusion`, `StageEdit` |
| `confirm_pending_operation`: an extrusion, an edit, a document to open | `ConfirmExtrusion`, `ConfirmEdit`, `ConfirmOpen` |
| `cancel_pending_operation`, `cancel_async_sketch_extrusion_commit` | `CancelOperation`, `Withdrawn` |
| the kernel on a worker; `poll_async_sketch_extrusion_commit` | `Compute`, `Poll` |
| `set_body_visibility`, `move_history_cursor`, `undo_document`, `redo_document` | `Hide`, `Scrub`, `Undo`, `Redo` |
| `save_document_to`, `open_document_with_dialog`, the path prompt, the unsaved-changes prompt | `Save`, `Open`, `TypePath`, `AcceptPath`, `DismissPath`, `AnswerOpen` |

A document is its features, its cursor and whether its body is hidden: enough to
tell one content from another, which is what saving, closing and applying late
answers are about. Its own rules are those of section 6. Which inputs the user
has is part of the model: a modal prompt takes the pointer (`Pointer`) but not
always the keyboard (`Keyboard`), and each tab has one pending operation.

Four fields of a document are history: what its file was last given (`kept`),
what the user said not to save (`answered`), whether an open was staged over an
operation (`overtaken`), and the extrusions taken back (`withdrawn`).

### What is checked

* `ClosingAsks` (in `Shared`): every step by which a document leaves the window
  leaves it holding what its file was given or what the user, asked about that
  very document, gave up.
* `OneOperationAtATime`, `WithdrawnNeverLands`, `ConfirmedIsSettled` (in
  `Workbench`): what is computed is what is staged, on the features it was staged
  on; an extrusion taken back is in no present, undone or redone state and in no
  file; a confirmed one is applied, refused or taken back in the end.

The user's freedom is cut into scenes, each a subset of the inputs that belong
together (tabs and prompts; computing in two tabs; opening over an operation;
undoing; saving and reopening), because all of them at once are out of reach. The
initial state picks the scene.

**Why the bounds are enough.** Three tabs make "the tab before", "the tab asked
about" and "the tab in front" three documents. One file suffices for "saved
here", "saved elsewhere" and "opened over". A budget of edits per scene (`MaxEdits`
= 5, less in larger scenes) leaves room for an edit before, one being computed, one
after, and their undoing. The safety properties are proved for any numbers.

**Fairness.** A frame polls every document (`Poll`), and the worker finishes what
it computes (`Worker(d)`). The user owes nothing.

## 6. The document

### Correspondence

A document `d` is a record: `features` (the timeline), `bodies`, `sketches`,
`variable`, `cursor`, `head`. A feature carries what the code's node carries that
control depends on: identity, kind, recipe, inputs, the body it makes or the
sketch it draws, dependencies, `suppressed`, `dirty`, and the kernel result
attached to it (`commit`: an input and an output snapshot).

* **Snapshots.** The kernel is content-addressed: a snapshot identity is the
  digest of what was built. Here it *is* the sequence of operations that built
  it. Two snapshots are equal exactly when the same operations produced them, so
  "is this body what the recipes build?" is a comparison of values.
* **Recipes, payloads, values** are small numbers.
* **Branches.** A body's branch is the features that act on it in timeline order.
  `Heads` folds the active prefix as `reconcile_active_object_state` does: a
  feature's result counts only when its input is the head of its branch
  (*attached*).

| Code in `crates/model/src/lib.rs` | Model |
|---|---|
| `append_feature` (1686–2101) | `AppendCommitted`, `AppendDirty`, `NodeOf`, `Appended`, `AllocatedAfter` |
| `remove_construction_feature` | `RemovePlane` |
| `set_history_position`, `set_history_cursor` | `SetHistoryPosition` |
| `replace_feature_action`, `set_feature_suppressed` | `ReplaceAction`, `SetSuppressed` |
| `replace_sketch_payload`, `install_sketch_payload` | `ReplacePayload`, `Installed` |
| `auto_hide_sketch_consumed_by`, `set_sketch_visible` | `AutoHide`, `SetSketchVisible` |
| `set_parameter_binding`; `follow_variables` and its caller in the workbench | `SetVariable`; `FollowVariable` once per sketch, `AbandonLastEdit` |
| `undo`, `redo`, `set_undo_limit`, `push_bounded`, `trim_front` | `Undo`, `Redo`, `SetUndoLimit`, `PushBounded`, `TrimFront` |
| `plan_rebuild_from`, `RebuildTransaction`, `commit_rebuild` | `BeginRebuild`, `RecordSuccess`, `RecordFailure`, `CommitRebuild`, `DropRebuild` |
| `to_native`, `from_native`, `validate_loaded_state` | `Reopen`, `Loads` |

`CallerInput` and `CallerTool` are what the rebuild driver of the workbench
(`apps/workbench/src/lib.rs` 7050, 7324) hands the kernel for a step.

Two helpers carry the bookkeeping of every operation. `Edit` is
`finish_user_edit`: a checkpoint on the undo journal, the redo journal cleared,
the revision bumped, a pending plan left to fail. `Amend` replaces the present
without a checkpoint, which is what a committed rebuild and a followed sketch do.
The revision wraps at `Revisions`, as the code's returns to zero at its maximum.

The handler of a variable is the one operation with steps that can fail half-way,
so it is a sequence of actions: `following` holds the sketches still to come and
no other call is admitted until it is empty.

### What is checked

Nobody is obliged to call the document: it may stop in any state, so deadlock is
not checked and there is no fairness. `ModelDocument_scenarios` is one run of four
scenes, each with the calls and the timeline (`Drafts`) its questions need:

| Scene | Timeline and calls | Aimed at |
|---|---|---|
| rebuilding | sketch, extrusion, later feature; append, recipes, payloads, rebuild, reopen | `SettledIsReplayed`: once nothing active is dirty, every body is what replaying the recipes from nothing would build |
| combining | two bodies and a Boolean; append, suppress, rebuild, variable | `SavedDocumentLoads`: every state passes the loader's validation |
| rolling | planes, a sketch on one, an extrusion; append clean and dirty, cursor, remove, suppress, hide, undo | `IdentitiesAreSpent`, `CursorsAreRetained` |
| following | a sketch and an extrusion that follow the variable; append, variable, rebuild, undo, limit | `SketchesFollowTheVariable`, `CleanIsCurrent`, `LineOfStates` (the refinement of `EditHistory`) |

**Why the bounds are enough.** Three features are the shortest timeline with a
feature before, at and after the one a rebuild starts from, and with two branches
that meet in a Boolean. Recipes and values have two members each: changed, and
changed back. An undo limit of one already trims; two lets a trim drop the wrong
end. Revisions wrap after two, so that a state whose revision equals the plan's
but whose content differs is reached within a few calls; the combining and rolling
scenes leave the number out (`Revisions` is 1), so that a commit is refused by the planned
state alone, which admits every behaviour there is and more. Scenes about rebuilds use
undo limit 0 to keep the journals out of the state; scenes about journals use few
features.

**What the passing run does not admit**, because it fails: suppressing a sketch
between two rebuilds, moving the cursor in front of a following sketch,
rebuilding across a rolled-back cursor, and rebuilding a Boolean's tool after a later
feature of its target, which takes four features. Section 12 describes all four, three of
them with a violation run, and the scenes use timelines or calls without them. A Boolean whose target is
edited alone does occur: its rebuild fails, and the document that keeps it dirty
still loads.

## 7. The part catalogue

### Correspondence

Every tab of every running workbench opens a `CatalogStore` of its own on the
same folder. A part is published by an object file named after its content and a
reference file named after its revision, each created by hard-linking a finished
temporary file; then it enters the store's index in memory. One action is one
call that other sessions can see or that a crash can separate from the next.

| Code | Model |
|---|---|
| `CatalogStore::open`, `rebuild_index` (`store.rs` 407–420, 579–653) | `ListReferences`, `RebuildIndex` |
| `save_current_part_to_library`, `next_revision` (workbench) | `Save`, `NextRevision` |
| `publish`: refuse a revision that names other content (435–448) | `CheckReference` |
| `atomic_create_or_compare` (861–932), once for each file | `Look`, `Link` or `LoseTheRace` and `CompareWinner`, `Finish` |
| the index entry (472–480); then reading the kept preview, which may fail | `AddToIndex` |
| an error of any file operation; the end of a process or tab | `FailOnDisk`, `Crash` |

There is one part, so a package is a revision and a content, and its digest is
the package itself. Opening lists the references in one step and reads them in
another. The workbench rebuilds the index twice while it opens a store; the
first is overwritten before anybody reads it. Two tabs of one process never
publish at the same time, as both save on the UI thread; two processes may, and
the model lets any two sessions.

`PartLibrary` is what the folder promises: a set of published parts that only
grows, one part per revision, and answers that are true. Its `CutOff` is the
session that never learns.

### What is checked

In `LibraryAndSketch`, with 3 sessions, 2 contents and 2 revisions:
`ReferencesNeverDangle`, `ListedPartsResolve`, and `KeepsTheLibrary`, the
refinement of `PartLibrary`.

**Why the bounds are enough.** Two sessions race for a revision, and the third
opens its index meanwhile or races for the next one. Two contents make winner and
loser differ; the same content twice is the idempotent publish. Nothing obliges a
session to go on, so there is no fairness.

## 8. Sketches and their canvas

### Correspondence

A sketch (`crates/sketch/src/{definition,transaction}.rs`) is a list of
operations, each a recipe and the pieces (points and curves) it last drew, in the
order of its roles; a piece that a later operation consumes is no longer a curve of
its own. Editing a recipe replays the operation and every later one that reads
what it drew, and keeps the name of every role that is drawn again. The canvas
(`crates/sketch-ui/src/lib.rs`) stages one candidate at the gate, confirms it
against the revision it was staged on, and keeps a bounded journal. Geometry is
not modelled: how many pieces a recipe draws (`Counts`), what a trim leaves
(`Fragments`) and whether a replay goes through are chosen freely.

| Code | Model |
|---|---|
| `stage_geometry_with_role`, `stage_rectangular_pattern`, `handle_modifier_click` | `StageStroke`, `StagePattern`, `StageTrim`, `AppendTrim` |
| `append_relation_operand`, `stage_relation`; `stage_delete_selected` | `StageRelation`, `StageDelete` |
| `set_selected_recipe_parameter_text`, `stage_deliberate_replacement` | `StageParameter`, `RetypeParameter` |
| `commit_pending`, `cancel_pending` | `ConfirmPending`, `CancelPending` |
| `reshape_selected`; `project_support_segment` | `Drag`; `Project` |
| `undo_local`, `redo_local`, `set_named_values` | `UndoLocal`, `RedoLocal`, `SetNamedValues` |
| `stage_replace`, `apply_replacement`, `stage_retire_operation` | `Replaced`, `Redrawn`, `Retired` |
| `regenerate_linked_values` | `Followed`, `Again` |
| `preserve_high_water_marks`, `SketchUndoJournal` | `Preserving`, `Pushed`, `TakenBack`, `BroughtBack` |

### What is checked

In `LibraryAndSketch`, under four sets of tools ("shaping", "following",
"repeating", "measuring", each with its bounds on operations, pieces, revisions and
journal in `MCLibraryAndSketch`):

* `StagedOnThePresent`: the edit at the gate was staged on the sketch that is
  shown, although undo gives out a revision again;
* `NamesMeanOneThing`: no name is ever given to something else, through every
  replay, undo and redo;
* `ReplayChangesNothing`: committing an operation with the recipe it has can come out
  as the sketch it was, and is refused only when `BlockedReplay` says so;
* `LinkedValuesFollow`: what is linked to a variable is at its value, unless the
  sketch is stale or says which link could not follow.

**Why the bounds are enough.** They reach a pattern whose copies a trim consumes, a
trim appended to a deletion, a replay that is blocked by a relation, a follow that
is refused after another went through, and undo past each of them. All four are
proved for any bounds as well (section 13).

## 9. The kernel session

`crates/kernel/src/api/{session,server,journal}.rs`. The server holds a lock
around every request, so a request is one action.

| Code | Model |
|---|---|
| `execute`: a command of one step; a feature pattern | `Execute` with `PlainOutcomes`, `PatternOutcomes` |
| `pattern_instances`, `discard_steps_under` | `Instances`, `Discarded` |
| `undo`, `redo`, `reset` | `UndoStep`, `RedoStep` (`Redone`), `Reset` |
| an import reads a file somebody may rewrite | `WriteFile` |

A body is the sequence of the steps it was made by, so equal bodies are bodies
built alike. The kernel may refuse any step, and panic at a step of `Fragile`.
The commands of a script are requests of their own.

In `Shared`, with a menu of nine commands (a boss and its sketch, a hole, two
patterns, a hole labelled as a pattern would label its own, an import, a join),
2 placements and journals of at most 5 commands: `SessionIsItsJournal` (steps,
body and every body undo can return to are what the journal builds) and the
action property `UndoAndRedoWalkALine`. In the run a torn session is only reset; the
proofs of both (section 13) are of the whole specification, and for any menu.

## 10. In the background: log, updates, scripts

### Correspondence

| `apps/workbench/src/development_log.rs` | `DevelopmentLog` |
|---|---|
| `enqueue` (`try_send`, the counter of drops) | `Enqueue` |
| `writer_loop`: receive, rotate, append, flush | `Receive`, `Rotate`, `AppendRecord`, `FlushWhenDue` |
| its timeout; its end: drops reported, `session.finish`, last flush | `Timeout`; `Disconnected`, `Finish`, `Return` |
| `Drop`: hang up, join, remove the marker | `HangUp`, `Join` |
| the panic hook; the end of the process | `Panic`; `Crash` |

| `apps/workbench/src/update.rs` | `UpdateService` |
|---|---|
| `poll`, which drains the whole channel and checks once | `Poll`, `Drained` |
| `start_check`, `start_download`, `apply`; the tab shown | `StartCheck`, `StartDownload`, `ApplyFails`; `Activate` |
| the two threads and the one that forwards progress | `CheckEnds`, `Report`, `Forward`, `DownloadEnds` |
| the release feed (external) | `Publish` |

| `apps/script-studio/src/lib.rs` | `ScriptStudio` |
|---|---|
| the editor, the customizer, run and auto-run | `Type`, `SetParameter`, `Run`, `ToggleAuto` |
| `start_run`'s thread; `tick` with `poll_worker` and the debounce | `RunEnds`; `Tick` |
| menus, shortcuts, dropped files, closing | `AskFor`, `Save`, `OpenPrompt` (with `Imported`), `Close` |
| the three prompts | `AnswerModal`, `AnswerPrompt`, `AnswerImport`, `Escape` |

### What is checked

All in `Background`:

* the log: `LogIsInOrder`, `NothingAcceptedIsLost` (while the writer runs),
  `RefusalsAreReported` (what a full channel refused is in the counter or in a
  report, never in both), `CriticalRecordsAreFlushed`, and, with fairness,
  `AcceptedReachesTheFile`, `LogDropReturns`;
* the updaters: `CardTellsTheTruth` (a card is busy exactly while an answer of the
  kind it waits for is under way; what it offers to install was downloaded), and
  `BusyEnds`;
* the studio: `ShownIsOfTheScript`, `NothingIsLostUnasked`, and `EditsAreShown`.

`NothingIsLostUnasked` says of every step that replaces a script with unsaved work, or
closes the window over it, that it is one of four: it leaves the script in a file; it is
the modal's answer *Don't save*; it is the import window's *Replace script*; or it is
the path given to an Open prompt that stands over unsaved work (`AtStake`). The second
part says how unsaved work gets there: only by *Don't save*, or by *Replace
script* while the prompt is up. A save that was asked for and fails is none of the
four, whatever waits for it and however its path was asked for. `choice` records what the
modal was answered (`UnsavedChoice`, a local of `unsaved_changes_window`): without it
*Don't save* and a failed *Save* could not be told apart by what they leave behind.
The third is what the code does and not what its documents promise: section 12.

**Why the bounds are enough.** Four events with a channel of two and a part of two
records make the channel overflow, a batch end, and a part rotate with a drop
report on either side; one failed call and one panic can fall between any two
steps. Two tabs check and download the same release beside each other, a newer one
appears meanwhile. Three scripts and one file suffice for "the one that is run",
"the one it was overtaken by" and "the one on disk". Script Studio moves in one of two
scenes. In "runs" the user does anything, at most three times (`HastyInputs`), while
up to four runs overtake each other. In "prompts" the user waits for the runs, leaves the
parameter and the run buttons alone, and has six inputs (`MaxInputs`). That is enough
for a script to be typed, an action to be asked for, *Save* to lead to the typed path, the
save to land and to carry out the action, which asks for a path in its turn, and the path
to be given (five), or for an import to be accepted under an Open prompt (four). The invariants and
`NothingIsLostUnasked` are proved for any numbers.

**Fairness.** The writer's thread and the owner that waits for it keep being
scheduled (`WriterStep`, `Join`); the updaters' threads end and every frame polls;
a run ends and frames tick. Nobody is obliged to type, to click or to publish.

## 11. The runs

| Run | What moves | Properties |
|---|---|---|
| `Shared` | scheduler, kernel session or window | `EachJobInOnePlace`, `OneSurvivorPerKey`, `NoLostWakeup`, `HandlesTellTheTruth`, `SessionIsItsJournal`, `UndoAndRedoWalkALine`, `ClosingAsks` |
| `Workbench` | window or scheduler, with fairness | `OneOperationAtATime`, `WithdrawnNeverLands`, `ConfirmedIsSettled`, `SubmissionOrderHolds`, `EveryJobIsAnswered`, `DropReturns`, `KeepsItsPromise` |
| `ModelDocument_scenarios` | document | `TypeOK`, `SettledIsReplayed`, `SavedDocumentLoads`, `IdentitiesAreSpent`, `CursorsAreRetained`, `SketchesFollowTheVariable`, `CleanIsCurrent`, `LineOfStates` |
| `LibraryAndSketch` | catalogue or sketch | `ReferencesNeverDangle`, `ListedPartsResolve`, `KeepsTheLibrary`, `StagedOnThePresent`, `NamesMeanOneThing`, `ReplayChangesNothing`, `LinkedValuesFollow` |
| `Background` | log, updaters, or the runs or the prompts of the studio, with fairness | `LogIsInOrder`, `NothingAcceptedIsLost`, `RefusalsAreReported`, `CriticalRecordsAreFlushed`, `AcceptedReachesTheFile`, `LogDropReturns`, `CardTellsTheTruth`, `BusyEnds`, `ShownIsOfTheScript`, `NothingIsLostUnasked`, `EditsAreShown` |

A specification that puts components side by side gives each its fairness under
the condition that it is the one that moves. Liveness is checked without symmetry.
Seven further runs must be violated (section 12).

The type invariant of the document runs (`TypeOK`) and is proved, as the others are; those of
the kernel session, the updaters and the studio are conjuncts of the invariant
named after them.

## 12. Where the program and its documents disagree

Each of these has a run that TLC must find violated, and an entry with the quoted text in
`PROJECT.json`.

* `ModelDocument_restored`: suppress a sketch, rebuild, restore it, save.
  `set_feature_suppressed` does not reconcile the object records; the loader does,
  gets another geometry revision and refuses the file. When a region
  extrusion consumes the sketch, no rebuild can repair it either.
* `ModelDocument_rolledback`: change a variable while the cursor stands before a
  sketch that follows it. The sketch is skipped, and rolling forward never
  brings it up to date.
* `ModelDocument_passedover`: make a body and a tool, put a feature on the body,
  fold the tool in with a Boolean, then edit the tool. The plan reads the body as it
  stood before the tool, not before the Boolean, so the Boolean is rebuilt without the
  feature; everything ends up clean, and the saved file is refused.
* `ModelDocument_toolless`: edit the target of a Boolean. The plan does not
  contain the tool's features and the driver looks the tool up in the plan, so
  the rebuild is always rolled back.
* `CatalogStore_versions`: save a part in one tab, then save under its name in a
  tab that was open before. The second tab's index does not know the first
  save, so it asks for a revision that is taken and is refused, each time, until
  it is opened again. (Nothing is lost or overwritten: see `KeepsTheLibrary`.)
* `KernelSession_panic`: a feature pattern panics after some of its instances
  were built. They stay in the session, although a panic is promised to leave it as it was
  (`crates/kernel/src/api/server.rs` 259–261).
* `SketchTransactions_projected`: an edge of the body that is projected into a
  sketch cannot be deleted again: the two relations that pin it are never removed, and a
  relation on an inactive point is refused. The same holds of any curve a relation
  touches.

### Seen while reading, without a run

Model: the line that passes a feature over (`model/src/lib.rs` 2477) also starts from a
stale result: edit a body behind the cursor, rebuild it, roll forward, rebuild a later
feature before the sketch between, and the plan begins with the detached result of that
sketch.

Workbench: `request_open_document` asks about unsaved changes when the open is
staged (`lib.rs` 16837), yet `set_body_visibility` (8022) stays live until it is confirmed and
loaded (12365) without asking again. `restore_runtime_from_document` (6749) drops
colours and materials on undo, redo and cursor moves; setting a colour, a
material or the unit does not move the revision. Closing a clean tab loses a
confirmed extrusion that is still computed. An open staged over an operation does
not cancel it.

Log: a second panic report is written at the old position of the incident file
(`development_log.rs` 584–602); a write error ends the writer's loop, and
`session.finish` says `orderly` all the same (456–511).

Script Studio: `adopt_outcome` keeps the old model when a run fails, but the new
run's journal (`lib.rs` 1307–1318). `docs/architecture/adr/0030-unsaved-work-and-native-file-dialogs.md`
(90–93) says that no path "discards unsaved work without the prompt" and that "new entry points must go through
the guard (`guard_unsaved` in Script Studio …) rather than replacing the document directly"; the
import of a journal is asked for without the guard (1933, 1972) and `accept_import` (1696–1705)
replaces a dirty script directly, after a question about the differences and not about the
unsaved work. Accepted while an Open prompt is up, it also leaves unsaved work for the
prompt's path to replace, since `accept_prompt` (1781) does not look at the guard again. These are the `Pulled` cases of
`NothingIsLostUnasked`; TLC finds them at once when `Pulled` is struck out. Where native
dialogs are off, another path prompt in place of the one *Save* asked with, or an
empty path, leaves `resume_after_save` pending, and the next save that succeeds carries
the action out even if it is another (field comment at 994: "once a save the prompt asked for
lands").

Kernel session: `snapshot_cache` only grows; a panic during a redo loses what was
still to redo.

Sketch: a drag is committed without an undo checkpoint of its own
(`docs/2d-sketch-tooling-plan.md` 289); `stage_replace` is refused where the new definition
would replay, because the steps between do not (`BlockedReplay`, which
`ReplayChangesNothing` has to except); `commit_pending` puts the edit back without its core
transaction when the journal refuses it (7725–7806); `reshape_selected` moves the
drawn entities even when the core refused the replacement (7380–7410);
`append_pending_trim` extends a pending deletion while the Trim tool is held.

## 13. What is proved

TLAPS proves the following for every value of the constants that meets the named
assumptions. Those are weak: `Workers` is finite and not empty, `NoKey` is no key,
`NoJob` no job, priorities and bounds are naturals, `Contents` is not empty, what a
recipe draws is a positive number and what a trim leaves a natural, recipes and values
of the variable are positive, a draft has the fields of a draft, labels of kernel steps are not empty, what an import
reads is a positive number, and the set of undo limits has a largest member.

**Scheduler** (`JobScheduler_proofs`).

* `TypeCorrect`, by induction on the steps.
* `NoJobLost` (`EachJobInOnePlace`). By itself it is not inductive: a drawn id is
  not yet a job, so one needs that two submitters never hold the same id and that
  every held id is below `sequence`; and a worker's job must be out of the heap and
  unanswered at each of its program counters.
* `KeyHasOneSurvivor` (`OneSurvivorPerKey`). The map names the one survivor
  because whoever registers next cancels exactly the job the map names; this needs
  that the map only names registered jobs of that key.
* `AnswersAreTrue` (`HandlesTellTheTruth`). A value or a panic in the channel
  comes from a worker that went through `StartOperation`; a closed one from the
  heap, which no job that ran is ever in.
* `NoWakeupIsLost` (`NoLostWakeup`). The strengthening, `Attended`, is that a
  queued job always has somebody who will see it: a worker that is awake and has not yet looked, or a
  submitter that has pushed and not yet notified.
* `OneSubmitterKeepsOrder` (`SubmissionOrderHolds`), for one submitter: ids are
  registered in the order they are drawn (`Ordered`).
* `SchedulerKeepsItsPromise` (`KeepsItsPromise`), step by step; `PlaceTells` says
  which promised state each place of a job stands for.

**Window** (`Workbench_proofs`). One invariant, `Safe`: the tabs are distinct and one
is in front, the prompt names a tab that is there, every document is `Honest` (not
dirty means its file was given what it holds) and `Steady` (its operation was staged
on what it still holds), and the features of documents, files, operations to come
and operations taken back are apart (`Fate`). From it follow `TypeCorrect`,
`OperationsTakeTurns` (`OneOperationAtATime`), `WithdrawnStaysOut`
(`WithdrawnNeverLands`) and `NothingLeavesUnasked` (`ClosingAsks`).

**Document** (`ModelDocument_proofs`).

* `JournalsAreBounded`: both journals are sequences no longer than the limit.
* `JournalsAreALine` (`LineOfStates`): the document implements `EditHistory`.
  The lemma `NextSteps` sorts every action of `Next` into one of seven kinds of
  step (an edit, an amendment, undo, redo, an abandoned edit, a changed limit, a
  reopened file) and each kind maps to a step of the abstract line or to a
  stutter. The redo journal is the future read backwards, so the work is in the
  lemmas on sequences: trimming the front of a journal forgets the oldest
  past or the farthest future. The limit must have a largest value
  only because the bound is a set of limits.
* `IdentitiesAreNeverReused` (`IdentitiesAreSpent`) and `CursorsNeverDangle`
  (`CursorsAreRetained`). Both follow from one inductive invariant: *every* state
  the document could come back to, i.e. the present, both journals and the base of
  a pending plan, is `Kept`. It has the fields of a document, its features are a
  sequence, every identity in it is below the allocators, its cursor names a
  feature it holds, and every sketch in it is drawn by a sketch feature of the same
  state. The last conjunct is the strengthening: a payload edit finds the feature
  through the sketch's record, and without it the edit might write to a feature
  that is not there.
* `CleanFeaturesAreCurrent` (`CleanIsCurrent`) and `DocumentIsTyped` (`TypeOK`), from
  `EveryStateIsSettled`: each of those states is `Settled`, and a plan in flight is
  `PlanOK`. Settled adds to the types what an edit relies on. The identities of the
  features differ; a feature that takes a sketch depends on an *earlier* feature that
  draws it (`TakesDrawnSketch`), so that marking the drawer dirty reaches it; and every
  clean feature is `Fresh`, its output being its input and the operation that the recipe, the
  variable and the sketch's payload *of that same state* make. The present alone would not
  be inductive: undo makes an older state the present, and a commit publishes what was
  recorded on the plan's base, so `PlanOK` says of each recorded result that it is what
  the base makes of the step's feature. The base is the present when the plan is
  committed (`Current`), and that is all that keeps a result of something else out.
  `Downstream`, `InOrder` and `Heads` are recursions along the timeline; their lemmas
  (`DownstreamFacts`, `InOrderFacts`, `HeadsTyped`) come from `PrefixTheorems`. The
  three cases worth reading are `MarkedSettled` (an edit), `RebuiltSettled` (a
  commit) and `RemovedSettled` (a plane is cut out of the timeline).
* `SketchesKeepFollowing` (`SketchesFollowTheVariable`), under `KeepsTheTimeline`:
  no call moves the history cursor or suppresses a feature, no undo limit is 0, and
  sketches are drawn on no body. The first hypothesis is needed: after a
  roll-back the claim is false (section 12). With a limit of 0 a
  refused change has no checkpoint to go back to and leaves some sketches late. The
  third leaves out sketches on a body's face: such a sketch can be left clean on an input
  that is no longer what its body is at (`ModelDocument_passedover` shows how), and
  folding the bodies then leaves it at no revision. The scene "following" of
  the run meets all three. The invariant is `FollowingOK`. It says of the present and of every
  journal state that each sketch still has the one feature that draws it
  (`Unrolled`), that the record and the feature are at the same revision
  (`Resolvable`: else `Followers` would pass the sketch over, which is the violation
  of section 12), and that only the sketches in `following` are not at the variable
  (`Agrees`). The third conjunct says that while there are late sketches the undo journal is not empty: it is
  what makes `AbandonLastEdit` go back to a state that agrees. The work is in
  `ReconciledFollows`: folding the bodies sets every sketch's
  revision anew, and with nothing rolled back each is set by its own feature
  and by no other (`HeadsOfSketches`).

**Catalogue** (`CatalogStore_proofs`).

* `TypeCorrect`. The one step that is not bookkeeping is `Save`: the
  newest revision of the index exists because a bounded set of naturals has a
  greatest member (`HasGreatest`, from the library's `WFMin`).
* `NoReferenceDangles` (`ReferencesNeverDangle`) and `WhatIsListedResolves`
  (`ListedPartsResolve`). The invariant adds what is on disk at each point of a
  publication (`KeepsUp`: the object is there before the reference is looked at,
  both before the index) and that a file holds one package (`FilesAreWhole`).
  Every session's part of it speaks of files that are there, and a link creates
  files only where there are none: that is why one session's link disturbs nobody.
* `StoreKeepsTheLibrary` (`KeepsTheLibrary`). `Save` is `Ask`, the link of a
  reference is `Publish`, every return of `publish` is `Tell` (`TellStep`), a crash
  is `CutOff` and the rest stutters. A conflict is true because the reference names
  another package under the same revision, and nothing ever changes it.

**Sketch** (`SketchTransactions_proofs`).

* `EditsAreOfThePresent` (`StagedOnThePresent`), from `GateInv`: every way to
  another sketch either empties the gate or stages again.
* `NamesAreNeverGivenAway` (`NamesMeanOneThing`). The invariant `NamesInv` types
  the sketch shown, the edit at the gate and every state of the journal as `Good`
  (operations in the order of their names, each below the mark; a piece is of the operation and role that
  list it), and says that `meant` is a function that holds what each of them means,
  below the piece mark of the present one. An edit makes a *version* of a sketch
  (`Versions`): what is named keeps its meaning, and what is new has names the
  marks had not reached. That every operator of the module makes versions is
  proved one by one (`Staged`, `Redrawn`, `Retired`, `Followed`, …); replays,
  cascades and passes over the links are recursions and are reasoned about with
  `PrefixTheorems`. Undo returns to an older sketch with the newer marks
  (`Preserving`), which is exactly what keeps the names that were undone from being given out
  again.
* `WhatIsLinkedFollows` (`LinkedValuesFollow`), from the same invariant with `At`:
  after a whole pass every linked operation is at the value, and every edit that
  makes or restores a link follows before it is shown.
* `ReplayKeepsTheSketch` (`ReplayChangesNothing`). The invariant `SoundInv` adds to
  `NamesInv` that every sketch which is held (shown, at the gate, in the journal) is
  `Sound`: it validates, and what an active operation takes it reads and has marked
  as its own (`TakesOK`). The validator alone is not enough, because it goes from
  a mark to the operation that left it and not back. It cannot be had for the
  sketch shown only, since undo and a confirmed edit show another one. In a sound
  sketch nothing stands in the way of a turn except a curve that is missing. `Midway` says what
  a replay from operation k has come to when it gets to operation x: the sketch it
  began with, but for the curves that are `Lent`, which were drawn again or given back and stand
  until their taker has its turn. The replay's choices can be made so that each
  turn goes from one `Midway` to the next, and past the last operation nothing is
  lent. The exception is `BlockedReplay`. Where it holds, some operation reads a curve from
  before k whose taker comes later; that curve is `Held` taken in whatever the replay
  makes up to there, and the turn has no outcome. Where it does not
  (`Unblocked`), all that a turn reads is there. What a recipe is evaluated on is said
  twice in the code, by the validator on the prefix of the operations
  (`verify_evaluated_caches`, `Standing`) and by the replay on the sketch as it
  stands; that the two agree is half of the argument.

**Background** (`Background_proofs`).

* The log, from `LogInv` (types; numbers grow; records in parts, buffer, hand and
  channel are in one order; nothing falls between them): `LogKeepsItsOrder` and
  `AcceptedEventsAreKept`. `CountInv` adds that the counter and the reports hold
  each refusal once (`Counted` is a recursion over the log) and that no critical
  record waits: `RefusalsAreCountedOnce`, `CriticalRecordsReachTheFile`.
* The updaters: `CardsTellTheTruth`. `Tells` says of each tab which threads it has
  and what its channel may hold: progress first, then at most one answer.
  What a frame makes of a whole channel is proved by induction along its messages
  (`DrainedProgress`, `DrainedAnswer`).
* The studio: `TheOutcomeIsOfTheScript` (`ShownIsOfTheScript`), because runs answer in their turn
  and only the newest generation is adopted; and the action property
  `UnsavedWorkIsAskedAbout` (`NothingIsLostUnasked`), one lemma per input. Every input leaves the
  window `Held`, or `Clean` and saved, or is one of the answers; the invariant adds
  `ModalWaits` (while the modal is up it has not been answered *Don't save*), so
  that the answer a step is excused by was given in that step.

**Kernel session** (`KernelSession_proofs`), for any menu of commands, any number of
placements and any file contents.

* `SessionIsReplayed` (`SessionIsItsJournal`). The replay is a recursion over the
  journal, and the invariant that carries it is a *trail* of sessions: it starts
  at `New`, ends at the session at hand without what is to redo, and each session
  on it is what `Done` makes of the one before with the next command of the journal
  (`Trailed`). A new command makes the trail longer (`TrailGrows`), undo makes it
  shorter (`TrailShrinks`), and along a trail the replay is the trail
  (`TrailIsReplayed`). What had to be found is why undo, or a pattern that is given
  up, lands exactly on the session before. A command `Adds` steps above the others, all new
  and all under its label; and the newest step that was there before is a journal
  entry of its own (`Whole`), so that `discard_steps_under`, which takes the newest
  steps as long as they belong to the label, stops just there
  (`AddedIsTakenBack`). It holds although a client may label its own steps as a
  pattern would. A session that a panic tore is only `Well`: its records are
  consistent, but they are no journal's.
* `LineIsWalked` (`UndoAndRedoWalkALine`): the same cases, each of them one of the three
  moves of `Moved`.

**How recursions are reasoned about.** The library's induction theorems take an operator
as a parameter, which the installed provers cannot instantiate. `PrefixTheorems` states
induction with a *set* of numbers and recursion with a *function* of steps; both can be
cited. An operator that is a function over `0..n` can then be proved about. Folds
with a `LAMBDA` or an operator argument cannot, so the modules with such proofs write
their loops as functions, or say with a quantifier what the loop has built by then
(`Standing`).

## 14. What is only model-checked, and what is not modelled

Only model-checked:

* liveness: `EveryJobIsAnswered`, `DropReturns`, `ConfirmedIsSettled`,
  `AcceptedReachesTheFile`, `LogDropReturns`, `BusyEnds`, `EditsAreShown`. Liveness and
  `ENABLED` are beyond the prover;
* what the document says about results: `SettledIsReplayed` and `SavedDocumentLoads`
  are false for some menus of calls and timelines (section 12), so a theorem would
  have to name the menus, as `SketchesKeepFollowing` does.

Left out of the catalogue: previews (planned); temporary files that stay behind
and the list of rejected entries, which nobody acts on; files damaged by others;
power loss, which may undo a link whose directory was not yet synced.

Left out of the document: labels, body visibility, plane frames (data that no
modelled guard reads); read-only flags (a read-only object refuses an edit outright);
features that modify an existing sketch (no caller makes one); several variables,
units, groups (one variable suffices for what follows it, and cycles are rejected
before a binding changes); components and joints, a component of their own in the plan.
The document panics on a cursor that names no feature; in the model such a cursor
stands at the start, and `CursorsAreRetained` says that it never happens.

Left out of the sketch: coordinates, the solver's numbers, corner modifiers and
links of relations, and everything the canvas only draws.

Kernel geometry, the constraint solver, finite elements, CAM, STEP, rendering and the
scan add-on make up most of the repository's 312 thousand lines. They are numerical functions, pure
formatting, or drawing: a frame is drawn from the state and has no protocol of its
own. That is why the modelled code is a small part of the whole. `PROJECT.json` lists each part with its reason.

## 15. Plan

1. `DocumentSession` (extends `DocumentState`): where the driver starts a rebuild,
   several dirty branches, undo and redo with the kernel's snapshots, opening a
   file by replay. Four things seen in the code wait for it: a body-less sketch
   keeps the input snapshot it was drawn on, which makes a saved file be refused
   (`document_replay.rs` 594); after a variable changes only the branch of the first dirty
   feature is rebuilt (`lib.rs` 20695), and the snapshot of the other is dropped at the
   next undo; a Boolean's spent tool is listed again after opening; the frame of
   a sketch on a face is not updated when the body under it is edited, so the saved
   file does not open.
2. `AssemblyForest`: joints stay a forest under insert, join and remove.
3. The catalogue's previews: what is shown beside a part is its own picture.
4. Corner modifiers and relation links of the sketch.

## 16. Running it

```
tlc -workers 2 -config Shared.cfg MCShared.tla
tlc -workers 2 -config Background.cfg MCBackground.tla
tlapm JobScheduler_proofs.tla
```

The five passing runs take between one and four minutes each with two workers;
the runs that are violated end within seconds. Each proof module is checked from
nothing within ten minutes.
