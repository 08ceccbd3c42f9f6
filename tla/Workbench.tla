----------------------------- MODULE Workbench -----------------------------
(***************************************************************************)
(* The workbench window: its tabs and the prompts in front of closing and  *)
(* opening (documents.rs), and in every tab one modelling operation waiting*)
(* for its tick or cross, one extrusion computed in the background, one    *)
(* document to open in place of this one, and the file it was last saved   *)
(* in (lib.rs).  An action is one input of the user, one frame's poll, or  *)
(* the worker finishing.  What a document holds is abstracted to a history *)
(* of features, its cursor and whether its body is hidden: the rules of   *)
(* the document itself are those of ModelDocument.                         *)
(***************************************************************************)
EXTENDS Naturals, Sequences, SequencesExt

CONSTANTS
    Files,    \* the paths documents are saved at
    NoFile,   \* a document that has never been given a home
    MaxDocs,  \* bound: documents ever opened in the window
    MaxEdits  \* bound: edits of documents the user begins

ASSUME WorkbenchAssumption ==
    /\ NoFile \notin Files
    /\ MaxDocs \in Nat \ {0} /\ MaxEdits \in Nat

VARIABLES
    tabs,    \* the open documents, by serial, in tab order
    active,  \* the index of the one in front
    prompt,  \* close_prompt: <<>>, <<"window">> or <<"tab", index>>
    drawn,   \* the prompt has been drawn: it is modal from then on
    window,  \* "open", "confirmed" (close_confirmed) or "gone"
    serial,  \* next_serial
    doc,     \* the state of each document's KernelLabApp
    file,    \* what each path holds
    spent    \* the edits begun so far; they name the features they make

workbenchVars == <<tabs, active, prompt, drawn, window, serial, doc, file, spent>>

Doc == 1..MaxDocs
InFront == tabs[active]

\* What a document holds, and a path at which there is no file.
Blank == [features |-> <<>>, cursor |-> 0, hidden |-> FALSE]
Absent == [Blank EXCEPT !.cursor = 1]
AtEnd(c) == c.cursor = Len(c.features)
ToEnd(c) == [c EXCEPT !.cursor = Len(c.features)]

\* A document as KernelLabApp::new_document leaves it.  The last four fields
\* are history: the content last saved or loaded, the content the user said
\* not to save, that an open was staged over an operation, and the
\* extrusions the user took back.  An edit under way (id) and an extrusion
\* being computed (job) carry the name of the feature they are to make.
NewDocument ==
    [model |-> Blank, past |-> <<>>, future |-> <<>>,
     dirty |-> FALSE, path |-> NoFile,
     pending |-> "none", edited |-> 0, id |-> 0, base |-> <<>>, job |-> 0,
     target |-> NoFile, running |-> "none",
     asking |-> NoFile, typing |-> "none",
     kept |-> Blank, answered |-> Blank, overtaken |-> FALSE, withdrawn |-> {}]

WorkbenchInit ==
    /\ tabs = <<1>> /\ active = 1 /\ serial = 2
    /\ prompt = <<>> /\ drawn = FALSE /\ window = "open"
    /\ doc = [d \in Doc |-> NewDocument]
    /\ spent = 1
    /\ \E saved \in Files :
           file = [p \in Files |->
               IF p = saved THEN [Blank EXCEPT !.features = <<1>>, !.cursor = 1]
               ELSE Absent]

-----------------------------------------------------------------------------
(* What the code does to one document, as operators on its state.          *)

\* finish_user_edit: the state before the edit can be undone to, and the
\* revision is no longer the saved one.
Checkpoint(r) ==
    [r EXCEPT !.past = Append(@, r.model), !.future = <<>>, !.dirty = TRUE]

\* move_history_cursor: to where the cursor stands already is no edit.
MoveCursor(r, position) ==
    IF r.model.cursor = position THEN r
    ELSE [Checkpoint(r) EXCEPT !.model.cursor = position]

\* append_sketch_extrusion: at the end of history, onto what is there.
Appended(r) ==
    [Checkpoint(r) EXCEPT
        !.model = ToEnd([r.model EXCEPT !.features = Append(@, r.job)])]

\* stage_open_document: whatever was staged is overwritten; an extrusion
\* that is computed meanwhile goes on.
StageOpen(r, p) ==
    [r EXCEPT !.pending = "open",
              !.target = IF p = r.path THEN NoFile ELSE p,
              !.overtaken = @ \/ r.pending # "none" \/ r.running # "none"]

\* request_open_document
RequestOpen(r, p) == IF r.dirty THEN [r EXCEPT !.asking = p] ELSE StageOpen(r, p)

\* save_document_to, when it succeeds.
SavedAt(r, p) == [r EXCEPT !.path = p, !.dirty = FALSE, !.kept = r.model]

\* load_workspace_from_path, when it succeeds.  Features that cannot be
\* rebuilt are suppressed (the body is not the stored one: hidden here), and
\* the document then differs from its file at once.
Loaded(r, p, suppressed) ==
    LET stored == file[p]
        opened == IF suppressed THEN [stored EXCEPT !.hidden = ~@] ELSE stored
    IN  [r EXCEPT !.model = opened, !.past = <<>>, !.future = <<>>,
                  !.dirty = suppressed, !.path = p,
                  !.pending = "none", !.target = NoFile,
                  !.kept = stored, !.overtaken = FALSE]

\* Mutant: the flag is set, and the answer still looked at.
WithdrawnInName(r) ==
    [r EXCEPT !.withdrawn = IF r.running = "none" THEN @ ELSE @ \cup {r.job}]

\* cancel_async_sketch_extrusion_commit: the answer is never looked at.
Withdrawn(r) ==
    [r EXCEPT !.running = "none",
              !.withdrawn = IF r.running = "none" THEN @ ELSE @ \cup {r.job}]

\* cancel_pending_operation
Cancelled(r) ==
    LET idle == [r EXCEPT !.pending = "none", !.answered = Blank]
    IN  CASE r.pending = "open" -> [idle EXCEPT !.target = NoFile]
          [] r.pending = "extrude" -> Withdrawn(idle)
          [] r.pending = "edit" ->
                 MoveCursor(Withdrawn(idle), Len(r.model.features))
          [] OTHER -> r

\* apply_extrusion_edit: the recipe is replaced (or refused) and the cursor
\* goes back to the end.
EditApplied(r, accepted) ==
    LET idle == [r EXCEPT !.pending = "none"]
        replaced == [Checkpoint(idle) EXCEPT !.model.features[r.edited] = r.id]
    IN  MoveCursor(IF accepted THEN replaced ELSE idle, Len(r.model.features))

\* apply_sketch_extrusion_result: a success is appended to the document as it
\* is now, and clears whatever is pending.  A document rolled back refuses
\* it, and one that has changed refuses it if it was made on a body.
Fits(r) == AtEnd(r.model)
Landed(r) == [Appended(r) EXCEPT !.pending = "none", !.running = "none"]

\* Mutant: a refusal that leaves the job where it was.
RejectedInWords(r) == r
Rejected(r) == [r EXCEPT !.running = "none"]

-----------------------------------------------------------------------------
(* The shell: tabs and closing.                                            *)

Modal == prompt # <<>> /\ drawn
\* Mutant: only the document in front is looked at.
DirtyFront == {i \in {active} : doc[tabs[i]].dirty}
DirtyTabs == {i \in 1..Len(tabs) : doc[tabs[i]].dirty}

\* WorkbenchShell::open_document
OpenTab ==
    /\ window = "open" /\ ~Modal
    /\ serial \in Doc
    /\ tabs' = Append(tabs, serial)
    /\ active' = Len(tabs) + 1
    /\ serial' = serial + 1
    /\ UNCHANGED <<prompt, drawn, window, doc, file, spent>>

\* WorkbenchShell::close: never the last one.
Close(i, inFront) ==
    IF i > Len(tabs) \/ Len(tabs) = 1
    THEN tabs' = tabs /\ active' = inFront
    ELSE /\ tabs' = RemoveAt(tabs, i)
         /\ active' = IF inFront > i \/ inFront = Len(tabs) THEN inFront - 1 ELSE inFront

\* A tab's cross, or Ctrl+W: a document with unsaved changes is asked about.
RequestClose(i) ==
    /\ window = "open" /\ Len(tabs) > 1
    /\ \/ prompt = <<>> /\ i = active
       \/ ~Modal /\ doc[InFront].asking = NoFile
    /\ IF doc[tabs[i]].dirty
       THEN /\ prompt' = <<"tab", i>> /\ drawn' = FALSE
            /\ UNCHANGED <<tabs, active>>
       ELSE Close(i, active) /\ UNCHANGED <<prompt, drawn>>
    /\ UNCHANGED <<window, serial, doc, file, spent>>

Activate(i) ==
    /\ window = "open" /\ ~Modal /\ i # active
    /\ active' = i
    /\ UNCHANGED <<tabs, prompt, drawn, window, serial, doc, file, spent>>

\* The window's close button: intercept_window_close.
CloseWindow ==
    /\ window = "open"
    /\ IF DirtyTabs = {}
       THEN window' = "gone" /\ UNCHANGED <<prompt, drawn>>
       ELSE prompt' = <<"window">> /\ drawn' = FALSE /\ UNCHANGED window
    /\ UNCHANGED <<tabs, active, serial, doc, file, spent>>

\* close_prompt_window, first frame: a tab that is gone is not asked about.
DrawPrompt ==
    /\ window = "open" /\ prompt # <<>> /\ ~drawn
    /\ IF prompt[1] = "tab" /\ prompt[2] > Len(tabs)
       THEN prompt' = <<>> /\ UNCHANGED drawn
       ELSE drawn' = TRUE /\ UNCHANGED prompt
    /\ UNCHANGED <<tabs, active, window, serial, doc, file, spent>>

\* The tabs the prompt is about.
Asked == IF prompt = <<"window">> THEN DirtyTabs ELSE {prompt[2]}

\* carry_out_close
CarryOut(inFront) ==
    IF prompt = <<"window">>
    THEN window' = "confirmed" /\ active' = inFront /\ UNCHANGED tabs
    ELSE Close(prompt[2], inFront) /\ UNCHANGED window

\* "Save": save_for_close goes through the tabs in order, brings each to the
\* front, and stops at the first that cannot be saved or whose dialog is
\* cancelled (refused).
AnswerSave ==
    /\ window = "open" /\ Modal
    /\ \E refused \in Asked \cup {Len(tabs) + 1} :
           LET done == {i \in Asked : i < refused}
               saved == {tabs[i] : i \in done}
           IN  \E home \in [saved -> Files] :
                   LET writers(p) == {i \in done : home[tabs[i]] = p} IN
                   /\ \A d \in saved : doc[d].path \in {NoFile, home[d]}
                   /\ file' = [p \in Files |->
                          IF writers(p) = {} THEN file[p]
                          ELSE doc[tabs[Max(writers(p))]].model]
                   /\ doc' = [d \in Doc |->
                          IF d \in saved THEN SavedAt(doc[d], home[d]) ELSE doc[d]]
                   /\ IF refused \in Asked
                      THEN active' = refused /\ UNCHANGED <<tabs, window>>
                      ELSE CarryOut(IF Asked = {} THEN active ELSE Max(Asked))
    /\ prompt' = <<>> /\ drawn' = FALSE
    /\ UNCHANGED <<serial, spent>>

\* "Don't save"
AnswerDiscard ==
    /\ window = "open" /\ Modal
    /\ doc' = [d \in Doc |-> IF d \in {tabs[i] : i \in Asked}
                             THEN [doc[d] EXCEPT !.answered = doc[d].model] ELSE doc[d]]
    /\ CarryOut(active)
    /\ prompt' = <<>> /\ drawn' = FALSE
    /\ UNCHANGED <<serial, file, spent>>

AnswerCancel ==
    /\ window = "open" /\ Modal
    /\ prompt' = <<>> /\ drawn' = FALSE
    /\ UNCHANGED <<tabs, active, window, serial, doc, file, spent>>

\* The frame after carry_out_close: the close request goes through.
WindowGoes ==
    /\ window = "confirmed"
    /\ window' = "gone"
    /\ UNCHANGED <<tabs, active, prompt, drawn, serial, doc, file, spent>>

-----------------------------------------------------------------------------
(* The document in front.                                                  *)

\* Input reaches it by the keyboard always, by the pointer when no modal
\* prompt stands before it.
Keyboard == window = "open"
Pointer == window = "open" /\ ~Modal /\ doc[InFront].asking = NoFile

\* Mutant: a job in the background is what makes an operation pending.
IdleUnlessRunning == doc[InFront].running = "none"
Idle == doc[InFront].pending = "none"

Becomes(r) ==
    /\ doc' = [doc EXCEPT ![InFront] = r]
    /\ UNCHANGED <<tabs, active, prompt, drawn, window, serial>>

\* The user begins an edit; MaxEdits bounds how many.
Spend == spent < MaxEdits /\ spent' = spent + 1

\* stage_sketch_extrusion
StageExtrusion ==
    /\ Pointer /\ Idle /\ AtEnd(doc[InFront].model)
    /\ Becomes([doc[InFront] EXCEPT !.pending = "extrude",
                                  !.base = doc[InFront].model.features])
    /\ UNCHANGED <<file, spent>>

\* begin_extrusion_edit: history rolls back to before the feature, and back
\* to the end if its sketch does not open there.
StageEdit(i, opens) ==
    LET rolled == MoveCursor(doc[InFront], i - 1) IN
    /\ Pointer /\ Idle /\ i \in 1..Len(doc[InFront].model.features)
    /\ rolled # doc[InFront]
    /\ Spend
    /\ Becomes(IF opens
               THEN [rolled EXCEPT !.pending = "edit", !.edited = i, !.id = spent']
               ELSE MoveCursor(rolled, Len(rolled.model.features)))
    /\ UNCHANGED file

\* confirm_pending_operation: nothing while an extrusion is computed; one
\* staged on other features than these is refused and stays staged.
ConfirmExtrusion ==
    LET r == doc[InFront] IN
    /\ Keyboard /\ r.pending = "extrude" /\ r.running = "none"
    /\ r.base = r.model.features
    /\ Spend
    /\ Becomes([r EXCEPT !.running = "computing", !.job = spent'])
    /\ UNCHANGED file

ConfirmEdit(accepted) ==
    LET r == doc[InFront] IN
    /\ Keyboard /\ r.pending = "edit" /\ r.running = "none"
    /\ Becomes(EditApplied(r, accepted))
    /\ UNCHANGED <<file, spent>>

\* A load that fails leaves the open staged, and everything as it is.
ConfirmOpen(suppressed) ==
    LET r == doc[InFront]
        p == IF r.target = NoFile THEN r.path ELSE r.target IN
    /\ Keyboard /\ r.pending = "open" /\ r.running = "none"
    /\ p # NoFile /\ file[p] # Absent
    /\ Becomes(Loaded(r, p, suppressed))
    /\ UNCHANGED <<file, spent>>

CancelOperation ==
    /\ Keyboard /\ ~Idle
    /\ Becomes(Cancelled(doc[InFront]))
    /\ UNCHANGED <<file, spent>>

\* The worker: the kernel's result, whichever tab is in front.
Compute(d, result) ==
    /\ window = "open" /\ d \in ToSet(tabs)
    /\ doc[d].running = "computing"
    /\ doc' = [doc EXCEPT ![d].running = result]
    /\ UNCHANGED <<tabs, active, prompt, drawn, window, serial, file, spent>>

\* poll_async_sketch_extrusion_commit: only the document in front polls.
Poll ==
    LET r == doc[InFront] IN
    /\ window = "open"
    /\ \/ r.running = "ok" /\ Fits(r) /\ Becomes(Landed(r))
       \/ /\ r.running = "failed" \/ ~Fits(r) \/ r.base # r.model.features
          /\ r.running \in {"ok", "failed"}
          /\ Becomes(Rejected(r))
    /\ UNCHANGED <<file, spent>>

\* set_body_visibility: an eye in the browser, whatever is pending.
Hide ==
    LET r == doc[InFront] IN
    /\ Pointer /\ r.model.cursor > 0
    /\ Spend
    /\ Becomes([Checkpoint(r) EXCEPT !.model.hidden = ~@])
    /\ UNCHANGED file

\* The timeline's slider.
Scrub(position) ==
    /\ Pointer /\ Idle
    /\ position \in 0..Len(doc[InFront].model.features)
    /\ position # doc[InFront].model.cursor
    /\ Spend
    /\ Becomes(MoveCursor(doc[InFront], position))
    /\ UNCHANGED file

\* undo_document and redo_document
Undo ==
    LET r == doc[InFront] IN
    /\ Keyboard /\ Idle /\ r.past # <<>>
    /\ Becomes([r EXCEPT !.model = Last(r.past), !.past = Front(@),
                         !.future = Append(@, r.model), !.dirty = TRUE])
    /\ UNCHANGED <<file, spent>>

Redo ==
    LET r == doc[InFront] IN
    /\ Keyboard /\ Idle /\ r.future # <<>>
    /\ Becomes([r EXCEPT !.model = Last(r.future), !.future = Front(@),
                         !.past = Append(@, r.model), !.dirty = TRUE])
    /\ UNCHANGED <<file, spent>>

-----------------------------------------------------------------------------
(* Files.                                                                  *)

\* Save, Save as and their shortcuts.  A failed save changes nothing.
Save(p) ==
    /\ Keyboard /\ Idle
    /\ file' = [file EXCEPT ![p] = doc[InFront].model]
    /\ Becomes(SavedAt(doc[InFront], p))
    /\ UNCHANGED spent

\* Open, Revert and their shortcuts: a file that is there.
Open(p) ==
    /\ Keyboard /\ Idle /\ file[p] # Absent
    /\ Becomes(RequestOpen(doc[InFront], p))
    /\ UNCHANGED <<file, spent>>

\* The typed-path prompt is a window beside the others: once it is up,
\* anything may be staged before a path is accepted.
TypePath(purpose) ==
    /\ Pointer /\ Idle
    /\ Becomes([doc[InFront] EXCEPT !.typing = purpose])
    /\ UNCHANGED <<file, spent>>

AcceptPath(p) ==
    LET r == [doc[InFront] EXCEPT !.typing = "none"] IN
    /\ Pointer
    /\ \/ /\ doc[InFront].typing = "open"
          /\ Becomes(RequestOpen(r, p)) /\ UNCHANGED file
       \/ /\ doc[InFront].typing = "save"
          /\ \/ file' = [file EXCEPT ![p] = r.model] /\ Becomes(SavedAt(r, p))
             \/ UNCHANGED file /\ Becomes(r)
    /\ UNCHANGED spent

DismissPath ==
    /\ Keyboard /\ doc[InFront].typing # "none"
    /\ Becomes([doc[InFront] EXCEPT !.typing = "none"])
    /\ UNCHANGED <<file, spent>>

\* unsaved_changes_window: a save that fails opens nothing.
AnswerOpen ==
    LET r == [doc[InFront] EXCEPT !.asking = NoFile]
        p == doc[InFront].asking IN
    /\ window = "open" /\ ~Modal /\ p # NoFile
    /\ \/ \E home \in IF r.path = NoFile THEN Files ELSE {r.path} :
              /\ file' = [file EXCEPT ![home] = r.model]
              /\ Becomes(StageOpen(SavedAt(r, home), p))
       \/ Becomes(StageOpen([r EXCEPT !.answered = r.model], p)) /\ UNCHANGED file
       \/ Becomes(r) /\ UNCHANGED file
    /\ UNCHANGED spent

-----------------------------------------------------------------------------
Shell ==
    \/ OpenTab \/ CloseWindow \/ DrawPrompt \/ WindowGoes
    \/ AnswerSave \/ AnswerDiscard \/ AnswerCancel
    \/ \E i \in 1..Len(tabs) : RequestClose(i) \/ Activate(i)

Modelling ==
    \/ StageExtrusion \/ ConfirmExtrusion \/ CancelOperation \/ Hide \/ Undo \/ Redo
    \/ \E i \in 1..Len(doc[InFront].model.features), opens \in BOOLEAN :
           StageEdit(i, opens)
    \/ \E accepted \in BOOLEAN : ConfirmEdit(accepted)
    \/ \E position \in 0..Len(doc[InFront].model.features) : Scrub(position)

Filing ==
    \/ \E p \in Files : Open(p) \/ AcceptPath(p)
    \/ \E p \in IF doc[InFront].path = NoFile THEN Files ELSE {doc[InFront].path} : Save(p)
    \/ \E purpose \in {"open", "save"} : TypePath(purpose)
    \/ DismissPath \/ AnswerOpen
    \/ \E suppressed \in BOOLEAN : ConfirmOpen(suppressed)

Worker(d) == \E result \in {"ok", "failed"} : Compute(d, result)

WorkbenchNext == Shell \/ Modelling \/ Filing \/ Poll \/ \E d \in Doc : Worker(d)

\* The worker answers every job (JobScheduler!EveryJobIsAnswered), and while
\* one is computed the window asks for another frame every 16 ms.
WorkbenchFairness ==
    /\ WF_workbenchVars(Poll)
    /\ \A d \in Doc : WF_workbenchVars(Worker(d))

WorkbenchSpec == WorkbenchInit /\ [][WorkbenchNext]_workbenchVars /\ WorkbenchFairness

-----------------------------------------------------------------------------
(* Properties.                                                             *)

IsOpen(d) == d \in ToSet(tabs)

\* The window always has a document to show, tabs are distinct documents, a
\* prompt is about a tab, and a document is well-formed.
WorkbenchTypeOK ==
    /\ IsInjective(tabs) /\ ToSet(tabs) \subseteq 1..(serial - 1)
    /\ active \in 1..Len(tabs)
    /\ prompt \in {<<>>, <<"window">>} \cup ({"tab"} \X (Nat \ {0}))
    /\ drawn => prompt # <<>> /\ (prompt[1] = "tab" => prompt[2] <= Len(tabs))
    /\ \A d \in Doc :
        /\ doc[d].model.cursor \in 0..Len(doc[d].model.features)
        /\ doc[d].pending \in {"none", "extrude", "edit", "open"}
        /\ doc[d].running \in {"none", "computing", "ok", "failed"}
        /\ doc[d].target \in Files \cup {NoFile}
        /\ doc[d].asking \in Files \cup {NoFile}

\* "Unsaved work is never lost silently" (ADR 0030): a document that leaves
\* the window, alone or with it, holds what its file was given or what the
\* user, asked about that very document, said not to save; whatever was
\* undone, loaded, moved between tabs, or failed to be saved before.
ClosingAsks ==
    [][\A d \in Doc :
         \/ IsOpen(d) /\ ~IsOpen(d)'
         \/ IsOpen(d) /\ window # "gone" /\ window' = "gone"
         => doc[d].model \in {doc'[d].kept, doc'[d].answered}]_workbenchVars

\* "Only one modeling operation can be pending at a time" (ADR 0007): as
\* long as no open is staged over an operation, what is computed is the one
\* that is staged, on the features it was staged on and at the end of
\* history, and history is rolled back for an edit just as long as it is
\* pending.
OneOperationAtATime ==
    \A d \in Doc : IsOpen(d) /\ ~doc[d].overtaken =>
        /\ doc[d].running # "none" =>
               /\ doc[d].pending = "extrude"
               /\ doc[d].base = doc[d].model.features /\ AtEnd(doc[d].model)
        /\ doc[d].pending = "edit" => doc[d].model.cursor = doc[d].edited - 1

\* An extrusion the user took back is in no document and no file afterwards,
\* neither present nor undone, however late the worker's answer comes.
WithdrawnNeverLands ==
    \A d \in Doc : \A k \in doc[d].withdrawn :
        /\ \A e \in Doc :
               \A c \in {doc[e].model} \cup ToSet(doc[e].past) \cup ToSet(doc[e].future) :
                   k \notin ToSet(c.features)
        /\ \A p \in Files : k \notin ToSet(file[p].features)

\* A confirmed extrusion is settled - it is in the document, or refused, or
\* taken back - as long as its document stays in front.
ConfirmedIsSettled ==
    \A d \in Doc :
        IsOpen(d) /\ doc[d].running # "none"
            ~> doc[d].running = "none" \/ InFront # d \/ window # "open"
=============================================================================
