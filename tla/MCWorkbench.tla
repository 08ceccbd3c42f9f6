---------------------------- MODULE MCWorkbench ----------------------------
(***************************************************************************)
(* The scenes Workbench is checked under, in one run: what the user does   *)
(* in each is a part of what the user may do, and the initial state picks  *)
(* one.                                                                    *)
(***************************************************************************)
EXTENDS Workbench, TLC

VARIABLE scene

Scenes == {"closing", "computing", "overtaking", "undoing", "reopening"}

\* Three tabs are opened, edited, saved, closed and asked about.
Closing ==
    \/ Shell \/ Hide \/ ConfirmOpen(FALSE)
    \/ \E p \in Files : Save(p) \/ (doc[InFront].path = NoFile /\ Open(p))

\* Two tabs, each with an extrusion staged, confirmed, computed and taken
\* back while either is in front, closed or asked about.
Computing ==
    \/ OpenTab /\ Len(tabs) < 2
    \/ CloseWindow \/ DrawPrompt \/ WindowGoes \/ AnswerDiscard \/ AnswerCancel
    \/ \E i \in 1..Len(tabs) : RequestClose(i) \/ Activate(i)
    \/ StageExtrusion \/ ConfirmExtrusion \/ CancelOperation \/ Poll
    \/ \E d \in Doc : Worker(d)

\* One tab, in which opens are asked for beside extrusions and their edits.
Overtaking ==
    \/ StageExtrusion \/ ConfirmExtrusion \/ CancelOperation \/ Poll \/ Hide
    \/ \E i \in 1..Len(doc[InFront].model.features), opens \in BOOLEAN :
           StageEdit(i, opens)
    \/ \E accepted \in BOOLEAN : ConfirmEdit(accepted)
    \/ \E p \in Files : AcceptPath(p)
    \/ TypePath("open") \/ DismissPath \/ AnswerOpen
    \/ \E suppressed \in BOOLEAN : ConfirmOpen(suppressed)
    \/ \E d \in Doc : Worker(d)

\* One tab, in which extrusions and their edits are undone and redone.
Undoing ==
    \/ StageExtrusion \/ ConfirmExtrusion \/ CancelOperation \/ Poll \/ Hide \/ Undo \/ Redo
    \/ \E i \in 1..Len(doc[InFront].model.features), opens \in BOOLEAN :
           StageEdit(i, opens)
    \/ \E accepted \in BOOLEAN : ConfirmEdit(accepted)
    \/ \E d \in Doc : Worker(d)

\* One tab that is edited, undone, saved and reopened.
Reopening ==
    \/ Undo \/ Redo \/ CancelOperation \/ Hide
    \/ \E position \in 0..Len(doc[InFront].model.features) : Scrub(position)
    \/ \E p \in Files : Open(p) \/ AcceptPath(p) \/ Save(p)
    \/ TypePath("save") \/ AnswerOpen
    \/ \E suppressed \in BOOLEAN : ConfirmOpen(suppressed)

\* Bound: the smaller the scene, the more of MaxEdits it spends.
Budget == CASE scene = "undoing" -> MaxEdits
            [] scene = "reopening" -> MaxEdits - 1
            [] OTHER -> MaxEdits - 2

sceneVars == <<workbenchVars, scene>>

ScenesInit == WorkbenchInit /\ scene \in Scenes

ScenesNext ==
    /\ \/ scene = "closing" /\ Closing
       \/ scene = "computing" /\ Computing
       \/ scene = "overtaking" /\ Overtaking
       \/ scene = "undoing" /\ Undoing
       \/ scene = "reopening" /\ Reopening
    /\ spent' <= Budget
    /\ UNCHANGED scene
=============================================================================
