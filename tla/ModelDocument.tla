--------------------------- MODULE ModelDocument ---------------------------
(***************************************************************************)
(* ModelDocument of crates/model/src/lib.rs: a parametric document with    *)
(* bounded undo and redo journals, monotonic identities, a history cursor  *)
(* and in-memory rebuild transactions.  Callers edit the document, plan a  *)
(* rebuild of what an edit made dirty, record kernel results one by one,   *)
(* and commit or drop the transaction; edits may fall between those calls. *)
(* Changing the variable is one handler of the workbench: the binding, and *)
(* then every sketch that follows it, with the whole change abandoned when *)
(* one of them refuses.                                                    *)
(***************************************************************************)
EXTENDS DocumentState

CONSTANTS
  Calls,        \* which groups of operations this instance's callers use
  Drafts,       \* the feature drafts they append
  Recipes,      \* the values a recipe or a payload takes
  Values,       \* the values the variable takes
  Limits,       \* the undo limits they set; the first document has the largest
  MaxFeatures,  \* bound: features in the timeline
  MaxIds,       \* bound: feature identities ever allocated
  MaxPayloads,  \* bound: revisions of one sketch
  Revisions     \* the revision counter wraps at this value (u64::MAX in the code)

ASSUME DocumentAssumption ==
  /\ Limits \subseteq Nat /\ \E l \in Limits : \A m \in Limits : m <= l
  /\ Values # {} /\ Values \subseteq Nat \ {0}
  /\ Recipes \subseteq Nat \ {0}
  /\ Drafts \subseteq [kind : Kinds, body : Nat, tool : Nat, sketch : Nat,
                      plane : Nat, recipe : Recipes, reads : BOOLEAN]
  /\ MaxFeatures \in Nat /\ MaxIds \in Nat /\ MaxPayloads \in Nat
  /\ Revisions \in Nat \ {0}

VARIABLES
  doc,        \* DocumentState
  ids,        \* AllocatorState: the next identity of each kind
  revision,   \* the document's revision
  limit,      \* undo_limit
  undo, redo, \* the journals: earlier and later document states, latest last
  rebuild,    \* the rebuild transaction in flight: at most one
  following   \* sketches the variable's handler has not worked out again yet
vars == <<doc, ids, revision, limit, undo, redo, rebuild, following>>

-----------------------------------------------------------------------------
EmptyDocument == [features |-> << >>, bodies |-> << >>, sketches |-> << >>,
                  variable |-> CHOOSE v \in Values : \A w \in Values : v <= w,
                  head |-> None, cursor |-> End]

Init ==
  /\ doc = EmptyDocument
  /\ ids = [feature |-> 1, body |-> 1, sketch |-> 1]
  /\ revision = 0
  /\ limit = CHOOSE l \in Limits : \A m \in Limits : m <= l
  /\ undo = << >> /\ redo = << >>
  /\ rebuild = {}
  /\ following = {}

-----------------------------------------------------------------------------
(* The journals. *)

Last(journal) == journal[Len(journal)]
Front(journal) == SubSeq(journal, 1, Len(journal) - 1)

\* Mutant: the trim drops the latest entries instead of the oldest.
TrimBack(journal, n) == IF Len(journal) <= n THEN journal ELSE SubSeq(journal, 1, n)

\* Keep the latest n entries.
TrimFront(journal, n) ==
  IF Len(journal) <= n THEN journal ELSE SubSeq(journal, Len(journal) - n + 1, Len(journal))

\* Mutant: nothing is trimmed.
PushUnbounded(journal, state) == Append(journal, state)

PushBounded(journal, state) == TrimFront(Append(journal, state), limit)

BumpRevision == revision' = (revision + 1) % Revisions

\* A user edit: a checkpoint, no redo, a new revision.
Edit(changed) ==
  /\ doc' = changed
  /\ undo' = PushBounded(undo, doc)
  /\ redo' = << >>
  /\ BumpRevision
  /\ UNCHANGED <<limit, rebuild>>

\* A change of the present that owns no checkpoint.
Amend(changed) ==
  /\ doc' = changed
  /\ BumpRevision
  /\ UNCHANGED <<undo, redo, limit>>

\* The variable's handler runs to its end before any other call.
Idle(call) == call \in Calls /\ following = {}

-----------------------------------------------------------------------------
(* Building the timeline. *)

Node(draft, commit) ==
  NodeOf(doc, ids, IF draft.kind = "sketch" /\ draft.reads
                   THEN [draft EXCEPT !.recipe = doc.variable] ELSE draft, commit)

CommittedNode(draft) ==
  LET bare == Node(draft, NoCommit)
      tool == IF draft.tool = 0 THEN Zero ELSE doc.bodies[draft.tool].snapshot
  IN  Node(draft, Built(doc, bare, InputOf(doc, draft), tool))

Grow(node) ==
  /\ Len(doc.features) < MaxFeatures /\ ids.feature <= MaxIds
  /\ Edit(Appended(doc, node))
  /\ ids' = AllocatedAfter(ids, node)
  /\ UNCHANGED following

AppendCommitted(draft) ==
  /\ Idle("append")
  /\ MayAppend(doc, draft) /\ Ready(doc, draft)
  /\ SketchIsResolvable(doc, draft.sketch)
  /\ Accepts(Node(draft, NoCommit), InputOf(doc, draft))
  /\ Grow(CommittedNode(draft))

AppendDirty(draft) ==
  /\ Idle("append dirty")
  /\ MayAppend(doc, draft)
  /\ Grow(Node(draft, NoCommit))

\* Mutant: the cursor stays on the deleted plane.
CursorKept(id) == doc.cursor

\* Delete a construction plane nothing depends on.
CursorWithout(id) ==
  IF doc.cursor # id THEN doc.cursor
  ELSE LET i == IndexOf(doc.features, id)
       IN  IF i = 1 THEN Start ELSE doc.features[i-1].id

RemovePlane(id) ==
  LET i == IndexOf(doc.features, id)
  IN  /\ Idle("remove")
      /\ FeatureOf(doc, id).kind = "plane"
      /\ \A j \in DOMAIN doc.features : id \notin doc.features[j].deps
      /\ Edit(Reconciled([doc EXCEPT
                !.cursor = CursorWithout(id),
                !.features = SubSeq(@, 1, i - 1) \o SubSeq(@, i + 1, Len(@))]))
      /\ UNCHANGED <<ids, following>>

-----------------------------------------------------------------------------
(* Edits of what is there. *)

SetHistoryPosition(position) ==
  LET moved == Cursor(doc, position)
  IN  /\ Idle("cursor")
      /\ ~(Position(doc) = position /\ doc.cursor = moved)
      /\ Edit(Reconciled([doc EXCEPT !.cursor = moved]))
      /\ UNCHANGED <<ids, following>>

ReplaceAction(id, recipe) ==
  LET f == FeatureOf(doc, id)
  IN  /\ Idle("recipe")
      /\ f.kind \notin DocumentOnly /\ f.recipe # recipe
      /\ Edit(MarkDirty(WithFeature(doc, id, [f EXCEPT !.recipe = recipe]), {id}))
      /\ UNCHANGED <<ids, following>>

SetSuppressed(id) ==
  LET f == FeatureOf(doc, id)
  IN  /\ Idle("suppress")
      /\ Edit(MarkDirty(WithFeature(doc, id, [f EXCEPT !.suppressed = ~@]), {id}))
      /\ UNCHANGED <<ids, following>>

\* install_sketch_payload: a new payload at the sketch's next revision.
MayInstall(s, payload) ==
  LET f == FeatureOf(doc, Drawer(doc, s))
  IN  f.revision = doc.sketches[s].revision /\ f.recipe # payload

Installed(s, payload) ==
  LET f == FeatureOf(doc, Drawer(doc, s))
      next == f.revision + 1
  IN  MarkDirty([WithFeature(doc, f.id, [f EXCEPT !.recipe = payload, !.revision = next])
                   EXCEPT !.sketches[s].revision = next],
                {f.id})

ReplacePayload(s, payload) ==
  /\ Idle("payload")
  /\ MayInstall(s, payload) /\ doc.sketches[s].revision < MaxPayloads
  /\ ~FeatureOf(doc, Drawer(doc, s)).reads
  /\ Edit(Installed(s, payload))
  /\ UNCHANGED <<ids, following>>

\* Consuming a sketch hides it, inside the consumer's own checkpoint.
AutoHide(s) ==
  LET consumer == doc.features[Len(doc.features)]
  IN  /\ Idle("hide")
      /\ doc.features # << >>
      /\ consumer.commit # NoCommit /\ ~consumer.suppressed /\ consumer.sketch = s
      /\ ~(~doc.sketches[s].visible /\ doc.sketches[s].hiddenBy = consumer.id)
      /\ doc' = [doc EXCEPT !.sketches[s].visible = FALSE,
                            !.sketches[s].hiddenBy = consumer.id]
      /\ UNCHANGED <<ids, revision, limit, undo, redo, rebuild, following>>

SetSketchVisible(s, visible) ==
  /\ Idle("hide")
  /\ doc.sketches[s].visible # visible \/ doc.sketches[s].hiddenBy # 0
  /\ Edit([doc EXCEPT !.sketches[s].visible = visible, !.sketches[s].hiddenBy = 0])
  /\ UNCHANGED <<ids, following>>

-----------------------------------------------------------------------------
(* Changing the variable, with the sketches that follow it. *)

Readers(d) == { d.features[i].id : i \in { j \in DOMAIN d.features : d.features[j].reads } }

\* The sketches follow_variables finds a payload for and whose links read the
\* variable.
Followers(d) == { s \in DOMAIN d.sketches :
                    FeatureOf(d, Drawer(d, s)).reads /\ SketchIsResolvable(d, s) }

SetVariable(value) ==
  /\ Idle("variable")
  /\ value # doc.variable
  /\ \A s \in Followers(doc) : doc.sketches[s].revision < MaxPayloads
  /\ Edit(MarkDirty([doc EXCEPT !.variable = value], Readers(doc)))
  /\ following' = Followers(doc)
  /\ UNCHANGED ids

\* Mutant: the sketch's new payload is an edit with a checkpoint of its own.
FollowAsEdit(s) ==
  /\ s \in following /\ \A t \in following : s <= t
  /\ IF MayInstall(s, doc.variable) THEN Edit(Installed(s, doc.variable))
     ELSE UNCHANGED <<doc, undo, redo, limit, revision, rebuild>>
  /\ following' = following \ {s}
  /\ UNCHANGED ids

\* One sketch takes the new value, as part of the same edit.
FollowVariable(s) ==
  /\ s \in following /\ \A t \in following : s <= t
  /\ IF MayInstall(s, doc.variable) THEN Amend(Installed(s, doc.variable))
     ELSE UNCHANGED <<doc, undo, redo, limit, revision>>
  /\ following' = following \ {s}
  /\ UNCHANGED <<ids, rebuild>>

\* One sketch cannot take the new value: the handler takes the last edit back,
\* if the journal still has it, and asks for no more sketches.
AbandonLastEdit ==
  /\ following # {}
  /\ following' = {}
  /\ IF undo = << >> THEN UNCHANGED <<doc, undo, revision>>
     ELSE doc' = Last(undo) /\ undo' = Front(undo) /\ BumpRevision
  /\ UNCHANGED <<ids, limit, redo, rebuild>>

-----------------------------------------------------------------------------
(* Undo and redo. *)

\* Mutant: undo also gives back the identities of what it takes away.
UndoWithIdentities ==
  /\ Idle("undo")
  /\ undo # << >>
  /\ doc' = Last(undo) /\ undo' = Front(undo)
  /\ redo' = PushBounded(redo, doc)
  /\ ids' = [ids EXCEPT !.feature = Len(Last(undo).features) + 1]
  /\ BumpRevision
  /\ UNCHANGED <<limit, rebuild, following>>

Undo ==
  /\ Idle("undo")
  /\ undo # << >>
  /\ doc' = Last(undo) /\ undo' = Front(undo)
  /\ redo' = PushBounded(redo, doc)
  /\ BumpRevision
  /\ UNCHANGED <<ids, limit, rebuild, following>>

Redo ==
  /\ Idle("undo")
  /\ redo # << >>
  /\ doc' = Last(redo) /\ redo' = Front(redo)
  /\ undo' = PushBounded(undo, doc)
  /\ BumpRevision
  /\ UNCHANGED <<ids, limit, rebuild, following>>

SetUndoLimit(l) ==
  /\ Idle("limit")
  /\ l # limit
  /\ limit' = l
  /\ undo' = TrimFront(undo, l) /\ redo' = TrimFront(redo, l)
  /\ UNCHANGED <<doc, ids, revision, rebuild, following>>

\* Save, and open the saved archive: the journals are not part of it.
Reopen ==
  /\ Idle("reopen")
  /\ Loads(doc)
  /\ undo' = << >> /\ redo' = << >> /\ rebuild' = {}
  /\ UNCHANGED <<doc, ids, revision, limit, following>>

-----------------------------------------------------------------------------
(* Rebuild transactions. *)

BeginRebuild(from) ==
  /\ Idle("rebuild")
  /\ rebuild = {} /\ MayPlan(doc, from)
  /\ rebuild' = {[revision |-> revision, base |-> doc, from |-> from,
                  results |-> << >>, failed |-> FALSE]}
  /\ UNCHANGED <<doc, ids, revision, limit, undo, redo, following>>

Complete(t) == ~t.failed /\ Len(t.results) = Len(Steps(t.base, t.from))

NextStep(t) == FeatureOf(t.base, Steps(t.base, t.from)[Len(t.results) + 1])

\* The caller executes the step on the input the plan expects, else on what
\* the feature last consumed, else on the empty body.
CallerInput(t, f) ==
  LET expected == ExpectedInput(t.base, t.from, t.results, f)
  IN  CASE expected # None -> expected
        [] expected = None /\ f.commit # NoCommit -> f.commit.input
        [] OTHER -> Zero

\* The tool of a boolean is looked up among the branches of the plan.
CallerTool(t, f) ==
  IF f.tool = 0 THEN Zero ELSE BranchInput(t.base, t.from, t.results, f.tool)

RecordSuccess(t) ==
  /\ Idle("rebuild")
  /\ ~t.failed /\ ~Complete(t)
  /\ LET f == NextStep(t)
         input == CallerInput(t, f)
         tool  == CallerTool(t, f)
     IN  /\ SketchIsResolvable(t.base, f.sketch)
         /\ Accepts(f, input) /\ tool # None
         /\ rebuild' = {[t EXCEPT !.results = Append(@, Built(t.base, f, input, tool))]}
  /\ UNCHANGED <<doc, ids, revision, limit, undo, redo, following>>

RecordFailure(t) ==
  /\ Idle("rebuild")
  /\ ~t.failed /\ ~Complete(t)
  /\ rebuild' = {[t EXCEPT !.failed = TRUE]}
  /\ UNCHANGED <<doc, ids, revision, limit, undo, redo, following>>

\* Mutant: the revision is trusted when the plan still has the same steps.
RevisionIsCurrent(t) ==
  /\ t.revision = revision /\ IdsOf(t.base.features) = IdsOf(doc.features)
  /\ Steps(t.base, t.from) = Steps(doc, t.from)

\* validate_transaction_revision: nothing happened since the plan was made.
Current(t) == t.revision = revision /\ t.base = doc

CommitRebuild(t) ==
  /\ Idle("rebuild")
  /\ Current(t) /\ Complete(t)
  /\ Amend(Rebuilt(doc, t.from, t.results))
  /\ rebuild' = {}
  /\ UNCHANGED <<ids, following>>

\* A rollback, and a commit that is refused because the transaction is stale,
\* failed or incomplete: the transaction is consumed, nothing is published.
DropRebuild ==
  /\ Idle("rebuild")
  /\ rebuild # {} /\ rebuild' = {}
  /\ UNCHANGED <<doc, ids, revision, limit, undo, redo, following>>

-----------------------------------------------------------------------------
Features == IdsOf(doc.features)
Sketches == DOMAIN doc.sketches

Next ==
  \/ \E draft \in Drafts : AppendCommitted(draft) \/ AppendDirty(draft)
  \/ \E id \in Features : RemovePlane(id) \/ SetSuppressed(id) \/ BeginRebuild(id)
  \/ \E id \in Features, v \in Recipes : ReplaceAction(id, v)
  \/ \E s \in Sketches, v \in Recipes : ReplacePayload(s, v)
  \/ \E s \in Sketches : AutoHide(s) \/ FollowVariable(s)
  \/ \E s \in Sketches, b \in BOOLEAN : SetSketchVisible(s, b)
  \/ \E position \in 0..Len(doc.features) : SetHistoryPosition(position)
  \/ \E v \in Values : SetVariable(v)
  \/ AbandonLastEdit
  \/ Undo \/ Redo
  \/ \E l \in Limits : SetUndoLimit(l)
  \/ Reopen
  \/ \E t \in rebuild : RecordSuccess(t) \/ RecordFailure(t) \/ CommitRebuild(t)
  \/ DropRebuild

Spec == Init /\ [][Next]_vars

-----------------------------------------------------------------------------
(* Properties. *)

Journaled == { undo[i] : i \in DOMAIN undo } \union { redo[i] : i \in DOMAIN redo }
States == {doc} \union Journaled \union { t.base : t \in rebuild }

\* The shape of the document, its journals and the transaction.
TypeOK ==
  /\ ids.feature \in 1..(MaxIds + 1) /\ ids.body \in 1..(MaxIds + 1)
  /\ ids.sketch \in 1..(MaxIds + 1)
  /\ revision \in 0..(Revisions - 1)
  /\ limit \in Limits /\ Len(undo) <= limit /\ Len(redo) <= limit
  /\ Cardinality(rebuild) <= 1
  /\ following \subseteq Sketches
  /\ \A d \in States :
       /\ Len(d.features) <= MaxFeatures
       /\ d.variable \in Values
       /\ \A i \in DOMAIN d.features :
            LET f == d.features[i]
            IN  /\ f.kind \in Kinds
                /\ f.recipe \in Recipes \union Values \union {0}
                /\ f.dirty \in BOOLEAN /\ f.suppressed \in BOOLEAN
                /\ f.commit = NoCommit \/ (f.commit.input # None /\ f.commit.output # None)

\* No identity in the document, in a journal or in a plan can be allocated
\* again: undo gives back content and never an identity (ADR 0014, "IDs are
\* never reused ... including when the edit which allocated them is undone").
IdentitiesAreSpent ==
  \A d \in States :
    /\ \A id \in IdsOf(d.features) : id < ids.feature
    /\ \A b \in DOMAIN d.bodies : b < ids.body
    /\ \A s \in DOMAIN d.sketches : s < ids.sketch

\* history_position may panic on a cursor that names a missing feature: the
\* present, every state undo or redo can bring back and every planned state
\* keep a feature the cursor names.
CursorsAreRetained == \A d \in States : CursorIsRetained(d)

\* A clean feature carries the result of the recipe, the variable and the
\* sketch payload the document holds now: neither an edit made while a rebuild
\* was in flight nor an undo leaves a result of something else behind.
CleanIsCurrent ==
  \A i \in DOMAIN doc.features :
    LET f == doc.features[i]
        out == f.commit.output
    IN  (~f.dirty /\ f.commit # NoCommit /\ f.kind \notin DocumentOnly) =>
          out = Append(f.commit.input, OperationOf(doc, f, out[Len(out)].tool))

\* What a replay of the active recipes from nothing leaves on every body.
Replayed(d) ==
  LET omitted == Skipped(d)
      head(bodies, b) == IF b = 0 THEN Zero ELSE bodies[b]
      after[n \in 0..Position(d)] ==
        IF n = 0 THEN [b \in DOMAIN d.bodies |-> None]
        ELSE LET f == d.features[n]
                 bodies == after[n-1]
             IN  IF f.kind \in DocumentOnly \/ f.id \in omitted THEN bodies
                 ELSE [bodies EXCEPT ![IF f.makes # 0 THEN f.makes ELSE f.body] =
                         Built(d, f, IF f.makes # 0 THEN Zero ELSE head(bodies, f.body),
                               head(bodies, f.tool)).output]
  IN  after[Position(d)]

\* When nothing in the active prefix is dirty, every body is exactly what
\* replaying the recipes from nothing would build, whatever sequence of edits,
\* partial rebuilds, undos and cursor moves led here.
SettledIsReplayed ==
  (\A i \in 1..Position(doc) : ~doc.features[i].dirty) =>
    \A b \in DOMAIN doc.bodies : doc.bodies[b].snapshot = Replayed(doc)[b]

\* Every body a rebuild step takes, its input and the tool of a boolean, is at
\* hand when the step's turn comes.
StepsHaveTheirOperands ==
  \A t \in rebuild :
    (~t.failed /\ ~Complete(t)) => CallerTool(t, NextStep(t)) # None

\* Whatever the calls, a saved document passes the loader's validation: no
\* sequence of legal calls saves a file that cannot be opened again.
SavedDocumentLoads == Loads(doc)

\* Each following sketch before the history cursor is at the variable's value.
SketchesAgree(d) ==
  \A s \in DOMAIN d.sketches :
    LET f == FeatureOf(d, Drawer(d, s))
    IN  (f.reads /\ f.id \in IdsOf(Active(d))) => f.recipe = d.variable

\* Every state undo and redo can bring back has each following sketch at the
\* value of its variable, and so has the present once the handler returned:
\* "one undo takes back the variable and every sketch that followed it".
SketchesFollowTheVariable ==
  /\ \A d \in Journaled : SketchesAgree(d)
  /\ following = {} => SketchesAgree(doc)

\* The journals are a line of document states and a place on it.
Line == INSTANCE EditHistory WITH
          past <- undo, present <- doc,
          future <- [i \in DOMAIN redo |-> redo[Len(redo) + 1 - i]]
LineOfStates == Line!Spec
=============================================================================
