------------------------- MODULE SketchTransactions -------------------------
(***************************************************************************)
(* A sketch as an ordered list of operations that are replayed, the        *)
(* transactions that edit it (crates/sketch: transaction.rs and            *)
(* definition.rs), and the canvas that stages, confirms, drags, undoes and *)
(* follows named values (crates/sketch-ui).                                *)
(*                                                                         *)
(* An operation draws pieces, one for each output role: a piece stands for *)
(* a curve and the point that it adds.  (The canvas never draws from a     *)
(* point that is there: it gives positions, and joins them by relations.)  *)
(* Coordinates are left out; where the outcome hangs on them (how many     *)
(* fragments a trim leaves, whether a stroke ends on a point), every       *)
(* outcome is taken, and a refusal for geometry's sake is a step that is   *)
(* not taken.  Visibility, labels, support curves, links of dimensions and *)
(* the resource limits are left out.                                       *)
(***************************************************************************)
EXTENDS Integers, Sequences, SequencesExt

CONSTANTS
    Counts,         \* values of a parameter (a size, a pattern's count) and of the variable
    Fragments,      \* how many a trim may leave of its target
    JournalLength,  \* capacity of the undo journal (128 in the code)
    Tools,          \* which of its operations the canvas is given
    MaxOperations,  \* Bound: operations ever numbered
    MaxPieces,      \* Bound: pieces ever numbered
    MaxSketchRevision  \* Bound: revision of the sketch

ASSUME JournalAssumption == JournalLength \in Nat \ {0}

\* No parameter says 0: that is what a recipe without one has.
ASSUME CountsAssumption == Counts \subseteq Nat \ {0} /\ Fragments \subseteq Nat

VARIABLES
    canvas,   \* [now, past, future]: authoring, and the undo journal
    pending,  \* the edit at the gate, or NoEdit
    named,    \* the value of the variable that entries are typed over
    stale,    \* linked_values_stale
    issue,    \* linked_value_issue is set
    meant     \* history: what each name of a published sketch stood for

sketchVars == <<canvas, pending, named, stale, issue, meant>>

-----------------------------------------------------------------------------
(* Recipes, operations and pieces.                                         *)

\* reads: the curves it needs.  takes: those it replaces (consumed_entities).
\* value: what its parameter says, 0 for a line, which is given none.
Recipe(kind, reads, takes, value) ==
    [kind |-> kind, reads |-> reads, takes |-> takes, value |-> value]

Stroke(size) == Recipe("stroke", {}, {}, size)
ProjectedEdge == Recipe("edge", {}, {}, 0)
Pattern(source, count) == Recipe("pattern", {source}, {}, count)
Trim(target, limits) == Recipe("trim", {target} \cup limits, {target}, 0)

\* How many pieces evaluating it may draw.
Sizes(recipe) ==
    CASE recipe.kind = "trim" -> Fragments
      [] recipe.kind = "pattern" -> {recipe.value}
      [] OTHER -> {1}

Drawn(o, role) == [op |-> o, role |-> role, curve |-> TRUE, point |-> TRUE, by |-> 0]

EmptySketch ==
    [operations |-> <<>>, pieces |-> [p \in {} |-> Drawn(0, 0)], relations |-> {},
     links |-> {}, operationMark |-> 0, pieceMark |-> 0, revision |-> 0]

Index(d, o) == CHOOSE i \in DOMAIN d.operations : d.operations[i].id = o
Owner(d, p) == d.operations[Index(d, d.pieces[p].op)]
Active(d) == {op \in ToSet(d.operations) : op.active}
Points(d) == {p \in DOMAIN d.pieces : d.pieces[p].point}
Curves(d) == {p \in DOMAIN d.pieces : d.pieces[p].curve}

\* evaluate_recipe, as far as it depends on what else is in the sketch.
Evaluable(curves, recipe) == recipe.reads \subseteq curves

-----------------------------------------------------------------------------
(* What is checked of a candidate (validate_with_inputs).                  *)

Listed(d, p) ==
    LET owner == Owner(d, p)
    IN  /\ owner.active
        /\ d.pieces[p].role \in DOMAIN owner.made
        /\ owner.made[d.pieces[p].role] = p

CurveStands(d, p) == Listed(d, p) /\ d.pieces[p].point

SupersessionStands(d, p) ==
    LET o == d.pieces[p].by
    IN  /\ ~d.pieces[p].curve
        /\ \E i \in DOMAIN d.operations :
               /\ d.operations[i].id = o /\ d.operations[i].active
               /\ p \in d.operations[i].recipe.takes
               /\ i > Index(d, d.pieces[p].op)

RelationStands(d, relation) == relation \subseteq Points(d)

MarksStand(d) ==
    /\ \A op \in ToSet(d.operations) : op.id <= d.operationMark
    /\ \A p \in DOMAIN d.pieces : p <= d.pieceMark

\* The curves that stand where operation i is evaluated: drawn by an operation
\* before it, and not taken since.
Standing(d, i) ==
    {p \in DOMAIN d.pieces :
        \E a \in 1..(i - 1) :
            /\ d.operations[a].active /\ p \in ToSet(d.operations[a].made)
            /\ \A b \in a..(i - 1) :
                   d.operations[b].active => p \notin d.operations[b].recipe.takes}

\* verify_evaluated_caches: the active recipes are evaluated one after the
\* other on what came before them.
CachesAgree(d) ==
    \A i \in {j \in DOMAIN d.operations : d.operations[j].active} :
        LET op == d.operations[i]
        IN  /\ Evaluable(Standing(d, i), op.recipe)
            /\ Len(op.made) \in Sizes(op.recipe)
            /\ \A p \in ToSet(op.made) :
                   d.pieces[p].point /\ (d.pieces[p].curve \/ d.pieces[p].by # 0)

Valid(d) ==
    /\ \A p \in Points(d) : Listed(d, p)
    /\ \A p \in Curves(d) : CurveStands(d, p)
    /\ \A p \in DOMAIN d.pieces : d.pieces[p].by # 0 => SupersessionStands(d, p)
    /\ \A relation \in d.relations : RelationStands(d, relation)
    /\ MarksStand(d)
    /\ CachesAgree(d)

Checked(candidates) == {c \in candidates : Valid(c)}

-----------------------------------------------------------------------------
(* The steps candidates are made of.                                       *)

\* supersede_consumed_entities
Consumed(d, o, takes) ==
    [d EXCEPT !.pieces = [p \in DOMAIN @ |->
        IF p \in takes THEN [@[p] EXCEPT !.curve = FALSE, !.by = o] ELSE @[p]]]

\* Mutant of Restored: it forgets who took them, and nothing else.
Released(d, o) ==
    [d EXCEPT !.pieces = [p \in DOMAIN @ |->
        IF @[p].by = o THEN [@[p] EXCEPT !.by = 0] ELSE @[p]]]

\* restore_entities_superseded_by
Restored(d, o) ==
    [d EXCEPT !.pieces = [p \in DOMAIN @ |->
        IF @[p].by = o THEN [@[p] EXCEPT !.curve = Owner(d, p).active, !.by = 0]
                       ELSE @[p]]]

\* deactivate_operation_outputs
Darkened(d, out) ==
    [d EXCEPT !.pieces = [p \in DOMAIN @ |->
        IF p \in out THEN [@[p] EXCEPT !.curve = FALSE, !.point = FALSE] ELSE @[p]]]

\* The outputs of operation o, by role.
Lit(pieces, o, made) ==
    [p \in DOMAIN pieces \cup ToSet(made) |->
        IF p \in ToSet(made) THEN Drawn(o, CHOOSE r \in DOMAIN made : made[r] = p)
                             ELSE pieces[p]]

-----------------------------------------------------------------------------
(* Staging: the candidates an edit may come out as, none if it is refused. *)

Added(d, recipe, size) ==
    LET o == d.operationMark + 1
        made == [r \in 1..size |-> d.pieceMark + r]
        operation == [id |-> o, recipe |-> recipe, made |-> made, active |-> TRUE]
    IN  Consumed([d EXCEPT !.operations = Append(@, operation),
                           !.pieces = Lit(@, o, made),
                           !.operationMark = o, !.pieceMark = @ + size,
                           !.revision = @ + 1],
                 o, recipe.takes)

\* stage_with_inputs.  append_modifier is the same on a candidate whose
\* revision is first put back.
Staged(d, recipe) ==
    IF Evaluable(Curves(d), recipe)
        THEN Checked({Added(d, recipe, size) : size \in Sizes(recipe)})
        ELSE {}

\* stage_constraints and append_constraints
Related(d, relation) ==
    IF relation \subseteq Points(d)
        THEN Checked({[d EXCEPT !.relations = @ \cup {relation}, !.revision = @ + 1]})
        ELSE {}

\* apply_replacement: roles that remain keep their names, others get new ones.
Redrawn(d, i, size) ==
    LET op == d.operations[i]
        kept == Len(op.made)
        made == [r \in 1..size |->
                    IF r <= kept THEN op.made[r] ELSE d.pieceMark + r - kept]
    IN  Consumed([d EXCEPT !.operations[i].made = made,
                           !.pieces = Lit(@, op.id, made),
                           !.pieceMark = IF size > kept THEN @ + size - kept ELSE @],
                 op.id, op.recipe.takes)

\* One turn of stage_replace's loop.
Replayed(d, i) ==
    LET op == d.operations[i]
        dark == Darkened(Restored(d, op.id), ToSet(op.made))
    IN  CASE ~op.active -> {d}
          [] op.active /\ Evaluable(Curves(dark), op.recipe) ->
                 {Redrawn(dark, i, size) : size \in Sizes(op.recipe)}
          [] OTHER -> {}

\* stage_replace: the operation and all later ones are replayed.
Replaced(d, o, recipe) ==
    LET first == Index(d, o)
        start == [Restored(d, o) EXCEPT !.operations[first].recipe = recipe,
                                        !.revision = @ + 1]
        outcomes[n \in 0..(Len(d.operations) - first + 1)] ==
            IF n = 0 THEN {start}
            ELSE UNION {Replayed(c, first + n - 1) : c \in outcomes[n - 1]}
    IN  Checked(outcomes[Len(d.operations) - first + 1])

\* The operations that go with operation o: what was drawn from it or out of
\* it.  References point backwards, so one pass finds them all.
Dependents(d, o) ==
    LET Outputs(gone) ==
            UNION {ToSet(op.made) : op \in {q \in ToSet(d.operations) : q.id \in gone}}
        Needs(op, gone) == op.recipe.reads \cap Outputs(gone) # {}
        Cascade(gone, op) ==
            IF op.active /\ Needs(op, gone) THEN gone \cup {op.id} ELSE gone
    IN  FoldLeft(Cascade, {o}, d.operations)

\* retire_operation
Without(d, o) ==
    LET i == Index(d, o)
    IN  Darkened([Restored(d, o) EXCEPT !.operations[i].active = FALSE],
                 ToSet(d.operations[i].made))

\* stage_retire_operation, which cascades; the oldest goes first.
Retired(d, o) ==
    LET gone == Dependents(d, o)
        rest[n \in 0..Len(d.operations)] ==
            IF n = 0 THEN d
            ELSE IF d.operations[n].id \in gone
            THEN Without(rest[n - 1], d.operations[n].id)
            ELSE rest[n - 1]
    IN  Checked({[rest[Len(d.operations)] EXCEPT !.revision = @ + 1]})

-----------------------------------------------------------------------------
(* Publishing, and the journal.                                            *)

\* prune_value_links
Pruned(d) == [d EXCEPT !.links = @ \cap {op.id : op \in Active(d)}]

\* push_undo
Pushed(past, d) ==
    Append(IF Len(past) = JournalLength THEN Tail(past) ELSE past, d)

\* SketchUndoJournal::confirm
Confirmed(h, candidate) ==
    [now |-> Pruned(candidate), past |-> Pushed(h.past, h.now), future |-> <<>>]

\* commit without the journal
Replacing(h, candidate) == [h EXCEPT !.now = Pruned(candidate)]

\* Mutant of Preserving: the sketch comes back with the marks it had.
AsItWas(d, marks) == d

\* preserve_high_water_marks
Preserving(d, marks) ==
    [d EXCEPT !.operationMark = IF @ < marks.operationMark THEN marks.operationMark ELSE @,
              !.pieceMark = IF @ < marks.pieceMark THEN marks.pieceMark ELSE @]

TakenBack(h) ==
    [now |-> Preserving(Last(h.past), h.now), past |-> Front(h.past),
     future |-> Append(h.future, h.now)]

BroughtBack(h) ==
    [now |-> Preserving(Last(h.future), h.now), past |-> Pushed(h.past, h.now),
     future |-> Front(h.future)]

\* One turn of its loop, on what the turns before came to.
Again(d, x, o, value) ==
    LET recipe == [x.now.operations[Index(x.now, o)].recipe EXCEPT !.value = value]
        again == Replaced(x.now, o, recipe)
    IN  IF \/ ~x.done \/ o \notin {op.id : op \in Active(x.now)}
           \/ recipe = x.now.operations[Index(x.now, o)].recipe
        THEN {x}
        ELSE IF again = {}
        THEN {[done |-> FALSE, now |-> d]}
        ELSE {[done |-> TRUE, now |-> Pruned(c)] : c \in again}

\* regenerate_linked_values: each linked operation is worked out again, the
\* oldest first and one revision each, and the first that is refused leaves
\* the sketch as it was.
Followed(d, value) ==
    LET outcomes[n \in 0..Len(d.operations)] ==
            IF n = 0 THEN {[done |-> TRUE, now |-> d]}
            ELSE IF d.operations[n].id \in d.links
            THEN UNION {Again(d, x, d.operations[n].id, value) : x \in outcomes[n - 1]}
            ELSE outcomes[n - 1]
    IN  outcomes[Len(d.operations)]

-----------------------------------------------------------------------------
(* The canvas.                                                             *)

sketch == canvas.now
NoEdit == [kind |-> "none"]

\* Bounds.
Small(d) ==
    /\ d.operationMark <= MaxOperations /\ d.pieceMark <= MaxPieces
    /\ d.revision <= MaxSketchRevision

\* base is history: the sketch it was staged on, which the code knows only
\* by the revision it expects.  subject: the operation that is retyped.
Gated(kind, subject, c) ==
    [kind |-> kind, subject |-> subject, expected |-> sketch.revision,
     candidate |-> c, base |-> sketch]

Stage(kind, subject, candidates) ==
    /\ pending = NoEdit
    /\ \E c \in candidates : Small(c) /\ pending' = Gated(kind, subject, c)
    /\ UNCHANGED <<canvas, named, stale, issue, meant>>

\* What the names of a sketch stand for.
Meaning(d) ==
    {[name |-> p, op |-> d.pieces[p].op, role |-> d.pieces[p].role,
      kind |-> Owner(d, p).recipe.kind] : p \in DOMAIN d.pieces}

Shows(h) ==
    /\ Small(h.now)
    /\ canvas' = h
    /\ meant' = meant \cup Meaning(h.now)

SketchInit ==
    /\ canvas = [now |-> EmptySketch, past |-> <<>>, future |-> <<>>]
    /\ pending = NoEdit
    /\ named \in Counts
    /\ stale = FALSE /\ issue = FALSE /\ meant = {}

\* stage_geometry: a stroke is worked out only when it is confirmed.
StageStroke(size) ==
    /\ pending = NoEdit
    /\ pending' = [kind |-> "stroke", size |-> size]
    /\ UNCHANGED <<canvas, named, stale, issue, meant>>

StagePattern(source, count) == Stage("new", 0, Staged(sketch, Pattern(source, count)))

\* The curves of the sketch's own.  (What the body lent it is not trimmed or
\* repeated here.)
Authored(d) == {p \in Curves(d) : Owner(d, p).recipe.kind # "edge"}

\* A click of the trim tool: every other curve of its role limits the span.
Click(d, target) ==
    IF Authored(d) = {target} THEN {} ELSE Staged(d, Trim(target, Authored(d) \ {target}))

StageTrim(target) == Stage("trim", 0, Click(sketch, target))

\* append_pending_trim: another click, on the candidate.  It asks only for a
\* candidate whose last operation is a trim.
AppendTrim(target) ==
    /\ pending.kind \in {"trim", "delete"}
    /\ Last(pending.candidate.operations).recipe.kind = "trim"
    /\ LET behind == [pending.candidate EXCEPT !.revision = pending.expected]
       IN  \E c \in Click(behind, target) :
               Small(c) /\ pending' = [pending EXCEPT !.candidate = c]
    /\ UNCHANGED <<canvas, named, stale, issue, meant>>

StageRelation(relation) == Stage("relation", 0, Related(sketch, relation))

\* stage_delete_selected
StageDelete(o) == Stage("delete", 0, Retired(sketch, o))

\* set_selected_recipe_parameter_text: typed as a number, or over the variable.
Typed(o, value, follows) ==
    LET recipe == [sketch.operations[Index(sketch, o)].recipe EXCEPT !.value = value]
    IN  {[c EXCEPT !.links = IF follows THEN @ \cup {o} ELSE @ \ {o}] :
             c \in Replaced(sketch, o, recipe)}

Sized == {op.id : op \in {q \in Active(sketch) : q.recipe.value # 0}}

StageParameter(o, value, follows) ==
    /\ follows => value = named
    /\ Stage("edit", o, Typed(o, value, follows))

\* Typed again, it is staged anew on the sketch.
RetypeParameter(o, value, follows) ==
    /\ pending.kind = "edit"
    /\ pending.subject = o
    /\ follows => value = named
    /\ \E c \in Typed(o, value, follows) : Small(c) /\ pending' = Gated("edit", o, c)
    /\ UNCHANGED <<canvas, named, stale, issue, meant>>

\* auto_coincidences: the points of a new stroke may be joined to points that
\* are there.  A join that is refused is dropped.
Joined(c, expected) ==
    LET fresh == ToSet(Last(c.operations).made)
        pairs == {{p, q} : p \in fresh, q \in Points(c) \ fresh}
    IN  {c} \cup {[j EXCEPT !.revision = expected + 1] :
                     j \in UNION {Related(c, pair) : pair \in pairs}}

\* link_draft_values: a stroke whose size was typed over the variable follows
\* it, where it still comes to the size that was drawn.
Linked(c) ==
    LET drawn == Last(c.operations)
    IN  {c} \cup (IF drawn.recipe.value = named
                    THEN {[c EXCEPT !.links = @ \cup {drawn.id}]} ELSE {})

\* What the edit at the gate may come out as.
Finished ==
    IF pending.kind = "stroke"
        THEN UNION {Linked(c) : c \in UNION {Joined(s, sketch.revision) :
                                            s \in Staged(sketch, Stroke(pending.size))}}
        ELSE {c \in {pending.candidate} : pending.expected = sketch.revision /\ Valid(c)}

\* commit_pending
ConfirmPending ==
    /\ pending # NoEdit
    /\ \E c \in Finished : Shows(Confirmed(canvas, c))
    /\ pending' = NoEdit
    /\ UNCHANGED <<named, stale, issue>>

CancelPending ==
    /\ pending # NoEdit
    /\ pending' = NoEdit
    /\ UNCHANGED <<canvas, named, stale, issue, meant>>

\* reshape_selected: the recipe moves, and is committed past the journal.
\* What the body lent is not dragged.
Drag(o) ==
    /\ pending = NoEdit
    /\ sketch.operations[Index(sketch, o)].recipe.kind # "edge"
    /\ LET recipe == sketch.operations[Index(sketch, o)].recipe
       IN  \E c \in Replaced(sketch, o, recipe) : Shows(Replacing(canvas, c))
    /\ UNCHANGED <<pending, named, stale, issue>>

\* project_support_segment: an edit at the gate is confirmed first; an edge
\* that is there already is used again; a new one is pinned by an edit of its
\* own.
Projected(h) ==
    LET edges == {Confirmed(h, c) : c \in Staged(h.now, ProjectedEdge)}
        Pins(e) == Related(e.now, ToSet(Last(e.now.operations).made))
    IN  IF \E op \in Active(h.now) : op.recipe.kind = "edge" THEN {h}
        ELSE UNION {{Confirmed(e, c) : c \in Pins(e)} : e \in edges}

Project ==
    /\ \E h \in IF pending = NoEdit THEN {canvas}
                ELSE {Confirmed(canvas, c) : c \in Finished} :
           \E after \in Projected(h) : Shows(after)
    /\ pending' = NoEdit
    /\ UNCHANGED <<named, stale, issue>>

\* Mutant of Settled: only a stroke that is being drawn is in the way.
NothingDrawn == pending.kind # "stroke"

\* can_undo_local and can_redo_local
Settled == pending = NoEdit

\* Mutant of FollowedThen: what comes back is taken to be up to date.
FollowedNow(d) == FALSE

\* What comes back followed the variable as it was.
FollowedThen(d) == d.links # {}

\* undo_local and redo_local
UndoLocal ==
    /\ Settled
    /\ canvas.past # <<>>
    /\ Shows(TakenBack(canvas))
    /\ stale' = FollowedThen(canvas'.now)
    /\ UNCHANGED <<pending, named, issue>>

RedoLocal ==
    /\ Settled
    /\ canvas.future # <<>>
    /\ Shows(BroughtBack(canvas))
    /\ stale' = FollowedThen(canvas'.now)
    /\ UNCHANGED <<pending, named, issue>>

\* set_named_values, called with every frame.  A typed parameter is settled
\* before the variables window can be reached.
SetNamedValues(value) ==
    /\ value # named => pending.kind # "edit"
    /\ LET due == IF value # named THEN sketch.links # {} ELSE stale
       IN  /\ named' = value
           /\ IF due /\ pending = NoEdit
                  THEN \E x \in Followed(sketch, value) :
                           /\ Shows(Replacing(canvas, x.now))
                           /\ issue' = ~x.done /\ stale' = FALSE
                  ELSE stale' = due /\ UNCHANGED <<canvas, issue, meant>>
    /\ UNCHANGED pending

SketchNext ==
    \/ "line" \in Tools /\ StageStroke(0)
    \/ "circle" \in Tools /\ \E size \in Counts : StageStroke(size)
    \/ "pattern" \in Tools /\ \E source \in Authored(sketch), count \in Counts :
           StagePattern(source, count)
    \/ "trim" \in Tools /\ \E target \in Authored(sketch) : StageTrim(target)
    \/ "trim" \in Tools /\ pending.kind \in {"trim", "delete"} /\
           \E target \in Authored(pending.candidate) : AppendTrim(target)
    \/ "relation" \in Tools /\ \E p, q \in Points(sketch) : p < q /\ StageRelation({p, q})
    \/ "delete" \in Tools /\ \E op \in Active(sketch) : StageDelete(op.id)
    \/ "drag" \in Tools /\ \E op \in Active(sketch) : Drag(op.id)
    \/ "parameter" \in Tools /\ \E o \in Sized, value \in Counts, follows \in BOOLEAN :
           StageParameter(o, value, follows) \/ RetypeParameter(o, value, follows)
    \/ ConfirmPending \/ CancelPending
    \/ "project" \in Tools /\ Project
    \/ "undo" \in Tools /\ (UndoLocal \/ RedoLocal)
    \/ "variable" \in Tools /\ \E value \in Counts : SetNamedValues(value)

SketchSpec == SketchInit /\ [][SketchNext]_sketchVars

-----------------------------------------------------------------------------
(* Properties.                                                             *)

\* An edit at the gate was staged on the sketch that is shown.  It is told from
\* another by its revision alone, and undo takes revisions back that later
\* edits give out again; so every step that shows another sketch must have
\* settled the edit.  (commit_pending would put an edit that is refused back
\* without the candidate it held: this is why it is never refused.)
StagedOnThePresent ==
    pending.kind \notin {"none", "stroke"} =>
        pending.base = sketch /\ pending.expected = sketch.revision

\* A name, once published, stands for one thing for ever: undo, an edit that
\* takes another turn and redo never give the name of a piece away again.
NamesMeanOneThing == \A m, n \in meant : m.name = n.name => m = n

\* Committing an operation with the recipe it has can always come out as the
\* sketch it was; and it is refused in one case only: where the replay meets
\* an operation that reads a curve drawn before the replay starts and taken
\* since by an operation that comes after, which has not given it back yet.
BlockedReplay(d, o) ==
    \E i, j \in Index(d, o)..Len(d.operations) :
        /\ i < j /\ d.operations[i].active
        /\ \E p \in d.operations[i].recipe.reads :
               Index(d, d.pieces[p].op) < Index(d, o) /\ d.pieces[p].by = d.operations[j].id

ReplayChangesNothing ==
    pending = NoEdit => \A op \in Active(sketch) :
        LET again == Replaced(sketch, op.id, op.recipe)
        IN  IF BlockedReplay(sketch, op.id)
                THEN again = {}
                ELSE [sketch EXCEPT !.revision = @ + 1] \in again

\* An operation that follows the variable is drawn from its present value,
\* unless that is known to be due or to have failed: undo and redo bring back
\* sketches that followed an earlier value.
LinkedValuesFollow ==
    ~stale /\ ~issue =>
        \A op \in Active(sketch) : op.id \in sketch.links => op.recipe.value = named

\* "A projection is committed geometry, so it is undoable, persisted,
\* selectable, and deletable like anything else in the sketch" (ADR 0042): the
\* deletion of a projected edge is not refused.
ProjectionIsDeletable ==
    pending = NoEdit => \A op \in Active(sketch) :
        op.recipe.kind = "edge" => Retired(sketch, op.id) # {}

=============================================================================
