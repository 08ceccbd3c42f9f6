--------------------------- MODULE DocumentState ---------------------------
(***************************************************************************)
(* The parametric document of crates/model/src/lib.rs as a value: the      *)
(* ordered feature timeline, the bodies and sketches it produces, the      *)
(* variable its recipes read, the history cursor, and the pure functions   *)
(* the operations of ModelDocument are made of.  No variable is declared   *)
(* here; ModelDocument and DocumentSession act on values of this module.   *)
(*                                                                         *)
(* Abstractions.  A snapshot is the sequence of kernel operations that     *)
(* built it, which is what a content address stands for.  A recipe, a      *)
(* payload and the value of the variable are small numbers.  Labels,       *)
(* visibility of bodies, read-only flags, components and joints are left   *)
(* out, and no feature modifies an existing sketch (no caller does).       *)
(***************************************************************************)
EXTENDS Integers, Sequences, FiniteSets

CONSTANT Refused   \* pairs <<v, w>>: the kernel refuses recipe w on a body
                   \* whose last operation is v

DocumentOnly == {"sketch", "plane"}   \* replay actions the kernel never sees
Kinds == DocumentOnly \union {"extrude", "add", "boolean"}

-----------------------------------------------------------------------------
(* Snapshots and kernel results. *)

Operation(recipe, variable, payload, tool) ==
  [recipe |-> recipe, variable |-> variable, payload |-> payload, tool |-> tool]

Zero == << >>                            \* SnapshotId::ZERO, the empty body
None == << Operation(-1, -1, -1, Zero) >>  \* Option::None
Commit(input, output) == [input |-> input, output |-> output]
NoCommit == Commit(None, None)

-----------------------------------------------------------------------------
(* The timeline. *)

Start == 0     \* HistoryCursor::Start
End == -1    \* HistoryCursor::End; After(f) is the identity f itself

IdsOf(features) == { features[i].id : i \in DOMAIN features }
IndexOf(features, id) == CHOOSE i \in DOMAIN features : features[i].id = id
FeatureOf(d, id) == d.features[IndexOf(d.features, id)]

\* How many features are active.  The code panics on a cursor that names no
\* feature; here such a cursor stands at the start.
Position(d) ==
  IF d.cursor = End THEN Len(d.features)
  ELSE Cardinality({ i \in DOMAIN d.features :
                       \E j \in i..Len(d.features) : d.features[j].id = d.cursor })

Cursor(d, position) ==
  CASE position = Len(d.features) -> End
    [] position = 0 /\ d.features # << >> -> Start
    [] OTHER -> d.features[position].id

CursorIsRetained(d) == d.cursor \in {Start, End} \union IdsOf(d.features)

Active(d) == SubSeq(d.features, 1, Position(d))

\* The features of a timeline that depend on one of `roots`, and the roots.
Downstream(features, roots) ==
  LET reached[n \in 0..Len(features)] ==
        IF n = 0 THEN {}
        ELSE LET f == features[n]
             IN  IF f.id \in roots \/ f.deps \intersect reached[n-1] # {}
                 THEN reached[n-1] \union {f.id} ELSE reached[n-1]
  IN  reached[Len(features)]

\* The features `id` depends on, directly or not.
Upstream(features, id) ==
  { g \in IdsOf(features) : g # id /\ id \in Downstream(features, {g}) }

MarkDirty(d, roots) ==
  LET impacted == Downstream(d.features, roots \intersect IdsOf(d.features))
  IN  [d EXCEPT !.features =
         [i \in DOMAIN @ |-> IF @[i].id \in impacted
                             THEN [@[i] EXCEPT !.dirty = TRUE] ELSE @[i]]]

WithFeature(d, id, f) == [d EXCEPT !.features[IndexOf(d.features, id)] = f]

-----------------------------------------------------------------------------
(* Bodies and sketches: what the active prefix of the timeline produces. *)

Branches(d, f) ==
  IF f.kind = "boolean" THEN {f.body}
  ELSE ({f.body, f.makes} \union
        (IF f.sketch = 0 THEN {} ELSE {d.sketches[f.sketch].support})) \ {0}

\* The first sketch a body-less feature is committed on is whatever is shown.
Shown(d) == IF d.head = None THEN Zero ELSE d.head

Blank(d) == [bodies   |-> [b \in DOMAIN d.bodies |-> None],
             sketches |-> [s \in DOMAIN d.sketches |-> [snapshot |-> None, revision |-> 0]],
             head     |-> None]

Attached(d, f, heads) ==
  \A b \in Branches(d, f) :
    f.commit.input = (IF d.bodies[b].madeBy = f.id THEN Zero ELSE heads.bodies[b])

Absorb(d, heads, f) ==
  LET built == f.commit # NoCommit /\ Attached(d, f, heads)
      drawn == IF built /\ f.draws # 0
               THEN [heads.sketches EXCEPT ![f.draws] =
                       [snapshot |-> f.commit.output, revision |-> f.revision]]
               ELSE heads.sketches
  IN  [bodies   |-> [b \in DOMAIN heads.bodies |->
                       IF built /\ b \in Branches(d, f) THEN f.commit.output
                                                        ELSE heads.bodies[b]],
       sketches |-> IF f.dirty /\ f.draws # 0
                    THEN [drawn EXCEPT ![f.draws].revision = f.revision] ELSE drawn,
       head     |-> IF built THEN f.commit.output ELSE heads.head]

\* What the first n features of the timeline leave.
Heads(d, n) ==
  LET after[i \in 0..n] == IF i = 0 THEN Blank(d) ELSE Absorb(d, after[i-1], d.features[i])
  IN  after[n]

Reconciled(d) ==
  LET heads == Heads(d, Position(d))
  IN  [d EXCEPT !.bodies   = [b \in DOMAIN @ |-> [@[b] EXCEPT !.snapshot = heads.bodies[b]]],
                !.sketches = [s \in DOMAIN @ |->
                                [@[s] EXCEPT !.snapshot = heads.sketches[s].snapshot,
                                             !.revision = heads.sketches[s].revision]],
                !.head = heads.head]

-----------------------------------------------------------------------------
(* What the kernel makes of a recipe. *)

\* The feature whose recipe is the current payload of sketch s.
Drawer(d, s) == d.sketches[s].madeBy
SketchIsResolvable(d, s) ==
  s # 0 => d.sketches[s].revision = FeatureOf(d, Drawer(d, s)).revision

OperationOf(d, f, tool) ==
  Operation(f.recipe,
            IF f.reads THEN d.variable ELSE 0,
            IF f.sketch = 0 THEN 0 ELSE FeatureOf(d, Drawer(d, f.sketch)).recipe,
            tool)

\* The kernel adds to a body and combines bodies only where there is one, and
\* it refuses some recipes on some bodies.
Accepts(f, input) ==
  /\ f.kind \in {"add", "boolean"} => input # Zero
  /\ (f.kind \notin DocumentOnly /\ input # Zero) =>
       <<input[Len(input)].recipe, f.recipe>> \notin Refused

Built(d, f, input, tool) ==
  Commit(input, IF f.kind \in DocumentOnly THEN input
                ELSE Append(input, OperationOf(d, f, tool)))

-----------------------------------------------------------------------------
(* Appending. *)

Producers(d, draft) ==
  { d.bodies[b].last : b \in {draft.body, draft.tool} \ {0} }
    \union { Drawer(d, s) : s \in {draft.sketch} \ {0} }
    \union ({draft.plane} \ {0})

NodeOf(d, ids, draft, commit) ==
  [id |-> ids.feature, kind |-> draft.kind, recipe |-> draft.recipe,
   reads |-> draft.reads,
   body |-> draft.body, tool |-> draft.tool, sketch |-> draft.sketch,
   plane |-> draft.plane,
   makes |-> IF draft.kind = "extrude" THEN ids.body ELSE 0,
   draws |-> IF draft.kind = "sketch" THEN ids.sketch ELSE 0,
   revision |-> IF draft.kind = "sketch" THEN 1 ELSE 0,
   deps |-> Producers(d, draft),
   suppressed |-> FALSE, dirty |-> commit = NoCommit, commit |-> commit]

InputsExist(d, draft) ==
  /\ {draft.body, draft.tool} \ {0} \subseteq DOMAIN d.bodies
  /\ {draft.sketch} \ {0} \subseteq DOMAIN d.sketches
  /\ {draft.plane} \ {0} \subseteq IdsOf(d.features)

\* A feature stays on one body: no sketch of another body, no new body from a
\* sketch on a face, and a boolean takes two different bodies.
OneBranch(d, draft) ==
  LET support == IF draft.sketch = 0 THEN 0 ELSE d.sketches[draft.sketch].support
  IN  /\ draft.kind = "extrude" => support = 0
      /\ draft.kind = "add"     => support \in {0, draft.body}
      /\ draft.kind = "boolean" => draft.tool # draft.body

MayAppend(d, draft) ==
  Position(d) = Len(d.features) /\ InputsExist(d, draft) /\ OneBranch(d, draft)

\* A committed append stands on what its dependencies last built.
Ready(d, draft) ==
  /\ \A g \in Producers(d, draft) :
       LET p == FeatureOf(d, g) IN ~p.dirty /\ ~p.suppressed /\ p.commit # NoCommit
  /\ draft.body # 0 => d.bodies[draft.body].snapshot # None

InputOf(d, draft) ==
  IF draft.body # 0 THEN d.bodies[draft.body].snapshot
  ELSE IF draft.kind = "extrude" THEN Zero ELSE Shown(d)

With(f, key, value) ==
  [k \in DOMAIN f \union {key} |-> IF k = key THEN value ELSE f[k]]

Appended(d, node) ==
  LET out == node.commit.output
      touched == IF node.makes # 0 THEN
                   With(d.bodies, node.makes,
                        [madeBy |-> node.id, last |-> node.id, snapshot |-> out])
                 ELSE IF node.body # 0 /\ node.kind \notin DocumentOnly THEN
                   [d.bodies EXCEPT ![node.body].last = node.id,
                                    ![node.body].snapshot = IF out = None THEN @ ELSE out]
                 ELSE d.bodies
  IN  [d EXCEPT !.features = Append(@, node),
                !.bodies = touched,
                !.sketches = IF node.draws = 0 THEN @
                             ELSE With(@, node.draws,
                                       [madeBy |-> node.id, support |-> node.body,
                                        revision |-> node.revision, snapshot |-> out,
                                        visible |-> TRUE, hiddenBy |-> 0]),
                !.cursor = End,
                !.head = IF out = None THEN @ ELSE out]

AllocatedAfter(ids, node) ==
  [feature |-> ids.feature + 1,
   body    |-> IF node.makes = 0 THEN ids.body ELSE ids.body + 1,
   sketch  |-> IF node.draws = 0 THEN ids.sketch ELSE ids.sketch + 1]

-----------------------------------------------------------------------------
(* Planning a rebuild. *)

\* Features of the active prefix replay leaves out: the suppressed ones and
\* whatever depends on one.
Skipped(d) ==
  Downstream(Active(d), { f.id : f \in { d.features[i] :
    i \in { j \in 1..Position(d) : d.features[j].suppressed } } })

MayPlan(d, from) ==
  /\ from \in IdsOf(Active(d))
  /\ \A g \in Upstream(d.features, from) : ~FeatureOf(d, g).dirty

Impacted(d, from) == Downstream(Active(d), {from})

\* The members of `set`, in timeline order.
InOrder(d, set) ==
  LET kept[n \in 0..Len(d.features)] ==
        IF n = 0 THEN << >>
        ELSE LET id == d.features[n].id
             IN  IF id \in set THEN Append(kept[n-1], id) ELSE kept[n-1]
  IN  kept[Len(d.features)]

\* The features a rebuild from `from` executes, in timeline order.
Steps(d, from) == InOrder(d, Impacted(d, from) \ Skipped(d))

\* Mutant: the feature the rebuild starts from counts as an earlier one.
BranchBaseThrough(d, from, b) ==
  LET earlier == { i \in 1..IndexOf(d.features, from) :
                     d.features[i].commit # NoCommit /\ b \in Branches(d, d.features[i]) }
  IN  IF earlier = {} THEN None
      ELSE d.features[CHOOSE i \in earlier : \A j \in earlier : j <= i].commit.output

\* Where the branch of body b stands before a rebuild from `from`: the output
\* cached by the last earlier feature of the branch.
BranchBase(d, from, b) ==
  LET earlier == { i \in 1..(IndexOf(d.features, from) - 1) :
                     d.features[i].commit # NoCommit /\ b \in Branches(d, d.features[i]) }
  IN  IF earlier = {} THEN None
      ELSE d.features[CHOOSE i \in earlier : \A j \in earlier : j <= i].commit.output

\* The input replay expects of the first step on body b: its branch base, the
\* empty body for the feature that makes b, else what that step last consumed.
ReplayInput(d, from, b) ==
  LET base  == BranchBase(d, from, b)
      plan  == InOrder(d, Impacted(d, from))
      first == FeatureOf(d, plan[CHOOSE i \in DOMAIN plan :
                 /\ b \in Branches(d, FeatureOf(d, plan[i]))
                 /\ \A j \in 1..(i-1) : b \notin Branches(d, FeatureOf(d, plan[j]))])
  IN  CASE base # None -> base
        [] base = None /\ d.bodies[b].madeBy = first.id -> Zero
        [] OTHER -> first.commit.input

\* Where body b stands for the next step, given the results recorded so far;
\* None when no step of the plan is on it, or the plan has no opinion.
BranchInput(d, from, results, b) ==
  LET steps == Steps(d, from)
      on == { i \in DOMAIN results : b \in Branches(d, FeatureOf(d, steps[i])) }
  IN  IF on # {} THEN results[CHOOSE i \in on : \A j \in on : j <= i].output
      ELSE IF \A g \in Impacted(d, from) : b \notin Branches(d, FeatureOf(d, g)) THEN None
      ELSE ReplayInput(d, from, b)

\* The input the next step must record.
ExpectedInput(d, from, results, f) ==
  IF Branches(d, f) = {} THEN None
  ELSE BranchInput(d, from, results, CHOOSE b \in Branches(d, f) : TRUE)

\* A committed rebuild leaves impacted features clean; executed ones carry
\* their result, skipped ones carry none.
Published(d, from, results) ==
  LET steps == Steps(d, from)
      result(id) == results[CHOOSE i \in DOMAIN steps : steps[i] = id]
      published(f) ==
        IF f.id \notin Impacted(d, from) THEN f
        ELSE [f EXCEPT !.dirty = FALSE,
                       !.commit = IF f.id \in Skipped(d) THEN NoCommit ELSE result(f.id)]
  IN  [d EXCEPT !.features = [i \in DOMAIN @ |-> published(@[i])]]

\* Mutant: bodies and sketches keep what they showed before the rebuild.
PublishedOnly(d, from, results) == Published(d, from, results)

Rebuilt(d, from, results) == Reconciled(Published(d, from, results))

-----------------------------------------------------------------------------
(* Loading: validate_loaded_state. *)

LastBefore(d, n, b) ==
  LET on == { i \in 1..(n-1) : LET f == d.features[i]
                               IN  f.kind \notin DocumentOnly /\ b \in {f.makes, f.body} }
  IN  IF on = {} THEN 0 ELSE d.features[CHOOSE i \in on : \A j \in on : j <= i].id

\* Every dependency precedes its consumer, and every consumed object's
\* producer is one of them.
TimelineIsOrdered(d) ==
  \A n \in DOMAIN d.features :
    LET f == d.features[n]
        earlier == { d.features[i].id : i \in 1..(n-1) }
    IN  /\ f.id \notin earlier
        /\ f.deps \subseteq earlier
        /\ \A b \in {f.body, f.tool} \ {0} : LastBefore(d, n, b) \in f.deps
        /\ f.sketch # 0 => Drawer(d, f.sketch) \in f.deps
        /\ f.plane # 0 => f.plane \in f.deps

ObjectsAreProduced(d) ==
  /\ \A b \in DOMAIN d.bodies : d.bodies[b].last = LastBefore(d, Len(d.features) + 1, b)
  /\ \A s \in DOMAIN d.sketches :
       /\ d.sketches[s].madeBy \in IdsOf(d.features)
       /\ d.sketches[s].hiddenBy # 0 =>
            /\ d.sketches[s].hiddenBy \in IdsOf(d.features)
            /\ FeatureOf(d, d.sketches[s].hiddenBy).sketch = s

\* A clean feature stands on the head of its branch, over the whole timeline.
CleanIsAttached(d) ==
  \A n \in DOMAIN d.features :
    LET f == d.features[n]
    IN  (~f.dirty /\ f.commit # NoCommit) => Attached(d, f, Heads(d, n - 1))

Loads(d) ==
  /\ CursorIsRetained(d)
  /\ TimelineIsOrdered(d)
  /\ ObjectsAreProduced(d)
  /\ CleanIsAttached(d)
  /\ d = Reconciled(d)
=============================================================================
