---------------------- MODULE SketchTransactions_proofs ----------------------
(***************************************************************************)
(* Proofs about the sketch canvas.                                         *)
(*                                                                         *)
(* First, the edit at the gate is always an edit of the sketch that is     *)
(* shown.  What the candidates are does not matter there: only that every  *)
(* step that shows another sketch finds the gate empty, or leaves it so.   *)
(*                                                                         *)
(* Then, what the candidates are: every edit, replay, cascade and pass of  *)
(* the variable makes of a well-formed sketch another one that is Grown    *)
(* from it, that is, gives its names the same meaning and draws new names  *)
(* from beyond its marks.  From this follow the two invariants about the   *)
(* history of a sketch and about the values that are linked.               *)
(*                                                                         *)
(* Last, what is in them: every sketch that is held validates, and every   *)
(* curve that an operation takes is marked as taken by it.  Such a sketch  *)
(* is followed through the replay of one of its operations, turn by turn,  *)
(* to where the replay is refused or to the sketch that it began with.     *)
(***************************************************************************)
EXTENDS SketchTransactions, PrefixTheorems, SequenceTheorems, TLAPS

\* What can be at the gate.
Kinds == {"new", "trim", "relation", "delete", "edit"}

AtTheGate(edit, shown) ==
    \E kind \in Kinds : \E subject, c :
        edit = [kind |-> kind, subject |-> subject, expected |-> shown.revision,
                candidate |-> c, base |-> shown]

GateInv ==
    \/ pending = NoEdit
    \/ \E size : pending = [kind |-> "stroke", size |-> size]
    \/ AtTheGate(pending, sketch)

LEMMA GateImplies == GateInv => StagedOnThePresent
  BY DEF GateInv, AtTheGate, StagedOnThePresent, NoEdit

LEMMA InitEmptiesTheGate == SketchInit => GateInv
  BY DEF SketchInit, GateInv

\* Whatever is staged is staged on the sketch that is shown, and leaves it.
LEMMA StagingFillsTheGate ==
  ASSUME NEW kind \in Kinds, NEW subject, NEW candidates, Stage(kind, subject, candidates)
  PROVE  GateInv'
<1>1. PICK c \in candidates : pending' = Gated(kind, subject, c)
  BY DEF Stage
<1>2. sketch' = sketch
  BY DEF Stage, sketch
<1>3. pending' = [kind |-> kind, subject |-> subject, expected |-> sketch'.revision,
                  candidate |-> c, base |-> sketch']
  BY <1>1, <1>2 DEF Gated
<1> QED
  BY <1>3 DEF GateInv, AtTheGate

\* Steps that leave the gate empty.
LEMMA EmptiedGate == pending' = NoEdit => GateInv'
  BY DEF GateInv, NoEdit

\* Steps that leave both the gate and the sketch alone.
LEMMA UntouchedGate == GateInv /\ UNCHANGED <<pending, canvas>> => GateInv'
  BY DEF GateInv, AtTheGate, sketch, NoEdit

LEMMA AppendKeepsTheGate ==
  ASSUME GateInv, NEW target, AppendTrim(target)
  PROVE  GateInv'
<1>1. pending.kind \in {"trim", "delete"}
  BY DEF AppendTrim
<1>2. PICK kind \in Kinds :
        \E subject, b :
          pending = [kind |-> kind, subject |-> subject, expected |-> sketch.revision,
                     candidate |-> b, base |-> sketch]
  BY <1>1 DEF GateInv, AtTheGate, NoEdit
<1>. PICK subject, b :
       pending = [kind |-> kind, subject |-> subject, expected |-> sketch.revision,
                  candidate |-> b, base |-> sketch]
  BY <1>2
<1>3. PICK c : pending' = [pending EXCEPT !.candidate = c]
  BY DEF AppendTrim
<1>4. sketch' = sketch
  BY DEF AppendTrim, sketch
<1>5. pending' = [kind |-> kind, subject |-> subject, expected |-> sketch'.revision,
                  candidate |-> c, base |-> sketch']
  BY <1>2, <1>3, <1>4
<1> QED
  BY <1>5 DEF GateInv, AtTheGate

LEMMA RetypingKeepsTheGate ==
  ASSUME NEW o, NEW value, NEW follows, RetypeParameter(o, value, follows)
  PROVE  GateInv'
<1>1. PICK c : pending' = Gated("edit", o, c)
  BY DEF RetypeParameter
<1>2. sketch' = sketch
  BY DEF RetypeParameter, sketch
<1>3. pending' = [kind |-> "edit", subject |-> o, expected |-> sketch'.revision,
                  candidate |-> c, base |-> sketch']
  BY <1>1, <1>2 DEF Gated
<1> QED
  BY <1>3 DEF GateInv, AtTheGate, Kinds

LEMMA FollowingKeepsTheGate ==
  ASSUME GateInv, NEW value, SetNamedValues(value)
  PROVE  GateInv'
<1>1. CASE pending = NoEdit
  BY <1>1, EmptiedGate DEF SetNamedValues
<1>2. CASE pending # NoEdit
  <2>1. UNCHANGED <<pending, canvas>>
    BY <1>2 DEF SetNamedValues
  <2> QED
    BY <2>1, UntouchedGate
<1> QED
  BY <1>1, <1>2

LEMMA NextKeepsTheGate == GateInv /\ [SketchNext]_sketchVars => GateInv'
<1> SUFFICES ASSUME GateInv, [SketchNext]_sketchVars
             PROVE  GateInv'
  OBVIOUS
<1>1. ASSUME NEW size, StageStroke(size)  PROVE GateInv'
  BY <1>1 DEF StageStroke, GateInv
<1>2. ASSUME NEW source, NEW count, StagePattern(source, count)  PROVE GateInv'
  BY <1>2, StagingFillsTheGate DEF StagePattern, Kinds
<1>3. ASSUME NEW target, StageTrim(target)  PROVE GateInv'
  BY <1>3, StagingFillsTheGate DEF StageTrim, Kinds
<1>4. ASSUME NEW target, AppendTrim(target)  PROVE GateInv'
  BY <1>4, AppendKeepsTheGate
<1>5. ASSUME NEW relation, StageRelation(relation)  PROVE GateInv'
  BY <1>5, StagingFillsTheGate DEF StageRelation, Kinds
<1>6. ASSUME NEW o, StageDelete(o)  PROVE GateInv'
  BY <1>6, StagingFillsTheGate DEF StageDelete, Kinds
<1>7. ASSUME NEW o, Drag(o)  PROVE GateInv'
  BY <1>7, EmptiedGate DEF Drag
<1>8. ASSUME NEW o, NEW value, NEW follows, StageParameter(o, value, follows)
      PROVE  GateInv'
  BY <1>8, StagingFillsTheGate DEF StageParameter, Kinds
<1>9. ASSUME NEW o, NEW value, NEW follows, RetypeParameter(o, value, follows)
      PROVE  GateInv'
  BY <1>9, RetypingKeepsTheGate
<1>10. CASE ConfirmPending \/ CancelPending \/ Project
  BY <1>10, EmptiedGate DEF ConfirmPending, CancelPending, Project
<1>11. CASE UndoLocal \/ RedoLocal
  BY <1>11, EmptiedGate DEF UndoLocal, RedoLocal, Settled
<1>12. ASSUME NEW value, SetNamedValues(value)  PROVE GateInv'
  BY <1>12, FollowingKeepsTheGate
<1>13. CASE UNCHANGED sketchVars
  BY <1>13, UntouchedGate DEF sketchVars
<1> QED
  BY <1>1, <1>2, <1>3, <1>4, <1>5, <1>6, <1>7, <1>8, <1>9, <1>10, <1>11, <1>12, <1>13
     DEF SketchNext

\* The edit at the gate was staged on the sketch that is shown, for every set
\* of tools, journal capacity and bound: the guard of the core, a revision that
\* undo gives out twice, never lets an edit of another sketch through
\* (commit_pending, undo_local, project_support_segment, set_named_values).
THEOREM EditsAreOfThePresent == SketchSpec => []StagedOnThePresent
<1>1. SketchSpec => []GateInv
  BY InitEmptiesTheGate, NextKeepsTheGate, PTL DEF SketchSpec
<1> QED
  BY <1>1, GateImplies, PTL

-----------------------------------------------------------------------------
(* What a name stands for.                                                 *)

RecipeSet ==
    [kind : {"stroke", "edge", "pattern", "trim"}, reads : SUBSET Nat, takes : SUBSET Nat,
     value : Nat]
OperationSet == [id : Nat, recipe : RecipeSet, made : Seq(Nat), active : BOOLEAN]
PieceSet == [op : Nat, role : Nat, curve : BOOLEAN, point : BOOLEAN, by : Nat]
PieceTables == UNION {[D -> PieceSet] : D \in SUBSET Nat}
SketchSet ==
    [operations : Seq(OperationSet), pieces : PieceTables, relations : SUBSET SUBSET Nat,
     links : SUBSET Nat, operationMark : Nat, pieceMark : Nat, revision : Nat]

\* Operations have names of their own, below the mark.
OperationsOK(d) ==
    \A i \in DOMAIN d.operations :
        /\ d.operations[i].id \in 1..d.operationMark
        /\ \A j \in DOMAIN d.operations : d.operations[j].id = d.operations[i].id => j = i

\* So have pieces, and each was drawn by an operation of the sketch.
PiecesOK(d) ==
    \A p \in DOMAIN d.pieces :
        /\ p <= d.pieceMark
        /\ \E i \in DOMAIN d.operations : d.operations[i].id = d.pieces[p].op

\* What an operation lists as its outputs, it drew, each in its role.
OutputsOK(d) ==
    \A i \in DOMAIN d.operations : \A r \in DOMAIN d.operations[i].made :
        LET p == d.operations[i].made[r]
        IN  /\ p \in DOMAIN d.pieces
            /\ d.pieces[p].op = d.operations[i].id /\ d.pieces[p].role = r

LinksOK(d) == \A o \in d.links : o <= d.operationMark

Good == {d \in SketchSet : OperationsOK(d) /\ PiecesOK(d) /\ OutputsOK(d) /\ LinksOK(d)}

\* c comes from d: what d names, c names the same, and what c adds has names
\* that d's marks have not reached.
Grown(d, c) ==
    /\ Len(d.operations) <= Len(c.operations)
    /\ \A i \in DOMAIN d.operations :
           /\ c.operations[i].id = d.operations[i].id
           /\ c.operations[i].recipe.kind = d.operations[i].recipe.kind
    /\ \A i \in DOMAIN c.operations \ DOMAIN d.operations :
           c.operations[i].id > d.operationMark
    /\ \A p \in DOMAIN d.pieces :
           /\ p \in DOMAIN c.pieces
           /\ c.pieces[p].op = d.pieces[p].op /\ c.pieces[p].role = d.pieces[p].role
    /\ \A p \in DOMAIN c.pieces \ DOMAIN d.pieces : p > d.pieceMark
    /\ d.operationMark <= c.operationMark /\ d.pieceMark <= c.pieceMark

\* Nothing retired comes back, and only operation o may have another recipe.
Kept(d, c, o) ==
    /\ Len(d.operations) <= Len(c.operations)
    /\ \A i \in DOMAIN d.operations :
           /\ c.operations[i].id = d.operations[i].id
           /\ c.operations[i].active => d.operations[i].active
           /\ d.operations[i].id # o => c.operations[i].recipe = d.operations[i].recipe

LEMMA GoodFields ==
    ASSUME NEW d \in Good
    PROVE  /\ d.operations \in Seq(OperationSet) /\ d.pieces \in PieceTables
           /\ d.relations \in SUBSET SUBSET Nat /\ d.links \in SUBSET Nat
           /\ d.operationMark \in Nat /\ d.pieceMark \in Nat /\ d.revision \in Nat
           /\ Len(d.operations) \in Nat /\ DOMAIN d.operations = 1..Len(d.operations)
           /\ \A i \in DOMAIN d.operations : d.operations[i] \in OperationSet
           /\ OperationsOK(d) /\ PiecesOK(d) /\ OutputsOK(d) /\ LinksOK(d)
<1>1. d \in SketchSet /\ OperationsOK(d) /\ PiecesOK(d) /\ OutputsOK(d) /\ LinksOK(d)
  BY DEF Good
<1>2. /\ d.operations \in Seq(OperationSet) /\ d.pieces \in PieceTables
      /\ d.relations \in SUBSET SUBSET Nat /\ d.links \in SUBSET Nat
      /\ d.operationMark \in Nat /\ d.pieceMark \in Nat /\ d.revision \in Nat
  BY <1>1 DEF SketchSet
<1>3. QED
  BY <1>1, <1>2

LEMMA OperationFields ==
    ASSUME NEW op \in OperationSet
    PROVE  /\ op = [id |-> op.id, recipe |-> op.recipe, made |-> op.made,
                    active |-> op.active]
           /\ op.id \in Nat /\ op.recipe \in RecipeSet /\ op.made \in Seq(Nat)
           /\ op.active \in BOOLEAN /\ op.recipe.kind \in {"stroke", "edge", "pattern", "trim"}
           /\ op.recipe.reads \subseteq Nat /\ op.recipe.takes \subseteq Nat
           /\ op.recipe.value \in Nat
           /\ Len(op.made) \in Nat /\ DOMAIN op.made = 1..Len(op.made)
           /\ \A r \in DOMAIN op.made : op.made[r] \in Nat
<1>1. op.recipe \in RecipeSet /\ op.made \in Seq(Nat)
  BY DEF OperationSet
<1>2. /\ op = [id |-> op.id, recipe |-> op.recipe, made |-> op.made, active |-> op.active]
      /\ op.id \in Nat /\ op.active \in BOOLEAN
  BY DEF OperationSet
<1>3. /\ op.recipe.kind \in {"stroke", "edge", "pattern", "trim"}
      /\ op.recipe.reads \subseteq Nat /\ op.recipe.takes \subseteq Nat
      /\ op.recipe.value \in Nat
  BY <1>1 DEF RecipeSet
<1>4. /\ Len(op.made) \in Nat /\ DOMAIN op.made = 1..Len(op.made)
      /\ \A r \in DOMAIN op.made : op.made[r] \in Nat
  BY <1>1
<1>5. QED
  BY <1>1, <1>2, <1>3, <1>4

LEMMA TableFields ==
    ASSUME NEW T \in PieceTables
    PROVE  /\ DOMAIN T \subseteq Nat /\ T \in [DOMAIN T -> PieceSet]
           /\ \A p \in DOMAIN T : T[p] \in PieceSet /\ T[p].op \in Nat /\ T[p].role \in Nat
<1>1. PICK D \in SUBSET Nat : T \in [D -> PieceSet]
  BY DEF PieceTables
<1>2. DOMAIN T = D
  BY <1>1
<1>3. \A p \in D : T[p] \in PieceSet
  BY <1>1
<1>4. QED
  BY <1>1, <1>2, <1>3 DEF PieceSet

LEMMA TableOf ==
    ASSUME NEW D \in SUBSET Nat, NEW T \in [D -> PieceSet]
    PROVE  T \in PieceTables
  BY DEF PieceTables

LEMMA IndexOf ==
    ASSUME NEW d \in Good, NEW i \in DOMAIN d.operations
    PROVE  Index(d, d.operations[i].id) = i
  BY GoodFields DEF Index, OperationsOK

LEMMA IndexIs ==
    ASSUME NEW d \in Good, NEW o, \E i \in DOMAIN d.operations : d.operations[i].id = o
    PROVE  Index(d, o) \in DOMAIN d.operations /\ d.operations[Index(d, o)].id = o
  BY DEF Index

LEMMA OwnerOf ==
    ASSUME NEW d \in Good, NEW p \in DOMAIN d.pieces
    PROVE  /\ \E i \in DOMAIN d.operations :
                 Owner(d, p) = d.operations[i] /\ d.operations[i].id = d.pieces[p].op
           /\ Owner(d, p) \in OperationSet
<1>1. \E i \in DOMAIN d.operations : d.operations[i].id = d.pieces[p].op
  BY GoodFields DEF PiecesOK
<1>2. /\ Index(d, d.pieces[p].op) \in DOMAIN d.operations
      /\ d.operations[Index(d, d.pieces[p].op)].id = d.pieces[p].op
  BY <1>1, IndexIs
<1>3. QED
  BY <1>2, GoodFields DEF Owner

LEMMA GrownItself ==
    ASSUME NEW d \in Good  PROVE Grown(d, d) /\ \A o : Kept(d, d, o)
  BY GoodFields DEF Grown, Kept

LEMMA GrownOn ==
    ASSUME NEW d \in Good, NEW c \in Good, NEW b \in Good, Grown(d, c), Grown(c, b)
    PROVE  Grown(d, b)
<1>1. DOMAIN d.operations \subseteq DOMAIN c.operations
  BY GoodFields DEF Grown
<1>2. DOMAIN c.operations \subseteq DOMAIN b.operations
  BY GoodFields DEF Grown
<1>3. \A i \in DOMAIN d.operations :
           /\ b.operations[i].id = d.operations[i].id
           /\ b.operations[i].recipe.kind = d.operations[i].recipe.kind
  BY <1>1 DEF Grown
<1>4. /\ d.operationMark \in Nat /\ c.operationMark \in Nat /\ b.operationMark \in Nat
      /\ d.pieceMark \in Nat /\ c.pieceMark \in Nat /\ b.pieceMark \in Nat
      /\ Len(d.operations) \in Nat /\ Len(c.operations) \in Nat /\ Len(b.operations) \in Nat
  BY GoodFields
<1>5. d.operationMark <= c.operationMark /\ d.pieceMark <= c.pieceMark
  BY DEF Grown
<1>6. \A i \in DOMAIN b.operations \ DOMAIN d.operations :
           b.operations[i].id > d.operationMark
  <2>1. TAKE i \in DOMAIN b.operations \ DOMAIN d.operations
  <2>2. b.operations[i].id \in Nat
    BY GoodFields, OperationFields
  <2>3. CASE i \in DOMAIN c.operations
    BY <2>3 DEF Grown
  <2>4. CASE i \notin DOMAIN c.operations
    <3>1. b.operations[i].id > c.operationMark
      BY <2>4 DEF Grown
    <3>2. QED
      BY <3>1, <2>2, <1>4, <1>5
  <2>5. QED
    BY <2>3, <2>4
<1>7. \A p \in DOMAIN d.pieces :
           /\ p \in DOMAIN b.pieces
           /\ b.pieces[p].op = d.pieces[p].op /\ b.pieces[p].role = d.pieces[p].role
  BY DEF Grown
<1>8. \A p \in DOMAIN b.pieces \ DOMAIN d.pieces : p > d.pieceMark
  <2>1. TAKE p \in DOMAIN b.pieces \ DOMAIN d.pieces
  <2>2. p \in Nat
    BY GoodFields, TableFields
  <2>3. CASE p \in DOMAIN c.pieces
    BY <2>3 DEF Grown
  <2>4. CASE p \notin DOMAIN c.pieces
    <3>1. p > c.pieceMark
      BY <2>4 DEF Grown
    <3>2. QED
      BY <3>1, <2>2, <1>4, <1>5
  <2>5. QED
    BY <2>3, <2>4
<1>9. /\ Len(d.operations) <= Len(b.operations)
      /\ d.operationMark <= b.operationMark /\ d.pieceMark <= b.pieceMark
  BY <1>4 DEF Grown
<1>10. QED
  BY <1>3, <1>6, <1>7, <1>8, <1>9 DEF Grown

LEMMA KeptOn ==
    ASSUME NEW d \in Good, NEW c \in Good, NEW b \in Good, NEW o,
           Kept(d, c, o), Kept(c, b, o)
    PROVE  Kept(d, b, o)
<1>1. DOMAIN d.operations \subseteq DOMAIN c.operations
  BY GoodFields DEF Kept
<1>2. Len(d.operations) <= Len(b.operations)
  BY GoodFields DEF Kept
<1>3. QED
  BY <1>1, <1>2 DEF Kept

LEMMA KeptMore ==
    ASSUME NEW d, NEW c, NEW o, Kept(d, c, 0), \A i \in DOMAIN d.operations : d.operations[i].id # 0
    PROVE  Kept(d, c, o)
  BY DEF Kept

\* The sketches that the steps of an edit of operation o make of d.
Versions(d, o) ==
    {c \in Good : /\ Grown(d, c) /\ Kept(d, c, o)
                  /\ c.links = d.links /\ Len(c.operations) = Len(d.operations)}

LEMMA VersionItself ==
    ASSUME NEW d \in Good, NEW o  PROVE d \in Versions(d, o)
  BY GrownItself DEF Versions

LEMMA VersionOn ==
    ASSUME NEW d \in Good, NEW o, NEW c \in Versions(d, o), NEW b \in Versions(c, o)
    PROVE  b \in Versions(d, o)
<1>1. c \in Good /\ b \in Good
  BY DEF Versions
<1>2. Grown(d, c) /\ Grown(c, b) /\ Kept(d, c, o) /\ Kept(c, b, o)
  BY DEF Versions
<1>3. Grown(d, b) /\ Kept(d, b, o)
  BY <1>1, <1>2, GrownOn, KeptOn
<1>4. b.links = d.links /\ Len(b.operations) = Len(d.operations)
  BY DEF Versions
<1>5. QED
  BY <1>1, <1>3, <1>4 DEF Versions

LEMMA VersionMore ==
    ASSUME NEW d \in Good, NEW o, NEW c \in Versions(d, 0)
    PROVE  c \in Versions(d, o)
<1>1. \A i \in DOMAIN d.operations : d.operations[i].id # 0
  BY GoodFields DEF OperationsOK
<1>2. QED
  BY <1>1, KeptMore DEF Versions

\* T paints the pieces of d anew, and leaves what they are.
Repaints(d, T) ==
    /\ T \in PieceTables /\ DOMAIN T = DOMAIN d.pieces
    /\ \A p \in DOMAIN d.pieces : T[p].op = d.pieces[p].op /\ T[p].role = d.pieces[p].role

LEMMA Repainting ==
    ASSUME NEW d \in Good, NEW T, Repaints(d, T)
    PROVE  LET c == [d EXCEPT !.pieces = T]
           IN  c \in Versions(d, 0) /\ c.operations = d.operations
<1>. DEFINE c == [d EXCEPT !.pieces = T]
<1>1. /\ c.operations = d.operations /\ c.pieces = T /\ c.relations = d.relations
      /\ c.links = d.links /\ c.operationMark = d.operationMark
      /\ c.pieceMark = d.pieceMark /\ c.revision = d.revision
      /\ c \in SketchSet
  BY DEF Good, SketchSet, Repaints
<1>. HIDE DEF c
<1>2. OperationsOK(c) /\ LinksOK(c)
  BY <1>1, GoodFields DEF OperationsOK, LinksOK
<1>3. PiecesOK(c)
  BY <1>1, GoodFields DEF PiecesOK, Repaints
<1>4. OutputsOK(c)
  <2>1. OutputsOK(d)
    BY DEF Good
  <2>2. QED
    BY ONLY <1>1, <2>1, Repaints(d, T) DEF OutputsOK, Repaints
<1>5. Grown(d, c) /\ Kept(d, c, 0)
  BY <1>1, GoodFields DEF Grown, Kept, Repaints
<1>6. c \in Good
  BY <1>1, <1>2, <1>3, <1>4 DEF Good
<1>7. QED
  BY <1>1, <1>5, <1>6 DEF Versions, c

LEMMA ConsumedPaints ==
    ASSUME NEW d \in Good, NEW o \in Nat, NEW takes
    PROVE  /\ Consumed(d, o, takes) \in Versions(d, 0)
           /\ Consumed(d, o, takes).operations = d.operations
<1>. DEFINE new(p) == IF p \in takes THEN [d.pieces[p] EXCEPT !.curve = FALSE, !.by = o]
                     ELSE d.pieces[p]
            T == [p \in DOMAIN d.pieces |-> new(p)]
<1>1. ASSUME NEW p \in DOMAIN d.pieces
      PROVE  new(p) \in PieceSet /\ new(p).op = d.pieces[p].op /\ new(p).role = d.pieces[p].role
  <2>1. d.pieces[p] \in PieceSet
    BY GoodFields, TableFields
  <2>2. QED
    BY <2>1 DEF PieceSet
<1>2. DOMAIN d.pieces \in SUBSET Nat
  BY GoodFields, TableFields
<1>. HIDE DEF new
<1>3. T \in [DOMAIN d.pieces -> PieceSet]
  BY <1>1
<1>4. Repaints(d, T)
  BY <1>1, <1>2, <1>3, TableOf DEF Repaints
<1>5. Consumed(d, o, takes) = [d EXCEPT !.pieces = T]
  BY DEF Consumed, new
<1>. HIDE DEF T
<1>6. QED
  BY <1>4, <1>5, Repainting

LEMMA RestoredPaints ==
    ASSUME NEW d \in Good, NEW o
    PROVE  Restored(d, o) \in Versions(d, 0) /\ Restored(d, o).operations = d.operations
<1>. DEFINE new(p) == IF d.pieces[p].by = o
                     THEN [d.pieces[p] EXCEPT !.curve = Owner(d, p).active, !.by = 0]
                     ELSE d.pieces[p]
            T == [p \in DOMAIN d.pieces |-> new(p)]
<1>1. ASSUME NEW p \in DOMAIN d.pieces
      PROVE  new(p) \in PieceSet /\ new(p).op = d.pieces[p].op /\ new(p).role = d.pieces[p].role
  <2>1. d.pieces[p] \in PieceSet
    BY GoodFields, TableFields
  <2>2. Owner(d, p).active \in BOOLEAN
    BY OwnerOf, OperationFields
  <2>3. QED
    BY <2>1, <2>2 DEF PieceSet
<1>2. DOMAIN d.pieces \in SUBSET Nat
  BY GoodFields, TableFields
<1>. HIDE DEF new
<1>3. T \in [DOMAIN d.pieces -> PieceSet]
  BY <1>1
<1>4. Repaints(d, T)
  BY <1>1, <1>2, <1>3, TableOf DEF Repaints
<1>5. Restored(d, o) = [d EXCEPT !.pieces = T]
  BY DEF Restored, new
<1>. HIDE DEF T
<1>6. QED
  BY <1>4, <1>5, Repainting

LEMMA DarkenedPaints ==
    ASSUME NEW d \in Good, NEW out
    PROVE  Darkened(d, out) \in Versions(d, 0) /\ Darkened(d, out).operations = d.operations
<1>. DEFINE new(p) == IF p \in out THEN [d.pieces[p] EXCEPT !.curve = FALSE, !.point = FALSE]
                     ELSE d.pieces[p]
            T == [p \in DOMAIN d.pieces |-> new(p)]
<1>1. ASSUME NEW p \in DOMAIN d.pieces
      PROVE  new(p) \in PieceSet /\ new(p).op = d.pieces[p].op /\ new(p).role = d.pieces[p].role
  <2>1. d.pieces[p] \in PieceSet
    BY GoodFields, TableFields
  <2>2. QED
    BY <2>1 DEF PieceSet
<1>2. DOMAIN d.pieces \in SUBSET Nat
  BY GoodFields, TableFields
<1>. HIDE DEF new
<1>3. T \in [DOMAIN d.pieces -> PieceSet]
  BY <1>1
<1>4. Repaints(d, T)
  BY <1>1, <1>2, <1>3, TableOf DEF Repaints
<1>5. Darkened(d, out) = [d EXCEPT !.pieces = T]
  BY DEF Darkened, new
<1>. HIDE DEF T
<1>6. QED
  BY <1>4, <1>5, Repainting

\* Outputs for o: each is new, or was drawn by o in that very role.
Outputs(T, o, made) ==
    /\ \A r, q \in DOMAIN made : made[r] = made[q] => r = q
    /\ \A r \in DOMAIN made :
           made[r] \in DOMAIN T => T[made[r]].op = o /\ T[made[r]].role = r

\* L is T with these outputs drawn.
Lights(T, o, made, L) ==
    /\ L \in PieceTables /\ DOMAIN L = DOMAIN T \cup ToSet(made)
    /\ \A p \in DOMAIN T : L[p].op = T[p].op /\ L[p].role = T[p].role
    /\ \A r \in DOMAIN made : L[made[r]].op = o /\ L[made[r]].role = r

LEMMA LitTable ==
    ASSUME NEW T \in PieceTables, NEW o \in Nat, NEW made \in Seq(Nat), Outputs(T, o, made)
    PROVE  Lights(T, o, made, Lit(T, o, made))
<1>. DEFINE role(p) == CHOOSE r \in DOMAIN made : made[r] = p
            new(p) == IF p \in ToSet(made) THEN Drawn(o, role(p)) ELSE T[p]
            L == [p \in DOMAIN T \cup ToSet(made) |-> new(p)]
<1>1. Lit(T, o, made) = L
  BY DEF Lit
<1>2. /\ DOMAIN made = 1..Len(made) /\ Len(made) \in Nat
      /\ \A r \in DOMAIN made : made[r] \in Nat
  OBVIOUS
<1>3. ToSet(made) = {made[r] : r \in DOMAIN made}
  BY DEF ToSet
<1>4. \A r \in DOMAIN made : role(made[r]) = r
  BY DEF Outputs
<1>. HIDE DEF role
<1>5. ASSUME NEW r \in DOMAIN made
      PROVE  /\ new(made[r]) = Drawn(o, r) /\ new(made[r]) \in PieceSet
             /\ new(made[r]).op = o /\ new(made[r]).role = r
  <2>1. new(made[r]) = Drawn(o, r)
    BY <1>3, <1>4
  <2>2. r \in Nat
    BY <1>2
  <2>. HIDE DEF new
  <2>3. Drawn(o, r) \in PieceSet /\ Drawn(o, r).op = o /\ Drawn(o, r).role = r
    BY <2>2 DEF Drawn, PieceSet
  <2>4. QED
    BY <2>1, <2>3
<1>6. ASSUME NEW p \in DOMAIN T
      PROVE  new(p) \in PieceSet /\ new(p).op = T[p].op /\ new(p).role = T[p].role
  <2>1. CASE p \in ToSet(made)
    BY <2>1, <1>3, <1>5 DEF Outputs
  <2>2. CASE p \notin ToSet(made)
    BY <2>2, TableFields
  <2>3. QED
    BY <2>1, <2>2
<1>7. DOMAIN T \cup ToSet(made) \in SUBSET Nat
  BY <1>2, <1>3, TableFields
<1>. HIDE DEF new
<1>8. L \in [DOMAIN T \cup ToSet(made) -> PieceSet]
  BY <1>3, <1>5, <1>6
<1>9. L \in PieceTables
  BY <1>7, <1>8, TableOf
<1>10. QED
  BY <1>1, <1>3, <1>5, <1>6, <1>9 DEF Lights

LEMMA RedrawnVersion ==
    ASSUME NEW d \in Good, NEW i \in DOMAIN d.operations, NEW size \in Nat
    PROVE  /\ Redrawn(d, i, size) \in Versions(d, 0)
           /\ \A j \in DOMAIN d.operations :
                  Redrawn(d, i, size).operations[j].recipe = d.operations[j].recipe
<1>. DEFINE op == d.operations[i]
            kept == Len(op.made)
            made == [r \in 1..size |->
                        IF r <= kept THEN op.made[r] ELSE d.pieceMark + r - kept]
            T == Lit(d.pieces, op.id, made)
            mark == IF size > kept THEN d.pieceMark + size - kept ELSE d.pieceMark
            operations == [d.operations EXCEPT ![i].made = made]
            e == [d EXCEPT !.operations[i].made = made, !.pieces = T, !.pieceMark = mark]
<1>1. /\ op \in OperationSet /\ op.id \in Nat /\ kept \in Nat /\ DOMAIN op.made = 1..kept
      /\ d.pieceMark \in Nat /\ d.pieces \in PieceTables
      /\ \A r \in 1..kept : op.made[r] \in Nat
  BY GoodFields, OperationFields
<1>2. /\ \A r \in 1..kept : /\ op.made[r] \in DOMAIN d.pieces /\ op.made[r] <= d.pieceMark
                            /\ d.pieces[op.made[r]].op = op.id
                            /\ d.pieces[op.made[r]].role = r
      /\ \A p \in DOMAIN d.pieces : p \in Nat /\ p <= d.pieceMark
  BY <1>1, GoodFields, TableFields DEF OutputsOK, PiecesOK
<1>3. Redrawn(d, i, size) = Consumed(e, op.id, op.recipe.takes)
  BY DEF Redrawn
<1>. HIDE DEF op, kept
<1>4. /\ made \in Seq(Nat) /\ DOMAIN made = 1..size
      /\ \A r \in 1..size : r <= kept => made[r] = op.made[r]
      /\ \A r \in 1..size : ~(r <= kept) =>
             made[r] = d.pieceMark + r - kept /\ made[r] > d.pieceMark /\ made[r] <= mark
      /\ mark \in Nat /\ d.pieceMark <= mark
  <2>1. \A r \in 1..size : made[r] \in Nat
    BY <1>1
  <2>2. made \in [1..size -> Nat]
    BY <2>1
  <2>3. made \in Seq(Nat)
    BY <2>2
  <2>4. QED
    BY <2>3, <1>1
<1>. HIDE DEF made, mark
<1>5. \A r, q \in DOMAIN made : made[r] = made[q] => r = q
  <2>1. TAKE r, q \in DOMAIN made
  <2>2. CASE r <= kept /\ q <= kept
    BY <2>2, <1>2, <1>4
  <2>3. CASE ~(r <= kept) /\ ~(q <= kept)
    BY <2>3, <1>1, <1>4
  <2>4. CASE r <= kept /\ ~(q <= kept)
    <3>0. r \in 1..size /\ q \in 1..size /\ r \in 1..kept
      BY <2>4, <1>1, <1>4
    <3>1. made[r] \in Nat /\ made[r] <= d.pieceMark /\ made[q] > d.pieceMark
      BY <3>0, <2>4, <1>1, <1>2, <1>4
    <3>2. QED
      BY <3>1, <1>1, <1>4
  <2>5. CASE q <= kept /\ ~(r <= kept)
    <3>0. r \in 1..size /\ q \in 1..size /\ q \in 1..kept
      BY <2>5, <1>1, <1>4
    <3>1. made[q] \in Nat /\ made[q] <= d.pieceMark /\ made[r] > d.pieceMark
      BY <3>0, <2>5, <1>1, <1>2, <1>4
    <3>2. QED
      BY <3>1, <1>1, <1>4
  <2>6. QED
    BY <2>2, <2>3, <2>4, <2>5
<1>6. \A r \in DOMAIN made : made[r] \in DOMAIN d.pieces =>
          d.pieces[made[r]].op = op.id /\ d.pieces[made[r]].role = r
  <2>1. TAKE r \in DOMAIN made
  <2>2. CASE r <= kept
    BY <2>2, <1>2, <1>4
  <2>3. CASE ~(r <= kept)
    <3>1. made[r] > d.pieceMark /\ made[r] \in Nat
      BY <2>3, <1>4
    <3>2. made[r] \notin DOMAIN d.pieces
      BY <3>1, <1>1, <1>2
    <3>3. QED
      BY <3>2
  <2>4. QED
    BY <2>2, <2>3
<1>7. /\ T \in PieceTables /\ DOMAIN T = DOMAIN d.pieces \cup ToSet(made)
      /\ \A p \in DOMAIN d.pieces : T[p].op = d.pieces[p].op /\ T[p].role = d.pieces[p].role
      /\ \A r \in DOMAIN made : T[made[r]].op = op.id /\ T[made[r]].role = r
  <2>1. Outputs(d.pieces, op.id, made)
    BY <1>5, <1>6 DEF Outputs
  <2>2. Lights(d.pieces, op.id, made, Lit(d.pieces, op.id, made))
    BY <2>1, <1>1, <1>4, LitTable
  <2>3. QED
    BY <2>2 DEF Lights
<1>8. \A p \in DOMAIN T \ DOMAIN d.pieces : p > d.pieceMark /\ p <= mark /\ T[p].op = op.id
  BY <1>2, <1>4, <1>7 DEF ToSet
<1>. HIDE DEF T
<1>9. /\ operations \in Seq(OperationSet) /\ Len(operations) = Len(d.operations)
      /\ DOMAIN operations = DOMAIN d.operations
      /\ \A j \in DOMAIN d.operations :
             /\ operations[j].id = d.operations[j].id
             /\ operations[j].recipe = d.operations[j].recipe
             /\ operations[j].active = d.operations[j].active
             /\ j # i => operations[j].made = d.operations[j].made
      /\ operations[i].made = made
  <2>1. d.operations \in Seq(OperationSet) /\ \A j \in DOMAIN d.operations : d.operations[j] \in OperationSet
    BY GoodFields
  <2>2. [d.operations[i] EXCEPT !.made = made] \in OperationSet
    BY <2>1, <1>4 DEF OperationSet
  <2>3. operations = [d.operations EXCEPT ![i] = [d.operations[i] EXCEPT !.made = made]]
    OBVIOUS
  <2>. HIDE DEF operations
  <2>4. operations \in Seq(OperationSet) /\ Len(operations) = Len(d.operations)
        /\ DOMAIN operations = DOMAIN d.operations
    BY <2>1, <2>2, <2>3
  <2>5. \A j \in DOMAIN d.operations : j # i => operations[j] = d.operations[j]
    BY <2>1, <2>3
  <2>6. operations[i] = [d.operations[i] EXCEPT !.made = made]
    BY <2>1, <2>3
  <2>7. /\ operations[i].id = d.operations[i].id /\ operations[i].recipe = d.operations[i].recipe
        /\ operations[i].active = d.operations[i].active /\ operations[i].made = made
    BY <2>1, <2>6 DEF OperationSet
  <2>8. QED
    BY <2>4, <2>5, <2>7
<1>10. /\ e.operations = operations /\ e.pieces = T /\ e.pieceMark = mark
       /\ e.relations = d.relations /\ e.links = d.links /\ e.revision = d.revision
       /\ e.operationMark = d.operationMark /\ e \in SketchSet
  <2>1. d \in SketchSet
    BY DEF Good
  <2>2. e = [d EXCEPT !.operations = operations, !.pieces = T, !.pieceMark = mark]
    OBVIOUS
  <2>. HIDE DEF operations, e
  <2>3. QED
    BY <2>1, <2>2, <1>4, <1>7, <1>9 DEF SketchSet
<1>. HIDE DEF operations, e
<1>11. OperationsOK(e) /\ LinksOK(e)
  BY <1>9, <1>10, GoodFields DEF OperationsOK, LinksOK
<1>12. PiecesOK(e)
  <2>1. SUFFICES ASSUME NEW p \in DOMAIN T
                 PROVE  p <= mark /\ \E j \in DOMAIN d.operations : d.operations[j].id = T[p].op
    BY <1>9, <1>10 DEF PiecesOK
  <2>2. CASE p \in DOMAIN d.pieces
    <3>1. \E j \in DOMAIN d.operations : d.operations[j].id = d.pieces[p].op
      BY <2>2, GoodFields DEF PiecesOK
    <3>2. QED
      BY <3>1, <2>2, <1>1, <1>2, <1>4, <1>7
  <2>3. CASE p \notin DOMAIN d.pieces
    BY <2>3, <1>8 DEF op
  <2>4. QED
    BY <2>2, <2>3
<1>13. OutputsOK(e)
  <2>1. SUFFICES ASSUME NEW j \in DOMAIN d.operations, NEW r \in DOMAIN operations[j].made
                 PROVE  /\ operations[j].made[r] \in DOMAIN T
                        /\ T[operations[j].made[r]].op = d.operations[j].id
                        /\ T[operations[j].made[r]].role = r
    BY <1>9, <1>10 DEF OutputsOK
  <2>2. CASE j = i
    BY <2>2, <1>7, <1>9 DEF ToSet, op
  <2>3. CASE j # i
    <3>1. LET p == d.operations[j].made[r]
          IN  /\ p \in DOMAIN d.pieces
              /\ d.pieces[p].op = d.operations[j].id /\ d.pieces[p].role = r
      BY <2>3, <1>9, GoodFields DEF OutputsOK
    <3>2. QED
      BY <3>1, <2>3, <1>7, <1>9
  <2>4. QED
    BY <2>2, <2>3
<1>14. e \in Good
  BY <1>10, <1>11, <1>12, <1>13 DEF Good
<1>15. Grown(d, e) /\ Kept(d, e, 0)
  <2>1. \A p \in DOMAIN d.pieces : p \in DOMAIN T
    BY <1>7
  <2>2. Len(d.operations) \in Nat /\ d.operationMark \in Nat
    BY GoodFields
  <2>3. Grown(d, e)
    BY <2>1, <2>2, <1>1, <1>4, <1>7, <1>8, <1>9, <1>10 DEF Grown
  <2>4. Kept(d, e, 0)
    BY <2>2, <1>9, <1>10 DEF Kept
  <2>5. QED
    BY <2>3, <2>4
<1>16. e \in Versions(d, 0)
  BY <1>9, <1>10, <1>14, <1>15 DEF Versions
<1>17. /\ Consumed(e, op.id, op.recipe.takes) \in Versions(e, 0)
       /\ Consumed(e, op.id, op.recipe.takes).operations = e.operations
  BY <1>1, <1>14, ConsumedPaints
<1>18. Consumed(e, op.id, op.recipe.takes) \in Versions(d, 0)
  BY <1>16, <1>17, VersionOn
<1>19. QED
  BY <1>3, <1>9, <1>10, <1>17, <1>18

\* An operation of d is written over, but for its name and its outputs.
Rewritten(d, i, op, revision) ==
    [d EXCEPT !.operations = [d.operations EXCEPT ![i] = op], !.revision = revision]

LEMMA ChangedOperation ==
    ASSUME NEW d \in Good, NEW i \in DOMAIN d.operations, NEW op \in OperationSet,
           NEW revision \in Nat,
           op.id = d.operations[i].id, op.made = d.operations[i].made,
           op.recipe.kind = d.operations[i].recipe.kind,
           op.active => d.operations[i].active
    PROVE  /\ Rewritten(d, i, op, revision) \in Versions(d, d.operations[i].id)
           /\ Rewritten(d, i, op, revision).operations[i] = op
           /\ op.recipe = d.operations[i].recipe =>
                  Rewritten(d, i, op, revision) \in Versions(d, 0)
<1>. DEFINE operations == [d.operations EXCEPT ![i] = op]
            c == [d EXCEPT !.operations = operations, !.revision = revision]
<1>1. d.operations \in Seq(OperationSet) /\ d \in SketchSet
  BY GoodFields DEF Good
<1>2. /\ operations \in Seq(OperationSet) /\ Len(operations) = Len(d.operations)
      /\ DOMAIN operations = DOMAIN d.operations
      /\ operations[i] = op
      /\ \A j \in DOMAIN d.operations : j # i => operations[j] = d.operations[j]
  BY <1>1
<1>. HIDE DEF operations
<1>3. \A j \in DOMAIN d.operations :
          /\ operations[j].id = d.operations[j].id /\ operations[j].made = d.operations[j].made
          /\ operations[j].recipe.kind = d.operations[j].recipe.kind
          /\ operations[j].active => d.operations[j].active
          /\ j # i => operations[j].recipe = d.operations[j].recipe
  BY <1>2
<1>4. /\ c.operations = operations /\ c.pieces = d.pieces /\ c.relations = d.relations
      /\ c.links = d.links /\ c.operationMark = d.operationMark
      /\ c.pieceMark = d.pieceMark /\ c \in SketchSet
  BY <1>1, <1>2 DEF SketchSet
<1>. HIDE DEF c
<1>5. OperationsOK(c) /\ LinksOK(c)
  BY <1>2, <1>3, <1>4, GoodFields DEF OperationsOK, LinksOK
<1>6. PiecesOK(c)
  BY <1>2, <1>3, <1>4, GoodFields DEF PiecesOK
<1>7. OutputsOK(c)
  BY <1>2, <1>3, <1>4, GoodFields DEF OutputsOK
<1>8. c \in Good
  BY <1>4, <1>5, <1>6, <1>7 DEF Good
<1>9. Grown(d, c)
  BY <1>2, <1>3, <1>4, GoodFields DEF Grown
<1>10. Kept(d, c, d.operations[i].id)
  <2>1. \A j \in DOMAIN d.operations : d.operations[j].id # d.operations[i].id => j # i
    OBVIOUS
  <2>2. QED
    BY <2>1, <1>2, <1>3, <1>4, GoodFields DEF Kept
<1>11. ASSUME op.recipe = d.operations[i].recipe
       PROVE  Kept(d, c, 0)
  BY <1>2, <1>3, <1>4, <1>11, GoodFields DEF Kept
<1>12. QED
  BY <1>2, <1>4, <1>8, <1>9, <1>10, <1>11 DEF Versions, Rewritten, c, operations

LEMMA SizesAreNumbers ==
    ASSUME NEW recipe \in RecipeSet  PROVE Sizes(recipe) \subseteq Nat
<1>1. recipe.value \in Nat
  BY DEF RecipeSet
<1>2. QED
  BY <1>1, CountsAssumption DEF Sizes

LEMMA ReplayedVersions ==
    ASSUME NEW d \in Good, NEW i \in DOMAIN d.operations
    PROVE  Replayed(d, i) \subseteq Versions(d, 0)
<1>. DEFINE op == d.operations[i]
            lit == Restored(d, op.id)
            dark == Darkened(lit, ToSet(op.made))
<1>1. lit \in Versions(d, 0) /\ lit \in Good /\ lit.operations = d.operations
  BY RestoredPaints DEF Versions
<1>. HIDE DEF lit
<1>2. dark \in Versions(lit, 0) /\ dark \in Good /\ dark.operations = d.operations
  BY <1>1, DarkenedPaints DEF Versions
<1>3. dark \in Versions(d, 0)
  BY <1>1, <1>2, VersionOn
<1>. HIDE DEF dark
<1>4. Sizes(op.recipe) \subseteq Nat
  BY GoodFields, OperationFields, SizesAreNumbers
<1>5. \A size \in Sizes(op.recipe) : Redrawn(dark, i, size) \in Versions(d, 0)
  <2>1. TAKE size \in Sizes(op.recipe)
  <2>2. i \in DOMAIN dark.operations /\ size \in Nat
    BY <1>2, <1>4
  <2>. HIDE DEF op
  <2>3. Redrawn(dark, i, size) \in Versions(dark, 0)
    BY <2>2, <1>2, RedrawnVersion
  <2>4. QED
    BY <2>3, <1>3, VersionOn
<1>6. Replayed(d, i) \subseteq {d} \cup {Redrawn(dark, i, size) : size \in Sizes(op.recipe)}
  BY DEF Replayed, dark, lit
<1>7. QED
  BY <1>5, <1>6, VersionItself

\* Where the replay of an operation starts.
Start(d, i, recipe) ==
    [Restored(d, d.operations[i].id) EXCEPT !.operations[i].recipe = recipe,
                                            !.revision = @ + 1]

LEMMA ReplayStarts ==
    ASSUME NEW d \in Good, NEW i \in DOMAIN d.operations, NEW recipe \in RecipeSet,
           recipe.kind = d.operations[i].recipe.kind
    PROVE  /\ Start(d, i, recipe) \in Versions(d, d.operations[i].id)
           /\ Start(d, i, recipe).operations[i].recipe = recipe
<1>. DEFINE o == d.operations[i].id
            lit == Restored(d, o)
            op == [lit.operations[i] EXCEPT !.recipe = recipe]
            start == [lit EXCEPT !.operations[i].recipe = recipe, !.revision = @ + 1]
<1>1. lit \in Versions(d, 0) /\ lit \in Good /\ lit.operations = d.operations
  BY RestoredPaints DEF Versions
<1>. HIDE DEF lit
<1>2. lit.operations[i] \in OperationSet /\ lit.revision + 1 \in Nat
  BY <1>1, GoodFields
<1>3. /\ op \in OperationSet /\ op.id = lit.operations[i].id
      /\ op.made = lit.operations[i].made /\ op.active = lit.operations[i].active
      /\ op.recipe = recipe
  BY <1>2 DEF OperationSet
<1>4. start = Rewritten(lit, i, op, lit.revision + 1)
  BY DEF Rewritten
<1>. HIDE DEF op, start
<1>5. start \in Versions(lit, lit.operations[i].id) /\ start.operations[i] = op
  <2>1. i \in DOMAIN lit.operations /\ op.recipe.kind = lit.operations[i].recipe.kind
    BY <1>1, <1>3
  <2>2. QED
    BY <2>1, <1>1, <1>2, <1>3, <1>4, ChangedOperation
<1>6. lit \in Versions(d, o)
  BY <1>1, VersionMore
<1>7. start \in Versions(d, o)
  BY <1>1, <1>5, <1>6, VersionOn
<1>8. QED
  BY <1>3, <1>5, <1>7 DEF start, lit, Start

\* The replay, turn by turn.
LEMMA ReplacedUnfolds ==
    ASSUME NEW d \in Good, NEW i \in DOMAIN d.operations, NEW recipe \in RecipeSet,
           recipe.kind = d.operations[i].recipe.kind
    PROVE  LET N == Len(d.operations) - i + 1
           IN  \E turns :
                   /\ turns[0] = {Start(d, i, recipe)}
                   /\ \A n \in 1..N :
                          turns[n] = UNION {Replayed(c, i + n - 1) : c \in turns[n - 1]}
                   /\ \A n \in 0..N : turns[n] \subseteq Versions(Start(d, i, recipe), 0)
                   /\ Replaced(d, d.operations[i].id, recipe) = Checked(turns[N])
<1>. DEFINE o == d.operations[i].id
            first == Index(d, o)
            N == Len(d.operations) - first + 1
            start == [Restored(d, o) EXCEPT !.operations[first].recipe = recipe,
                                            !.revision = @ + 1]
            Vs == Versions(start, 0)
            S == SUBSET Vs
            turn(n, X) == UNION {Replayed(c, first + n - 1) : c \in X}
            step == [n \in 1..N |-> [X \in S |-> turn(n, X)]]
            body(f) == [n \in 0..N |-> IF n = 0 THEN {start} ELSE turn(n, f[n-1])]
            outcomes == CHOOSE f : f = body(f)
<1>1. Replaced(d, o, recipe) = Checked(outcomes[N])
  BY DEF Replaced
<1>2. first = i /\ i \in 1..Len(d.operations) /\ Len(d.operations) \in Nat
  BY IndexOf, GoodFields
<1>3. start \in Versions(d, o)
  <2>1. start = Start(d, i, recipe)
    BY <1>2 DEF Start
  <2>. HIDE DEF start
  <2>2. QED
    BY <2>1, ReplayStarts
<1>4. N \in Nat
  BY <1>2
<1>. HIDE DEF first, start
<1>5. /\ start \in Good /\ DOMAIN start.operations = 1..Len(d.operations)
      /\ \A c \in Vs : c \in Good /\ DOMAIN c.operations = 1..Len(d.operations)
  BY <1>3, GoodFields DEF Versions
<1>6. \A n \in 1..N, X \in S : turn(n, X) \in S
  <2>1. SUFFICES ASSUME NEW n \in 1..N, NEW X \in S, NEW c \in X
                 PROVE  Replayed(c, first + n - 1) \subseteq Vs
    OBVIOUS
  <2>2. c \in Vs /\ c \in Good /\ first + n - 1 \in DOMAIN c.operations
    BY <1>2, <1>5
  <2>. HIDE DEF N, Vs
  <2>3. Replayed(c, first + n - 1) \subseteq Versions(c, 0)
    BY <2>2, ReplayedVersions
  <2>4. QED
    BY <2>2, <2>3, <1>5, VersionOn DEF Vs
<1>. HIDE DEF N, Vs, turn
<1>7. step \in [1..N -> [S -> S]]
  BY <1>6
<1>8. {start} \in S
  BY <1>5, VersionItself DEF Vs
<1>9. PICK g \in [0..N -> S] : Follows(g, N, {start}, step)
  <2>. HIDE DEF S, step
  <2>1. QED
    BY <1>4, <1>7, <1>8, PrefixRecursion
<1>10. g = body(g)
  <2>. DEFINE by(n) == IF n = 0 THEN {start} ELSE step[n][g[n-1]]
              with(n) == IF n = 0 THEN {start} ELSE turn(n, g[n-1])
  <2>1. \A n \in 0..N : by(n) = with(n)
    BY <1>4
  <2>2. g = [n \in 0..N |-> by(n)]
    BY <1>9 DEF Follows
  <2>. HIDE DEF by, with
  <2>3. [n \in 0..N |-> by(n)] = [n \in 0..N |-> with(n)]
    BY ONLY <2>1
  <2>4. g = [n \in 0..N |-> with(n)]
    BY ONLY <2>2, <2>3
  <2>5. QED
    BY <2>4 DEF with
<1>11. outcomes = body(outcomes)
  BY <1>10
<1>. HIDE DEF outcomes, step
<1>12. outcomes[0] = {start} /\ \A n \in 1..N : outcomes[n] = turn(n, outcomes[n-1])
  <2>. DEFINE with(n) == IF n = 0 THEN {start} ELSE turn(n, outcomes[n-1])
  <2>1. outcomes = [n \in 0..N |-> with(n)]
    BY <1>11
  <2>. HIDE DEF with
  <2>2. \A n \in 0..N : outcomes[n] = with(n)
    BY ONLY <2>1
  <2>3. 0 \in 0..N /\ \A n \in 1..N : n \in 0..N /\ n # 0
    BY <1>4
  <2>4. QED
    BY <2>2, <2>3 DEF with
<1>13. \A n \in 0..N : outcomes[n] \in S
  <2>. DEFINE G == {n \in 0..N : outcomes[n] \in S}
  <2>1. 0 \in G
    BY <1>4, <1>8, <1>12
  <2>2. ASSUME NEW n \in 0..(N - 1), n \in G
        PROVE  n + 1 \in G
    <3>1. n + 1 \in 1..N /\ (n + 1) - 1 = n /\ outcomes[n] \in S
      BY <1>4, <2>2
    <3>2. outcomes[n + 1] = turn(n + 1, outcomes[n])
      BY <1>12, <3>1
    <3>3. turn(n + 1, outcomes[n]) \in S
      BY <1>6, <3>1
    <3>4. QED
      BY <1>4, <3>1, <3>2, <3>3
  <2>. HIDE DEF G
  <2>3. \A n \in 0..N : n \in G
    BY <1>4, <2>1, <2>2, PrefixInduction
  <2>4. QED
    BY <2>3 DEF G
<1>14. start = Start(d, i, recipe) /\ N = Len(d.operations) - i + 1
  BY <1>2 DEF start, Start, N, first
<1>15. \A n \in 1..N : outcomes[n] = UNION {Replayed(c, i + n - 1) : c \in outcomes[n - 1]}
  BY <1>2, <1>12 DEF turn
<1>16. QED
  BY <1>1, <1>12, <1>13, <1>14, <1>15 DEF Vs

LEMMA ReplacedVersions ==
    ASSUME NEW d \in Good, NEW i \in DOMAIN d.operations, NEW recipe \in RecipeSet,
           recipe.kind = d.operations[i].recipe.kind
    PROVE  LET o == d.operations[i].id
           IN  \A c \in Replaced(d, o, recipe) :
                   c \in Versions(d, o) /\ c.operations[i].recipe = recipe
<1>. DEFINE o == d.operations[i].id
            start == Start(d, i, recipe)
<1>1. start \in Versions(d, o) /\ start.operations[i].recipe = recipe
  BY ReplayStarts
<1>. HIDE DEF start
<1>2. Len(d.operations) - i + 1 \in 0..(Len(d.operations) - i + 1)
  BY GoodFields
<1>3. Replaced(d, o, recipe) \subseteq Versions(start, 0)
  BY <1>2, ReplacedUnfolds DEF start, Checked
<1>4. ASSUME NEW c \in Versions(start, 0)
      PROVE  c \in Versions(d, o) /\ c.operations[i].recipe = recipe
  <2>1. start \in Good
    BY <1>1 DEF Versions
  <2>2. c \in Versions(start, o)
    BY <2>1, VersionMore
  <2>3. c \in Versions(d, o)
    BY <1>1, <2>2, VersionOn
  <2>4. start.operations[i].id # 0 /\ i \in DOMAIN start.operations
    BY <1>1, <2>1, GoodFields DEF OperationsOK, Versions
  <2>5. c.operations[i].recipe = start.operations[i].recipe
    BY <2>4 DEF Versions, Kept
  <2>6. QED
    BY <1>1, <2>3, <2>5
<1>5. QED
  BY <1>3, <1>4

\* The sketches that edits make of d that give no operation another recipe.
Offspring(d) == {c \in Good : Grown(d, c) /\ Kept(d, c, 0) /\ c.links = d.links}

LEMMA VersionsAreOffspring ==
    ASSUME NEW d \in Good  PROVE Versions(d, 0) \subseteq Offspring(d)
  BY DEF Versions, Offspring

LEMMA OffspringOn ==
    ASSUME NEW d \in Good, NEW c \in Offspring(d), NEW b \in Offspring(c)
    PROVE  b \in Offspring(d)
<1>1. c \in Good /\ b \in Good
  BY DEF Offspring
<1>2. Grown(d, c) /\ Grown(c, b) /\ Kept(d, c, 0) /\ Kept(c, b, 0)
  BY DEF Offspring
<1>3. Grown(d, b) /\ Kept(d, b, 0)
  BY <1>1, <1>2, GrownOn, KeptOn
<1>4. b.links = d.links
  BY DEF Offspring
<1>5. QED
  BY <1>1, <1>3, <1>4 DEF Offspring

LEMMA AddedOffspring ==
    ASSUME NEW d \in Good, NEW recipe \in RecipeSet, NEW size \in Nat
    PROVE  /\ Added(d, recipe, size) \in Offspring(d)
           /\ Added(d, recipe, size).operations # <<>>
<1>. DEFINE o == d.operationMark + 1
            made == [r \in 1..size |-> d.pieceMark + r]
            operation == [id |-> o, recipe |-> recipe, made |-> made, active |-> TRUE]
            operations == Append(d.operations, operation)
            T == Lit(d.pieces, o, made)
            e == [d EXCEPT !.operations = operations, !.pieces = T,
                           !.operationMark = o, !.pieceMark = d.pieceMark + size,
                           !.revision = d.revision + 1]
            n == Len(d.operations)
<1>1. Added(d, recipe, size) = Consumed(e, o, recipe.takes)
  BY DEF Added
<1>2. /\ d.operationMark \in Nat /\ d.pieceMark \in Nat /\ d.revision \in Nat /\ n \in Nat
      /\ o \in Nat /\ o > d.operationMark /\ o # 0
      /\ d.pieces \in PieceTables /\ d \in SketchSet
      /\ d.operations \in Seq(OperationSet) /\ DOMAIN d.operations = 1..n
  BY GoodFields DEF Good
<1>3. \A p \in DOMAIN d.pieces : p \in Nat /\ p <= d.pieceMark
  BY <1>2, GoodFields, TableFields DEF PiecesOK
<1>. HIDE DEF o
<1>4. /\ made \in Seq(Nat) /\ DOMAIN made = 1..size
      /\ \A r \in 1..size : /\ made[r] = d.pieceMark + r /\ made[r] > d.pieceMark
                            /\ made[r] <= d.pieceMark + size
  <2>1. made \in [1..size -> Nat]
    BY <1>2
  <2>2. made \in Seq(Nat)
    BY <2>1
  <2>3. QED
    BY <1>2, <2>2
<1>. HIDE DEF made
<1>5. Outputs(d.pieces, o, made)
  <2>1. \A r, q \in DOMAIN made : made[r] = made[q] => r = q
    BY <1>2, <1>4
  <2>2. \A r \in DOMAIN made : made[r] \notin DOMAIN d.pieces
    BY <1>2, <1>3, <1>4
  <2>3. QED
    BY <2>1, <2>2 DEF Outputs
<1>6. Lights(d.pieces, o, made, T)
  BY <1>2, <1>4, <1>5, LitTable
<1>. HIDE DEF T
<1>7. /\ T \in PieceTables /\ DOMAIN T = DOMAIN d.pieces \cup ToSet(made)
      /\ \A p \in DOMAIN d.pieces : T[p].op = d.pieces[p].op /\ T[p].role = d.pieces[p].role
      /\ \A r \in DOMAIN made : T[made[r]].op = o /\ T[made[r]].role = r
  BY <1>6 DEF Lights
<1>8. \A p \in DOMAIN T \ DOMAIN d.pieces :
          p > d.pieceMark /\ p <= d.pieceMark + size /\ T[p].op = o
  BY <1>4, <1>7 DEF ToSet
<1>9. /\ operation \in OperationSet /\ operation.id = o /\ operation.made = made
  BY <1>2, <1>4 DEF OperationSet
<1>. HIDE DEF operation
<1>10. /\ operations \in Seq(OperationSet) /\ Len(operations) = n + 1
       /\ DOMAIN operations = 1..(n + 1) /\ operations[n + 1] = operation
       /\ \A j \in 1..n : operations[j] = d.operations[j]
       /\ operations # <<>>
  BY <1>2, <1>9
<1>. HIDE DEF operations
<1>11. /\ e.operations = operations /\ e.pieces = T /\ e.pieceMark = d.pieceMark + size
       /\ e.relations = d.relations /\ e.links = d.links
       /\ e.operationMark = o /\ e \in SketchSet
  <2>1. d.pieceMark + size \in Nat /\ d.revision + 1 \in Nat
    BY <1>2
  <2>. DEFINE mark == d.pieceMark + size
              revision == d.revision + 1
  <2>2. e = [d EXCEPT !.operations = operations, !.pieces = T, !.operationMark = o,
                      !.pieceMark = mark, !.revision = revision]
    OBVIOUS
  <2>3. mark \in Nat /\ revision \in Nat /\ mark = d.pieceMark + size
    BY <2>1
  <2>. HIDE DEF mark, revision, e
  <2>4. QED
    BY <2>2, <2>3, <1>2, <1>7, <1>10 DEF SketchSet
<1>. HIDE DEF e, n
<1>12. OperationsOK(e)
  <2>1. \A j \in 1..n : /\ d.operations[j].id \in 1..d.operationMark
                        /\ d.operations[j].id # o /\ d.operations[j].id \in 1..o
    BY <1>2, GoodFields DEF OperationsOK
  <2>2. \A j, k \in 1..n : d.operations[j].id = d.operations[k].id => j = k
    BY <1>2, GoodFields DEF OperationsOK
  <2>3. \A j \in 1..(n + 1) : j \in 1..n \/ j = n + 1
    BY <1>2
  <2>4. o \in 1..o
    BY <1>2
  <2>5. QED
    BY <2>1, <2>2, <2>3, <2>4, <1>9, <1>10, <1>11 DEF OperationsOK
<1>13. LinksOK(e)
  <2>1. \A l \in d.links : l \in Nat /\ l <= d.operationMark
    BY GoodFields DEF LinksOK
  <2>2. QED
    BY <2>1, <1>2, <1>11 DEF LinksOK
<1>14. PiecesOK(e)
  <2>1. SUFFICES ASSUME NEW p \in DOMAIN T
                 PROVE  /\ p <= d.pieceMark + size
                        /\ \E j \in DOMAIN operations : operations[j].id = T[p].op
    BY <1>11 DEF PiecesOK
  <2>2. CASE p \in DOMAIN d.pieces
    <3>1. PICK j \in 1..n : d.operations[j].id = d.pieces[p].op
      BY <2>2, <1>2, GoodFields DEF PiecesOK
    <3>2. j \in 1..(n + 1) /\ p <= d.pieceMark + size
      BY <2>2, <1>2, <1>3
    <3>3. QED
      BY <3>1, <3>2, <2>2, <1>7, <1>10
  <2>3. CASE p \notin DOMAIN d.pieces
    <3>1. n + 1 \in 1..(n + 1)
      BY <1>2
    <3>2. QED
      BY <2>3, <3>1, <1>8, <1>9, <1>10
  <2>4. QED
    BY <2>2, <2>3
<1>15. OutputsOK(e)
  <2>1. SUFFICES ASSUME NEW j \in 1..(n + 1), NEW r \in DOMAIN operations[j].made
                 PROVE  /\ operations[j].made[r] \in DOMAIN T
                        /\ T[operations[j].made[r]].op = operations[j].id
                        /\ T[operations[j].made[r]].role = r
    BY <1>10, <1>11 DEF OutputsOK
  <2>2. CASE j = n + 1
    BY <2>2, <1>7, <1>9, <1>10 DEF ToSet
  <2>3. CASE j # n + 1
    <3>1. j \in 1..n /\ operations[j] = d.operations[j]
      BY <2>3, <1>2, <1>10
    <3>2. LET p == d.operations[j].made[r]
          IN  /\ p \in DOMAIN d.pieces
              /\ d.pieces[p].op = d.operations[j].id /\ d.pieces[p].role = r
      BY <3>1, <1>2, GoodFields DEF OutputsOK
    <3>3. QED
      BY <3>1, <3>2, <1>7
  <2>4. QED
    BY <2>2, <2>3
<1>16. e \in Good
  BY <1>11, <1>12, <1>13, <1>14, <1>15 DEF Good
<1>17. Grown(d, e) /\ Kept(d, e, 0)
  <2>1. \A p \in DOMAIN d.pieces : p \in DOMAIN T
    BY <1>7
  <2>2. \A j \in DOMAIN operations \ 1..n : operations[j].id > d.operationMark
    <3>1. \A j \in 1..(n + 1) \ 1..n : j = n + 1
      BY <1>2
    <3>2. QED
      BY <3>1, <1>2, <1>9, <1>10
  <2>3. n <= n + 1 /\ d.operationMark <= o /\ d.pieceMark <= d.pieceMark + size
    BY <1>2
  <2>4. Grown(d, e)
    BY <2>1, <2>2, <2>3, <1>2, <1>7, <1>8, <1>10, <1>11 DEF Grown, n
  <2>5. Kept(d, e, 0)
    BY <2>3, <1>2, <1>10, <1>11 DEF Kept, n
  <2>6. QED
    BY <2>4, <2>5
<1>18. e \in Offspring(d)
  BY <1>11, <1>16, <1>17 DEF Offspring
<1>19. /\ Consumed(e, o, recipe.takes) \in Offspring(e)
       /\ Consumed(e, o, recipe.takes).operations = e.operations
  BY <1>2, <1>16, ConsumedPaints, VersionsAreOffspring
<1>20. QED
  BY <1>1, <1>10, <1>11, <1>16, <1>18, <1>19, OffspringOn

\* All but the operations and the pieces.
Annotated(d, relations, links, operationMark, pieceMark, revision) ==
    [d EXCEPT !.relations = relations, !.links = links, !.operationMark = operationMark,
              !.pieceMark = pieceMark, !.revision = revision]

LEMMA AnnotatedGrows ==
    ASSUME NEW d \in Good, NEW relations \in SUBSET SUBSET Nat, NEW links \in SUBSET Nat,
           NEW operationMark \in Nat, NEW pieceMark \in Nat, NEW revision \in Nat,
           d.operationMark <= operationMark, d.pieceMark <= pieceMark,
           \A o \in links : o <= operationMark
    PROVE  LET c == Annotated(d, relations, links, operationMark, pieceMark, revision)
           IN  /\ c \in Good /\ Grown(d, c) /\ Kept(d, c, 0)
               /\ c.operations = d.operations /\ c.pieces = d.pieces /\ c.links = links
               /\ c.operationMark = operationMark /\ c.pieceMark = pieceMark
<1>. DEFINE c == Annotated(d, relations, links, operationMark, pieceMark, revision)
<1>1. /\ c.operations = d.operations /\ c.pieces = d.pieces /\ c.links = links
      /\ c.operationMark = operationMark /\ c.pieceMark = pieceMark /\ c \in SketchSet
  BY DEF Annotated, Good, SketchSet
<1>. HIDE DEF c
<1>2. /\ OperationsOK(d) /\ PiecesOK(d) /\ OutputsOK(d)
      /\ d.operationMark \in Nat /\ d.pieceMark \in Nat
      /\ \A i \in DOMAIN d.operations : d.operations[i].id \in Nat
      /\ \A p \in DOMAIN d.pieces : p \in Nat
  BY GoodFields, OperationFields, TableFields
<1>3. OperationsOK(c)
  BY <1>1, <1>2 DEF OperationsOK
<1>4. PiecesOK(c)
  BY <1>1, <1>2 DEF PiecesOK
<1>5. OutputsOK(c)
  BY <1>1, <1>2 DEF OutputsOK
<1>6. LinksOK(c)
  BY <1>1 DEF LinksOK
<1>7. Grown(d, c) /\ Kept(d, c, 0)
  BY <1>1, <1>2, GoodFields DEF Grown, Kept
<1>8. QED
  BY <1>1, <1>3, <1>4, <1>5, <1>6, <1>7 DEF Good, c

LEMMA RevisedVersion ==
    ASSUME NEW d \in Good, NEW revision \in Nat
    PROVE  /\ [d EXCEPT !.revision = revision] \in Versions(d, 0)
           /\ [d EXCEPT !.revision = revision].operations = d.operations
           /\ [d EXCEPT !.revision = revision].pieces = d.pieces
<1>. DEFINE c == Annotated(d, d.relations, d.links, d.operationMark, d.pieceMark, revision)
<1>1. c = [d EXCEPT !.revision = revision]
  BY DEF Annotated, Good, SketchSet
<1>. HIDE DEF c
<1>2. /\ c \in Good /\ Grown(d, c) /\ Kept(d, c, 0)
      /\ c.operations = d.operations /\ c.pieces = d.pieces /\ c.links = d.links
  <2>1. /\ d.relations \in SUBSET SUBSET Nat /\ d.links \in SUBSET Nat
        /\ d.operationMark \in Nat /\ d.pieceMark \in Nat
        /\ d.operationMark <= d.operationMark /\ d.pieceMark <= d.pieceMark
        /\ \A o \in d.links : o <= d.operationMark
    BY GoodFields DEF LinksOK
  <2>2. QED
    BY <2>1, AnnotatedGrows DEF c
<1>3. QED
  BY <1>1, <1>2 DEF Versions

LEMMA StagedOffspring ==
    ASSUME NEW d \in Good, NEW recipe \in RecipeSet
    PROVE  \A c \in Staged(d, recipe) : c \in Offspring(d) /\ c.operations # <<>>
<1>1. Staged(d, recipe) \subseteq {Added(d, recipe, size) : size \in Sizes(recipe)}
  BY DEF Staged, Checked
<1>2. \A size \in Sizes(recipe) : size \in Nat
  BY SizesAreNumbers
<1>3. QED
  BY <1>1, <1>2, AddedOffspring

LEMMA RelatedOffspring ==
    ASSUME NEW d \in Good, NEW relation
    PROVE  \A c \in Related(d, relation) :
               /\ c \in Offspring(d) /\ c.operations = d.operations
<1>. DEFINE relations == d.relations \cup {relation}
            c == Annotated(d, relations, d.links, d.operationMark, d.pieceMark,
                           d.revision + 1)
<1>1. CASE relation \subseteq Points(d)
  <2>1. relation \subseteq Nat
    BY <1>1, GoodFields, TableFields DEF Points
  <2>0. relations \in SUBSET SUBSET Nat
    BY <2>1, GoodFields
  <2>2. /\ relations \in SUBSET SUBSET Nat /\ d.links \in SUBSET Nat
        /\ d.operationMark \in Nat /\ d.pieceMark \in Nat /\ d.revision + 1 \in Nat
        /\ d.operationMark <= d.operationMark /\ d.pieceMark <= d.pieceMark
        /\ \A o \in d.links : o <= d.operationMark
    <3>. HIDE DEF relations
    <3>1. QED
      BY <2>0, GoodFields DEF LinksOK
  <2>3. c = [d EXCEPT !.relations = relations, !.revision = @ + 1]
    BY DEF Annotated, Good, SketchSet
  <2>. HIDE DEF relations, c
  <2>4. /\ c \in Good /\ Grown(d, c) /\ Kept(d, c, 0)
        /\ c.operations = d.operations /\ c.links = d.links
    BY <2>2, AnnotatedGrows DEF c
  <2>5. Related(d, relation) \subseteq {c}
    BY <2>3 DEF Related, Checked, relations
  <2>6. QED
    BY <2>4, <2>5 DEF Offspring
<1>2. CASE ~(relation \subseteq Points(d))
  BY <1>2 DEF Related
<1>3. QED
  BY <1>1, <1>2

LEMMA WithoutVersion ==
    ASSUME NEW d \in Good, NEW i \in DOMAIN d.operations
    PROVE  Without(d, d.operations[i].id) \in Versions(d, 0)
<1>. DEFINE o == d.operations[i].id
            lit == Restored(d, o)
            op == [lit.operations[i] EXCEPT !.active = FALSE]
            off == [lit EXCEPT !.operations[i].active = FALSE]
            out == ToSet(d.operations[i].made)
<1>1. Without(d, o) = Darkened(off, out)
  BY IndexOf DEF Without
<1>2. lit \in Versions(d, 0) /\ lit \in Good /\ lit.operations = d.operations
  BY RestoredPaints DEF Versions
<1>. HIDE DEF lit, out
<1>3. lit.operations[i] \in OperationSet /\ lit.revision \in Nat /\ i \in DOMAIN lit.operations
  BY <1>2, GoodFields
<1>4. /\ op \in OperationSet /\ op.id = lit.operations[i].id /\ op.active = FALSE
      /\ op.made = lit.operations[i].made /\ op.recipe = lit.operations[i].recipe
  BY <1>3 DEF OperationSet
<1>5. off = Rewritten(lit, i, op, lit.revision)
  BY <1>2 DEF Rewritten, Good, SketchSet
<1>. HIDE DEF op, off
<1>6. off \in Versions(lit, 0)
  <2>1. op.recipe.kind = lit.operations[i].recipe.kind /\ (op.active => lit.operations[i].active)
    BY <1>4
  <2>2. QED
    BY <2>1, <1>2, <1>3, <1>4, <1>5, ChangedOperation
<1>7. off \in Good /\ off \in Versions(d, 0)
  BY <1>2, <1>6, VersionOn DEF Versions
<1>8. Darkened(off, out) \in Versions(off, 0)
  BY <1>7, DarkenedPaints
<1>9. QED
  BY <1>1, <1>7, <1>8, VersionOn

\* The retirement, operation by operation.
LEMMA RetiredUnfolds ==
    ASSUME NEW d \in Good, NEW o
    PROVE  LET N == Len(d.operations)
           IN  \E rest :
                   /\ rest[0] = d
                   /\ \A n \in 1..N :
                          rest[n] = IF d.operations[n].id \in Dependents(d, o)
                                      THEN Without(rest[n - 1], d.operations[n].id)
                                      ELSE rest[n - 1]
                   /\ \A n \in 0..N : rest[n] \in Versions(d, 0)
                   /\ Retired(d, o) = Checked({[rest[N] EXCEPT !.revision = @ + 1]})
<1>. DEFINE gone == Dependents(d, o)
            N == Len(d.operations)
            S == Versions(d, 0)
            turn(n, c) == IF d.operations[n].id \in gone
                            THEN Without(c, d.operations[n].id) ELSE c
            step == [n \in 1..N |-> [c \in S |-> turn(n, c)]]
            body(f) == [n \in 0..N |-> IF n = 0 THEN d ELSE turn(n, f[n-1])]
            rest == CHOOSE f : f = body(f)
<1>1. Retired(d, o) = Checked({[rest[N] EXCEPT !.revision = @ + 1]})
  BY DEF Retired
<1>. HIDE DEF gone
<1>2. N \in Nat /\ DOMAIN d.operations = 1..N
  BY GoodFields
<1>3. ASSUME NEW n \in 1..N, NEW c \in S
      PROVE  turn(n, c) \in S
  <2>1. c \in Good /\ n \in DOMAIN c.operations /\ c.operations[n].id = d.operations[n].id
    BY <1>2, <1>3, GoodFields DEF Versions, Kept
  <2>2. Without(c, c.operations[n].id) \in Versions(c, 0)
    BY <2>1, WithoutVersion
  <2>3. Without(c, d.operations[n].id) \in S
    BY <2>1, <2>2, VersionOn
  <2>4. QED
    BY <2>3
<1>4. d \in S
  BY VersionItself
<1>. HIDE DEF N, S, turn
<1>5. step \in [1..N -> [S -> S]]
  BY <1>3
<1>6. PICK g \in [0..N -> S] : Follows(g, N, d, step)
  <2>. HIDE DEF step
  <2>1. QED
    BY <1>2, <1>4, <1>5, PrefixRecursion
<1>7. g = body(g)
  <2>. DEFINE by(n) == IF n = 0 THEN d ELSE step[n][g[n-1]]
              with(n) == IF n = 0 THEN d ELSE turn(n, g[n-1])
  <2>1. \A n \in 0..N : by(n) = with(n)
    BY <1>2
  <2>2. g = [n \in 0..N |-> by(n)]
    BY <1>6 DEF Follows
  <2>. HIDE DEF by, with
  <2>3. [n \in 0..N |-> by(n)] = [n \in 0..N |-> with(n)]
    BY ONLY <2>1
  <2>4. g = [n \in 0..N |-> with(n)]
    BY ONLY <2>2, <2>3
  <2>5. QED
    BY <2>4 DEF with
<1>8. rest = body(rest)
  BY <1>7
<1>. HIDE DEF rest, step
<1>9. rest[0] = d /\ \A n \in 1..N : rest[n] = turn(n, rest[n-1])
  <2>. DEFINE with(n) == IF n = 0 THEN d ELSE turn(n, rest[n-1])
  <2>1. rest = [n \in 0..N |-> with(n)]
    BY <1>8
  <2>. HIDE DEF with
  <2>2. \A n \in 0..N : rest[n] = with(n)
    BY ONLY <2>1
  <2>3. 0 \in 0..N /\ \A n \in 1..N : n \in 0..N /\ n # 0
    BY <1>2
  <2>4. QED
    BY <2>2, <2>3 DEF with
<1>10. \A n \in 0..N : rest[n] \in S
  <2>. DEFINE G == {n \in 0..N : rest[n] \in S}
  <2>1. 0 \in G
    BY <1>2, <1>4, <1>9
  <2>2. ASSUME NEW n \in 0..(N - 1), n \in G
        PROVE  n + 1 \in G
    <3>1. n + 1 \in 1..N /\ (n + 1) - 1 = n /\ rest[n] \in S
      BY <1>2, <2>2
    <3>2. rest[n + 1] = turn(n + 1, rest[n])
      BY <1>9, <3>1
    <3>3. turn(n + 1, rest[n]) \in S
      BY <1>3, <3>1
    <3>4. QED
      BY <1>2, <3>1, <3>2, <3>3
  <2>. HIDE DEF G
  <2>3. \A n \in 0..N : n \in G
    BY <1>2, <2>1, <2>2, PrefixInduction
  <2>4. QED
    BY <2>3 DEF G
<1>11. QED
  BY <1>1, <1>9, <1>10 DEF S, N, turn, gone

LEMMA RetiredVersions ==
    ASSUME NEW d \in Good, NEW o
    PROVE  Retired(d, o) \subseteq Versions(d, 0)
<1>. DEFINE N == Len(d.operations)
<1>0. N \in 0..N
  BY GoodFields
<1>1. PICK rest :
        /\ rest[0] = d
        /\ \A n \in 1..N :
               rest[n] = IF d.operations[n].id \in Dependents(d, o)
                           THEN Without(rest[n - 1], d.operations[n].id)
                           ELSE rest[n - 1]
        /\ \A n \in 0..N : rest[n] \in Versions(d, 0)
        /\ Retired(d, o) = Checked({[rest[N] EXCEPT !.revision = @ + 1]})
  BY RetiredUnfolds, Zenon
<1>2. rest[N] \in Versions(d, 0)
  BY <1>0, <1>1
<1>. HIDE DEF N
<1>3. rest[N] \in Good /\ rest[N].revision + 1 \in Nat
  BY <1>2, GoodFields DEF Versions
<1>4. [rest[N] EXCEPT !.revision = @ + 1] \in Versions(rest[N], 0)
  BY <1>3, RevisedVersion
<1>5. [rest[N] EXCEPT !.revision = @ + 1] \in Versions(d, 0)
  BY <1>2, <1>4, VersionOn
<1>6. QED
  BY <1>1, <1>5 DEF Checked

LEMMA PrunedGrows ==
    ASSUME NEW d \in Good
    PROVE  /\ Pruned(d) \in Good /\ Grown(d, Pruned(d)) /\ Kept(d, Pruned(d), 0)
           /\ Pruned(d).operations = d.operations /\ Pruned(d).pieces = d.pieces
           /\ Pruned(d).links \subseteq d.links /\ Pruned(d).pieceMark = d.pieceMark
<1>. DEFINE links == d.links \cap {op.id : op \in Active(d)}
            c == Annotated(d, d.relations, links, d.operationMark, d.pieceMark, d.revision)
<1>1. links \subseteq d.links
  OBVIOUS
<1>2. c = Pruned(d)
  BY DEF Annotated, Pruned, Good, SketchSet
<1>. HIDE DEF links, c
<1>3. /\ d.relations \in SUBSET SUBSET Nat /\ links \in SUBSET Nat
      /\ d.operationMark \in Nat /\ d.pieceMark \in Nat /\ d.revision \in Nat
      /\ d.operationMark <= d.operationMark /\ d.pieceMark <= d.pieceMark
      /\ \A o \in links : o <= d.operationMark
  BY <1>1, GoodFields DEF LinksOK
<1>4. /\ c \in Good /\ Grown(d, c) /\ Kept(d, c, 0) /\ c.operations = d.operations
      /\ c.pieces = d.pieces /\ c.links = links /\ c.pieceMark = d.pieceMark
  BY <1>3, AnnotatedGrows DEF c
<1>5. QED
  BY <1>1, <1>2, <1>4

Relinked(d, links) == [d EXCEPT !.links = links]

LEMMA RelinkedGrows ==
    ASSUME NEW d \in Good, NEW i \in DOMAIN d.operations, NEW links,
           links \subseteq d.links \cup {d.operations[i].id}
    PROVE  LET c == Relinked(d, links)
           IN  /\ c \in Good /\ Grown(d, c) /\ Kept(d, c, 0)
               /\ c.operations = d.operations /\ c.links = links
<1>. DEFINE c == Annotated(d, d.relations, links, d.operationMark, d.pieceMark, d.revision)
<1>1. c = Relinked(d, links)
  BY DEF Annotated, Relinked, Good, SketchSet
<1>. HIDE DEF c
<1>2. d.operations[i].id \in Nat /\ d.operations[i].id <= d.operationMark
  BY GoodFields DEF OperationsOK
<1>3. \A o \in links : o \in Nat /\ o <= d.operationMark
  BY <1>2, GoodFields DEF LinksOK
<1>4. /\ d.relations \in SUBSET SUBSET Nat /\ links \in SUBSET Nat
      /\ d.operationMark \in Nat /\ d.pieceMark \in Nat /\ d.revision \in Nat
      /\ d.operationMark <= d.operationMark /\ d.pieceMark <= d.pieceMark
  BY <1>3, GoodFields
<1>5. /\ c \in Good /\ Grown(d, c) /\ Kept(d, c, 0) /\ c.operations = d.operations
      /\ c.links = links
  BY <1>3, <1>4, AnnotatedGrows DEF c
<1>6. QED
  BY <1>1, <1>5

LEMMA PreservingGrows ==
    ASSUME NEW d \in Good, NEW marks \in Good
    PROVE  LET c == Preserving(d, marks)
           IN  /\ c \in Good /\ Grown(d, c) /\ c.operations = d.operations
               /\ c.pieces = d.pieces /\ c.links = d.links
               /\ marks.pieceMark <= c.pieceMark
<1>. DEFINE operationMark == IF d.operationMark < marks.operationMark
                               THEN marks.operationMark ELSE d.operationMark
            pieceMark == IF d.pieceMark < marks.pieceMark
                           THEN marks.pieceMark ELSE d.pieceMark
            c == Annotated(d, d.relations, d.links, operationMark, pieceMark, d.revision)
<1>1. c = Preserving(d, marks)
  BY DEF Annotated, Preserving, Good, SketchSet
<1>2. /\ d.relations \in SUBSET SUBSET Nat /\ d.links \in SUBSET Nat /\ d.revision \in Nat
      /\ d.operationMark \in Nat /\ marks.operationMark \in Nat
      /\ d.pieceMark \in Nat /\ marks.pieceMark \in Nat
  BY GoodFields
<1>3. /\ operationMark \in Nat /\ d.operationMark <= operationMark
      /\ pieceMark \in Nat /\ d.pieceMark <= pieceMark /\ marks.pieceMark <= pieceMark
  BY <1>2
<1>. HIDE DEF operationMark, pieceMark, c
<1>4. \A o \in d.links : o <= operationMark
  <2>1. \A o \in d.links : o \in Nat /\ o <= d.operationMark
    BY GoodFields DEF LinksOK
  <2>2. QED
    BY <2>1, <1>2, <1>3
<1>5. /\ c \in Good /\ Grown(d, c) /\ c.operations = d.operations
      /\ c.pieces = d.pieces /\ c.links = d.links /\ c.pieceMark = pieceMark
  BY <1>2, <1>3, <1>4, AnnotatedGrows DEF c
<1>6. QED
  BY <1>1, <1>3, <1>5

-----------------------------------------------------------------------------
(* Following the variable.                                                 *)

\* What is linked in d has the value v.
At(d, v) ==
    \A i \in DOMAIN d.operations :
        d.operations[i].active /\ d.operations[i].id \in d.links =>
            d.operations[i].recipe.value = v

Results(d) ==
    {x \in [done : BOOLEAN, now : Good] :
        /\ Grown(d, x.now) /\ Len(x.now.operations) = Len(d.operations)
        /\ x.now.links \subseteq d.links}

LEMMA ActiveAt ==
    ASSUME NEW d \in Good, NEW i \in DOMAIN d.operations
    PROVE  d.operations[i].active <=> d.operations[i].id \in {op.id : op \in Active(d)}
<1>1. Active(d) = {op \in {d.operations[j] : j \in DOMAIN d.operations} : op.active}
  BY DEF Active, ToSet
<1>2. \A j \in DOMAIN d.operations : d.operations[j].id = d.operations[i].id => j = i
  BY GoodFields DEF OperationsOK
<1>3. QED
  BY <1>1, <1>2

LEMMA AgainResults ==
    ASSUME NEW d \in Good, NEW x \in Results(d), NEW n \in DOMAIN d.operations,
           NEW value \in Nat, NEW y \in Again(d, x, d.operations[n].id, value)
    PROVE  /\ y \in Results(d)
           /\ y.done => /\ x.done /\ Kept(x.now, y.now, d.operations[n].id)
                        /\ y.now.operations[n].active =>
                               y.now.operations[n].recipe.value = value
<1>. DEFINE o == d.operations[n].id
            now == x.now
            recipe == [now.operations[n].recipe EXCEPT !.value = value]
            again == Replaced(now, o, recipe)
<1>1. /\ x.done \in BOOLEAN /\ now \in Good /\ Grown(d, now)
      /\ Len(now.operations) = Len(d.operations) /\ now.links \subseteq d.links
  BY DEF Results
<1>. HIDE DEF now
<1>2. n \in DOMAIN now.operations /\ now.operations[n].id = o
  BY <1>1, GoodFields DEF Grown
<1>3. Index(now, o) = n
  BY <1>1, <1>2, IndexOf
<1>4. now.operations[n].recipe \in RecipeSet
  BY <1>1, <1>2, GoodFields, OperationFields
<1>5. recipe \in RecipeSet /\ recipe.kind = now.operations[n].recipe.kind /\ recipe.value = value
  BY <1>4 DEF RecipeSet
<1>6. \/ /\ y = x
         /\ ~x.done \/ o \notin {op.id : op \in Active(now)} \/ recipe = now.operations[n].recipe
      \/ y = [done |-> FALSE, now |-> d]
      \/ x.done /\ \E c \in again : y = [done |-> TRUE, now |-> Pruned(c)]
  BY <1>3 DEF Again, now
<1>. HIDE DEF recipe, again
<1>7. CASE /\ y = x
           /\ ~x.done \/ o \notin {op.id : op \in Active(now)} \/ recipe = now.operations[n].recipe
  <2>1. y \in Results(d) /\ y.done = x.done /\ y.now = now
    BY <1>7 DEF now
  <2>2. Kept(now, now, o)
    BY <1>1, GrownItself
  <2>3. CASE ~x.done
    BY <2>1, <2>3
  <2>4. CASE o \notin {op.id : op \in Active(now)}
    <3>1. ~now.operations[n].active
      BY <2>4, <1>1, <1>2, ActiveAt
    <3>2. QED
      BY <2>1, <2>2, <3>1, <1>1 DEF now
  <2>5. CASE recipe = now.operations[n].recipe
    BY <2>1, <2>2, <2>5, <1>1, <1>5 DEF now
  <2>6. QED
    BY <1>7, <2>3, <2>4, <2>5
<1>8. CASE y = [done |-> FALSE, now |-> d]
  BY <1>8, GrownItself DEF Results
<1>9. CASE x.done /\ \E c \in again : y = [done |-> TRUE, now |-> Pruned(c)]
  <2>1. PICK c \in again : y = [done |-> TRUE, now |-> Pruned(c)]
    BY <1>9
  <2>2. c \in Versions(now, o) /\ c.operations[n].recipe = recipe
    BY <2>1, <1>1, <1>2, <1>5, ReplacedVersions DEF again
  <2>3. /\ c \in Good /\ Grown(now, c) /\ Kept(now, c, o) /\ c.links = now.links
        /\ Len(c.operations) = Len(now.operations)
    BY <2>2 DEF Versions
  <2>4. /\ Pruned(c) \in Good /\ Grown(c, Pruned(c)) /\ Pruned(c).operations = c.operations
        /\ Pruned(c).links \subseteq c.links
    BY <2>3, PrunedGrows
  <2>5. Grown(d, Pruned(c))
    BY <1>1, <2>3, <2>4, GrownOn
  <2>6. Kept(now, Pruned(c), o)
    BY <2>3, <2>4 DEF Kept
  <2>7. y \in Results(d)
    BY <2>1, <2>3, <2>4, <2>5, <1>1 DEF Results
  <2>8. QED
    BY <2>1, <2>2, <2>4, <2>6, <2>7, <1>5, <1>9 DEF now
<1>10. QED
  BY <1>6, <1>7, <1>8, <1>9

\* A pass over the linked operations, one by one.
LEMMA FollowedUnfolds ==
    ASSUME NEW d \in Good, NEW value \in Nat
    PROVE  LET N == Len(d.operations)
           IN  \E turns :
                   /\ turns[0] = {[done |-> TRUE, now |-> d]}
                   /\ \A n \in 1..N :
                          turns[n] =
                            IF d.operations[n].id \in d.links
                              THEN UNION {Again(d, x, d.operations[n].id, value) :
                                              x \in turns[n - 1]}
                              ELSE turns[n - 1]
                   /\ \A n \in 0..N : turns[n] \subseteq Results(d)
                   /\ Followed(d, value) = turns[N]
<1>. DEFINE N == Len(d.operations)
            first == [done |-> TRUE, now |-> d]
            R == Results(d)
            S == SUBSET R
            turn(n, X) ==
                IF d.operations[n].id \in d.links
                  THEN UNION {Again(d, x, d.operations[n].id, value) : x \in X} ELSE X
            step == [n \in 1..N |-> [X \in S |-> turn(n, X)]]
            body(f) == [n \in 0..N |-> IF n = 0 THEN {first} ELSE turn(n, f[n-1])]
            outcomes == CHOOSE f : f = body(f)
<1>1. N \in Nat /\ DOMAIN d.operations = 1..N
  BY GoodFields
<1>2. Followed(d, value) = outcomes[N]
  BY DEF Followed
<1>3. \A n \in 1..N, X \in S : turn(n, X) \in S
  BY <1>1, AgainResults
<1>4. {first} \in S
  BY GrownItself DEF Results
<1>. HIDE DEF N, R, turn, first
<1>5. step \in [1..N -> [S -> S]]
  BY <1>3
<1>6. PICK g \in [0..N -> S] : Follows(g, N, {first}, step)
  <2>. HIDE DEF step, S
  <2>1. QED
    BY <1>1, <1>4, <1>5, PrefixRecursion
<1>7. g = body(g)
  <2>. DEFINE by(n) == IF n = 0 THEN {first} ELSE step[n][g[n-1]]
              with(n) == IF n = 0 THEN {first} ELSE turn(n, g[n-1])
  <2>1. \A n \in 0..N : by(n) = with(n)
    BY <1>1
  <2>2. g = [n \in 0..N |-> by(n)]
    BY <1>6 DEF Follows
  <2>. HIDE DEF by, with
  <2>3. [n \in 0..N |-> by(n)] = [n \in 0..N |-> with(n)]
    BY ONLY <2>1
  <2>4. g = [n \in 0..N |-> with(n)]
    BY ONLY <2>2, <2>3
  <2>5. QED
    BY <2>4 DEF with
<1>8. outcomes = body(outcomes)
  BY <1>7
<1>. HIDE DEF outcomes, step
<1>9. outcomes[0] = {first} /\ \A n \in 1..N : outcomes[n] = turn(n, outcomes[n-1])
  <2>. DEFINE with(n) == IF n = 0 THEN {first} ELSE turn(n, outcomes[n-1])
  <2>1. outcomes = [n \in 0..N |-> with(n)]
    BY <1>8
  <2>. HIDE DEF with
  <2>2. \A n \in 0..N : outcomes[n] = with(n)
    BY ONLY <2>1
  <2>3. 0 \in 0..N /\ \A n \in 1..N : n \in 0..N /\ n # 0
    BY <1>1
  <2>4. QED
    BY <2>2, <2>3 DEF with
<1>10. \A n \in 0..N : outcomes[n] \in S
  <2>. DEFINE G == {n \in 0..N : outcomes[n] \in S}
  <2>1. 0 \in G
    BY <1>1, <1>4, <1>9
  <2>2. ASSUME NEW n \in 0..(N - 1), n \in G
        PROVE  n + 1 \in G
    <3>1. n + 1 \in 1..N /\ (n + 1) - 1 = n /\ outcomes[n] \in S
      BY <1>1, <2>2
    <3>2. outcomes[n + 1] = turn(n + 1, outcomes[n])
      BY <1>9, <3>1
    <3>3. turn(n + 1, outcomes[n]) \in S
      BY <1>3, <3>1
    <3>4. n + 1 \in 0..N
      BY <1>1, <3>1
    <3>5. QED
      BY <3>2, <3>3, <3>4
  <2>. HIDE DEF G
  <2>3. \A n \in 0..N : n \in G
    BY <1>1, <2>1, <2>2, PrefixInduction
  <2>4. QED
    BY <2>3 DEF G
<1>11. QED
  BY <1>2, <1>9, <1>10 DEF R, N, first, turn

LEMMA FollowedResults ==
    ASSUME NEW d \in Good, NEW value \in Nat
    PROVE  \A x \in Followed(d, value) : x \in Results(d) /\ (x.done => At(x.now, value))
<1>. DEFINE N == Len(d.operations)
            R == Results(d)
            turn(n, X) ==
                IF d.operations[n].id \in d.links
                  THEN UNION {Again(d, x, d.operations[n].id, value) : x \in X} ELSE X
            \* The first n operations have been worked out.
            Upto(n) == {x \in R : x.done => \A i \in 1..n :
                            x.now.operations[i].active /\ d.operations[i].id \in d.links =>
                                x.now.operations[i].recipe.value = value}
<1>1. /\ N \in Nat /\ DOMAIN d.operations = 1..N
      /\ \A i, j \in 1..N : d.operations[i].id = d.operations[j].id => i = j
  BY GoodFields DEF OperationsOK
<1>2. ASSUME NEW n \in 1..N, NEW X, X \subseteq Upto(n - 1)
      PROVE  turn(n, X) \subseteq Upto(n)
  <2>1. \A i \in 1..n : i = n \/ i \in 1..(n - 1)
    BY <1>1
  <2>2. CASE d.operations[n].id \notin d.links
    BY <2>1, <2>2, <1>2
  <2>3. CASE d.operations[n].id \in d.links
    <3>1. SUFFICES ASSUME NEW x \in X, NEW y \in Again(d, x, d.operations[n].id, value)
                   PROVE  y \in Upto(n)
      BY <2>3
    <3>2. x \in R /\ x \in Upto(n - 1)
      BY <1>2
    <3>3. /\ y \in R
          /\ y.done => /\ x.done /\ Kept(x.now, y.now, d.operations[n].id)
                       /\ y.now.operations[n].active =>
                              y.now.operations[n].recipe.value = value
      BY <3>1, <3>2, <1>1, AgainResults
    <3>4. ASSUME y.done, NEW i \in 1..n, y.now.operations[i].active,
                 d.operations[i].id \in d.links
          PROVE  y.now.operations[i].recipe.value = value
      <4>1. CASE i = n
        BY <4>1, <3>3, <3>4
      <4>2. CASE i # n
        <5>1. i \in 1..(n - 1) /\ i \in 1..N /\ d.operations[i].id # d.operations[n].id
          BY <4>2, <1>1
        <5>2. x.now \in Good /\ Len(x.now.operations) = N /\ Grown(d, x.now)
          BY <3>2 DEF Results
        <5>3. i \in DOMAIN x.now.operations /\ x.now.operations[i].id = d.operations[i].id
          BY <5>1, <5>2, <1>1, GoodFields DEF Grown
        <5>4. /\ y.now.operations[i].active => x.now.operations[i].active
              /\ y.now.operations[i].recipe = x.now.operations[i].recipe
          BY <5>1, <5>3, <3>3, <3>4 DEF Kept
        <5>5. QED
          BY <5>1, <5>4, <3>2, <3>3, <3>4
      <4>3. QED
        BY <4>1, <4>2
    <3>5. QED
      BY <3>3, <3>4
  <2>4. QED
    BY <2>2, <2>3
<1>3. \A x \in Upto(N) : x \in R /\ (x.done => At(x.now, value))
  <2>1. SUFFICES ASSUME NEW x \in Upto(N), x.done  PROVE At(x.now, value)
    OBVIOUS
  <2>2. x.now \in Good /\ Len(x.now.operations) = N /\ Grown(d, x.now)
        /\ x.now.links \subseteq d.links
    BY DEF Results
  <2>3. DOMAIN x.now.operations = 1..N
        /\ \A i \in 1..N : x.now.operations[i].id = d.operations[i].id
    BY <2>2, <1>1, GoodFields DEF Grown
  <2>4. QED
    BY <2>1, <2>2, <2>3 DEF At
<1>4. PICK turns :
        /\ turns[0] = {[done |-> TRUE, now |-> d]}
        /\ \A n \in 1..N :
               turns[n] =
                 IF d.operations[n].id \in d.links
                   THEN UNION {Again(d, x, d.operations[n].id, value) : x \in turns[n - 1]}
                   ELSE turns[n - 1]
        /\ \A n \in 0..N : turns[n] \subseteq Results(d)
        /\ Followed(d, value) = turns[N]
  BY FollowedUnfolds, Zenon
<1>5. turns[0] \subseteq Upto(0)
  BY <1>1, <1>4
<1>. HIDE DEF N, R, Upto
<1>6. \A n \in 1..N : turns[n] = turn(n, turns[n - 1])
  BY <1>4
<1>. HIDE DEF turn
<1>7. \A n \in 0..N : turns[n] \subseteq Upto(n)
  <2>. DEFINE G == {n \in 0..N : turns[n] \subseteq Upto(n)}
  <2>1. 0 \in G
    BY <1>1, <1>5
  <2>2. ASSUME NEW n \in 0..(N - 1), n \in G
        PROVE  n + 1 \in G
    <3>1. n + 1 \in 1..N /\ n + 1 \in 0..N /\ (n + 1) - 1 = n /\ turns[n] \subseteq Upto(n)
      BY <1>1, <2>2
    <3>2. turns[n + 1] = turn(n + 1, turns[n])
      BY <1>6, <3>1
    <3>3. turn(n + 1, turns[n]) \subseteq Upto(n + 1)
      BY <1>2, <3>1
    <3>4. QED
      BY <3>1, <3>2, <3>3
  <2>. HIDE DEF G
  <2>3. \A n \in 0..N : n \in G
    BY <1>1, <2>1, <2>2, PrefixInduction
  <2>4. QED
    BY <2>3 DEF G
<1>8. QED
  <2>1. N \in 0..N
    BY <1>1
  <2>2. QED
    BY <2>1, <1>3, <1>4, <1>7 DEF R

LEMMA OffspringAt ==
    ASSUME NEW d \in Good, NEW c \in Offspring(d), NEW v, At(d, v)
    PROVE  At(c, v)
<1>1. c \in Good /\ Grown(d, c) /\ Kept(d, c, 0) /\ c.links = d.links
  BY DEF Offspring
<1>2. SUFFICES ASSUME NEW i \in DOMAIN c.operations, c.operations[i].active,
                      c.operations[i].id \in d.links
               PROVE  c.operations[i].recipe.value = v
  BY <1>1 DEF At
<1>3. /\ d.operationMark \in Nat /\ c.operations[i].id \in Nat
      /\ c.operations[i].id <= d.operationMark
  BY <1>1, <1>2, GoodFields, OperationFields DEF LinksOK
<1>4. i \in DOMAIN d.operations
  BY <1>1, <1>3 DEF Grown
<1>5. d.operations[i].id # 0
  BY <1>4, GoodFields DEF OperationsOK
<1>6. QED
  BY <1>1, <1>2, <1>4, <1>5 DEF Kept, At

-----------------------------------------------------------------------------
(* What the names of published sketches stand for.                         *)

LEMMA MeaningGrows ==
    ASSUME NEW d \in Good, NEW c \in Good, Grown(d, c)
    PROVE  /\ Meaning(d) \subseteq Meaning(c)
           /\ \A m \in Meaning(c) : m \in Meaning(d) \/ m.name > d.pieceMark
<1>. DEFINE means(x, p) == [name |-> p, op |-> x.pieces[p].op, role |-> x.pieces[p].role,
                            kind |-> Owner(x, p).recipe.kind]
<1>1. ASSUME NEW p \in DOMAIN d.pieces
      PROVE  p \in DOMAIN c.pieces /\ means(c, p) = means(d, p)
  <2>1. /\ p \in DOMAIN c.pieces /\ c.pieces[p].op = d.pieces[p].op
        /\ c.pieces[p].role = d.pieces[p].role
    BY DEF Grown
  <2>2. PICK i \in DOMAIN d.operations :
          Owner(d, p) = d.operations[i] /\ d.operations[i].id = d.pieces[p].op
    BY OwnerOf
  <2>3. PICK j \in DOMAIN c.operations :
          Owner(c, p) = c.operations[j] /\ c.operations[j].id = c.pieces[p].op
    BY <2>1, OwnerOf
  <2>4. /\ i \in DOMAIN c.operations /\ c.operations[i].id = d.operations[i].id
        /\ c.operations[i].recipe.kind = d.operations[i].recipe.kind
    BY GoodFields DEF Grown
  <2>5. j = i
    BY <2>1, <2>2, <2>3, <2>4, GoodFields DEF OperationsOK
  <2>6. QED
    BY <2>1, <2>2, <2>3, <2>4, <2>5
<1>2. \A m : m \in Meaning(d) <=> \E p \in DOMAIN d.pieces : m = means(d, p)
  BY DEF Meaning
<1>3. \A m : m \in Meaning(c) <=> \E p \in DOMAIN c.pieces : m = means(c, p)
  BY DEF Meaning
<1>4. \A p : means(c, p).name = p
  OBVIOUS
<1>. HIDE DEF means
<1>5. Meaning(d) \subseteq Meaning(c)
  BY <1>1, <1>2, <1>3
<1>6. ASSUME NEW m \in Meaning(c)
      PROVE  m \in Meaning(d) \/ m.name > d.pieceMark
  <2>1. PICK p \in DOMAIN c.pieces : m = means(c, p)
    BY <1>3, <1>6
  <2>2. CASE p \in DOMAIN d.pieces
    BY <1>1, <1>2, <2>1, <2>2
  <2>3. CASE p \notin DOMAIN d.pieces
    BY <1>4, <2>1, <2>3 DEF Grown
  <2>4. QED
    BY <2>2, <2>3
<1>7. QED
  BY <1>5, <1>6

LEMMA MeaningIsClear ==
    ASSUME NEW d \in Good
    PROVE  /\ \A m \in Meaning(d) : m.name \in Nat /\ m.name <= d.pieceMark
           /\ \A m, n \in Meaning(d) : m.name = n.name => m = n
<1>. DEFINE means(p) == [name |-> p, op |-> d.pieces[p].op, role |-> d.pieces[p].role,
                         kind |-> Owner(d, p).recipe.kind]
<1>1. \A m : m \in Meaning(d) <=> \E p \in DOMAIN d.pieces : m = means(p)
  BY DEF Meaning
<1>2. \A p : means(p).name = p
  OBVIOUS
<1>3. \A p \in DOMAIN d.pieces : p \in Nat /\ p <= d.pieceMark
  BY GoodFields, TableFields DEF PiecesOK
<1>. HIDE DEF means
<1>4. QED
  BY <1>1, <1>2, <1>3

LEMMA MeaningSame ==
    ASSUME NEW d, NEW c, c.operations = d.operations, c.pieces = d.pieces
    PROVE  Meaning(c) = Meaning(d)
<1>1. \A p : Owner(c, p) = Owner(d, p)
  BY DEF Owner, Index
<1>2. QED
  BY <1>1 DEF Meaning

HistorySet == [now : Good, past : Seq(Good), future : Seq(Good)]

\* M knows the names of every sketch that can come back, and gives each one
\* meaning; the marks are past them all.
Knows(h, M) ==
    /\ \A m, n \in M : m.name = n.name => m = n
    /\ \A m \in M : m.name \in Nat /\ m.name <= h.now.pieceMark
    /\ Meaning(h.now) \subseteq M
    /\ \A i \in DOMAIN h.past : Meaning(h.past[i]) \subseteq M
    /\ \A i \in DOMAIN h.future : Meaning(h.future[i]) \subseteq M

LEMMA MoreNames ==
    ASSUME NEW d \in Good, NEW c \in Good, Grown(d, c), NEW M,
           \A m, n \in M : m.name = n.name => m = n,
           \A m \in M : m.name \in Nat /\ m.name <= d.pieceMark,
           Meaning(d) \subseteq M
    PROVE  LET K == M \cup Meaning(c)
           IN  /\ \A m, n \in K : m.name = n.name => m = n
               /\ \A m \in K : m.name \in Nat /\ m.name <= c.pieceMark
<1>. DEFINE K == M \cup Meaning(c)
<1>1. d.pieceMark \in Nat /\ c.pieceMark \in Nat /\ d.pieceMark <= c.pieceMark
  BY GoodFields DEF Grown
<1>2. \A m \in Meaning(c) : m.name \in Nat /\ m.name <= c.pieceMark
  BY MeaningIsClear
<1>3. \A m \in K : m.name \in Nat /\ m.name <= c.pieceMark
  BY <1>1, <1>2
<1>4. \A m \in Meaning(c) : m \in M \/ m.name > d.pieceMark
  BY MeaningGrows
<1>5. ASSUME NEW m \in K, NEW n \in K, m.name = n.name
      PROVE  m = n
  <2>1. CASE m \in M /\ n \in M
    BY <2>1, <1>5
  <2>2. CASE m \in Meaning(c) /\ n \in Meaning(c)
    BY <2>2, <1>5, MeaningIsClear
  <2>3. CASE m \in M /\ n \in Meaning(c) /\ n \notin M
    BY <2>3, <1>1, <1>4, <1>5
  <2>4. CASE n \in M /\ m \in Meaning(c) /\ m \notin M
    BY <2>4, <1>1, <1>4, <1>5
  <2>5. QED
    BY <2>1, <2>2, <2>3, <2>4
<1>6. QED
  BY <1>3, <1>5

LEMMA PushedSeq ==
    ASSUME NEW past \in Seq(Good), NEW d \in Good
    PROVE  /\ Pushed(past, d) \in Seq(Good)
           /\ \A i \in DOMAIN Pushed(past, d) :
                  Pushed(past, d)[i] = d \/ \E j \in DOMAIN past : Pushed(past, d)[i] = past[j]
<1>. DEFINE kept == IF Len(past) = JournalLength THEN Tail(past) ELSE past
<1>1. kept \in Seq(Good) /\ \A i \in DOMAIN kept : \E j \in DOMAIN past : kept[i] = past[j]
  <2>1. CASE Len(past) = JournalLength
    <3>1. past # <<>>
      BY <2>1, JournalAssumption
    <3>2. Tail(past) \in Seq(Good) /\ Len(Tail(past)) = Len(past) - 1
          /\ \A i \in 1..(Len(past) - 1) : Tail(past)[i] = past[i + 1]
      BY <3>1
    <3>3. \A i \in DOMAIN Tail(past) : i + 1 \in DOMAIN past /\ Tail(past)[i] = past[i + 1]
      BY <3>2
    <3>4. QED
      BY <2>1, <3>2, <3>3
  <2>2. CASE Len(past) # JournalLength
    BY <2>2
  <2>3. QED
    BY <2>1, <2>2
<1>2. Pushed(past, d) = Append(kept, d)
  BY DEF Pushed
<1>. HIDE DEF kept
<1>3. /\ Append(kept, d) \in Seq(Good) /\ DOMAIN Append(kept, d) = 1..(Len(kept) + 1)
      /\ DOMAIN kept = 1..Len(kept) /\ Len(kept) \in Nat
      /\ \A i \in 1..Len(kept) : Append(kept, d)[i] = kept[i]
      /\ Append(kept, d)[Len(kept) + 1] = d
  BY <1>1
<1>4. \A i \in 1..(Len(kept) + 1) : i \in 1..Len(kept) \/ i = Len(kept) + 1
  BY <1>3
<1>5. QED
  BY <1>1, <1>2, <1>3, <1>4

\* h comes to g, whose present knows what the present of h knew.
Publishes(h, M, g) ==
    /\ g \in HistorySet /\ Knows(g, M \cup Meaning(g.now))
    /\ Meaning(h.now) \subseteq Meaning(g.now)

LEMMA ConfirmedPublishes ==
    ASSUME NEW h \in HistorySet, NEW M, Knows(h, M), NEW c \in Good, Grown(h.now, c)
    PROVE  Publishes(h, M, Confirmed(h, c))
<1>. DEFINE g == Confirmed(h, c)
            K == M \cup Meaning(g.now)
<1>1. /\ h.now \in Good /\ h.past \in Seq(Good)
  BY DEF HistorySet
<1>2. /\ g.now = Pruned(c) /\ g.past = Pushed(h.past, h.now) /\ g.future = <<>>
      /\ g = [now |-> g.now, past |-> g.past, future |-> g.future]
  BY DEF Confirmed
<1>. HIDE DEF g
<1>3. /\ g.now \in Good /\ Grown(c, g.now) /\ Grown(h.now, g.now)
  BY <1>1, <1>2, PrunedGrows, GrownOn
<1>4. /\ g.past \in Seq(Good)
      /\ \A i \in DOMAIN g.past :
             g.past[i] = h.now \/ \E j \in DOMAIN h.past : g.past[i] = h.past[j]
  BY <1>1, <1>2, PushedSeq
<1>5. g \in HistorySet
  <2>1. g.future \in Seq(Good)
    BY <1>2
  <2>2. QED
    BY <2>1, <1>2, <1>3, <1>4 DEF HistorySet
<1>6. Meaning(h.now) \subseteq M /\ \A j \in DOMAIN h.past : Meaning(h.past[j]) \subseteq M
  BY DEF Knows
<1>7. /\ \A m, n \in K : m.name = n.name => m = n
      /\ \A m \in K : m.name \in Nat /\ m.name <= g.now.pieceMark
  BY <1>1, <1>3, MoreNames DEF Knows
<1>8. \A i \in DOMAIN g.past : Meaning(g.past[i]) \subseteq K
  BY <1>4, <1>6
<1>9. \A i \in DOMAIN g.future : Meaning(g.future[i]) \subseteq K
  BY <1>2
<1>10. Knows(g, K)
  BY <1>7, <1>8, <1>9 DEF Knows
<1>11. Meaning(h.now) \subseteq Meaning(g.now)
  BY <1>1, <1>3, MeaningGrows
<1>12. QED
  BY <1>5, <1>10, <1>11 DEF Publishes, g

LEMMA ReplacingPublishes ==
    ASSUME NEW h \in HistorySet, NEW M, Knows(h, M), NEW c \in Good, Grown(h.now, c)
    PROVE  Publishes(h, M, Replacing(h, c))
<1>. DEFINE g == Replacing(h, c)
            K == M \cup Meaning(g.now)
<1>1. /\ h.now \in Good /\ h.past \in Seq(Good) /\ h.future \in Seq(Good)
      /\ h = [now |-> h.now, past |-> h.past, future |-> h.future]
  BY DEF HistorySet
<1>2. /\ g.now = Pruned(c) /\ g.past = h.past /\ g.future = h.future
      /\ g = [now |-> g.now, past |-> g.past, future |-> g.future]
  BY <1>1 DEF Replacing
<1>. HIDE DEF g
<1>3. /\ g.now \in Good /\ Grown(c, g.now) /\ Grown(h.now, g.now)
  BY <1>1, <1>2, PrunedGrows, GrownOn
<1>4. g \in HistorySet
  BY <1>1, <1>2, <1>3 DEF HistorySet
<1>5. /\ \A m, n \in K : m.name = n.name => m = n
      /\ \A m \in K : m.name \in Nat /\ m.name <= g.now.pieceMark
  BY <1>1, <1>3, MoreNames DEF Knows
<1>6. Knows(g, K)
  BY <1>2, <1>5 DEF Knows
<1>7. Meaning(h.now) \subseteq Meaning(g.now)
  BY <1>1, <1>3, MeaningGrows
<1>8. QED
  BY <1>4, <1>6, <1>7 DEF Publishes, g

LEMMA FrontAndLast ==
    ASSUME NEW s \in Seq(Good), s # <<>>
    PROVE  /\ Last(s) \in Good /\ Len(s) \in DOMAIN s /\ Last(s) = s[Len(s)]
           /\ Front(s) \in Seq(Good)
           /\ \A i \in DOMAIN Front(s) : i \in DOMAIN s /\ Front(s)[i] = s[i]
<1>1. Len(s) \in Nat /\ Len(s) # 0 /\ DOMAIN s = 1..Len(s)
  OBVIOUS
<1>2. Len(s) \in DOMAIN s /\ Last(s) = s[Len(s)] /\ Last(s) \in Good
  BY <1>1 DEF Last
<1>3. Front(s) = SubSeq(s, 1, Len(s) - 1)
  BY DEF Front
<1>4. /\ SubSeq(s, 1, Len(s) - 1) \in Seq(Good)
      /\ Len(SubSeq(s, 1, Len(s) - 1)) = Len(s) - 1
      /\ \A i \in 1..(Len(s) - 1) : SubSeq(s, 1, Len(s) - 1)[i] = s[i]
  BY <1>1
<1>5. \A i \in 1..(Len(s) - 1) : i \in 1..Len(s)
  BY <1>1
<1>6. DOMAIN SubSeq(s, 1, Len(s) - 1) = 1..(Len(s) - 1)
  BY <1>4
<1>7. QED
  BY <1>1, <1>2, <1>3, <1>4, <1>5, <1>6

LEMMA AppendedSeq ==
    ASSUME NEW s \in Seq(Good), NEW d \in Good
    PROVE  /\ Append(s, d) \in Seq(Good)
           /\ \A i \in DOMAIN Append(s, d) :
                  Append(s, d)[i] = d \/ \E j \in DOMAIN s : Append(s, d)[i] = s[j]
<1>1. /\ Append(s, d) \in Seq(Good) /\ DOMAIN Append(s, d) = 1..(Len(s) + 1)
      /\ DOMAIN s = 1..Len(s) /\ Len(s) \in Nat
      /\ \A i \in 1..Len(s) : Append(s, d)[i] = s[i]
      /\ Append(s, d)[Len(s) + 1] = d
  OBVIOUS
<1>2. \A i \in 1..(Len(s) + 1) : i \in 1..Len(s) \/ i = Len(s) + 1
  BY <1>1
<1>3. QED
  BY <1>1, <1>2

\* Undo and redo: d comes back, under the marks of what was shown.
LEMMA ReturnPublishes ==
    ASSUME NEW h \in HistorySet, NEW M, Knows(h, M), NEW d \in Good, Meaning(d) \subseteq M,
           NEW past \in Seq(Good), NEW future \in Seq(Good),
           \A i \in DOMAIN past : Meaning(past[i]) \subseteq M,
           \A i \in DOMAIN future : Meaning(future[i]) \subseteq M
    PROVE  LET g == [now |-> Preserving(d, h.now), past |-> past, future |-> future]
           IN  g \in HistorySet /\ Knows(g, M \cup Meaning(g.now))
<1>. DEFINE now == Preserving(d, h.now)
            g == [now |-> now, past |-> past, future |-> future]
<1>1. h.now \in Good
  BY DEF HistorySet
<1>2. /\ now \in Good /\ Meaning(now) = Meaning(d) /\ h.now.pieceMark <= now.pieceMark
  BY <1>1, PreservingGrows, MeaningSame
<1>3. h.now.pieceMark \in Nat /\ now.pieceMark \in Nat
  BY <1>1, <1>2, GoodFields
<1>. HIDE DEF now
<1>4. g \in HistorySet /\ g.now = now /\ g.past = past /\ g.future = future
  BY <1>2 DEF HistorySet
<1>. HIDE DEF g
<1>5. M \cup Meaning(g.now) = M
  BY <1>2, <1>4
<1>6. \A m \in M : m.name \in Nat /\ m.name <= now.pieceMark
  BY <1>2, <1>3 DEF Knows
<1>7. Knows(g, M)
  BY <1>2, <1>4, <1>6 DEF Knows
<1>8. QED
  BY <1>4, <1>5, <1>7 DEF g, now

LEMMA TakenBackPublishes ==
    ASSUME NEW h \in HistorySet, NEW M, Knows(h, M), h.past # <<>>
    PROVE  TakenBack(h) \in HistorySet /\ Knows(TakenBack(h), M \cup Meaning(TakenBack(h).now))
<1>1. h.now \in Good /\ h.past \in Seq(Good) /\ h.future \in Seq(Good)
  BY DEF HistorySet
<1>2. /\ Meaning(h.now) \subseteq M
      /\ \A i \in DOMAIN h.past : Meaning(h.past[i]) \subseteq M
      /\ \A i \in DOMAIN h.future : Meaning(h.future[i]) \subseteq M
  BY DEF Knows
<1>3. /\ Last(h.past) \in Good /\ Meaning(Last(h.past)) \subseteq M
      /\ Front(h.past) \in Seq(Good)
      /\ \A i \in DOMAIN Front(h.past) : Meaning(Front(h.past)[i]) \subseteq M
  BY <1>1, <1>2, FrontAndLast
<1>4. /\ Append(h.future, h.now) \in Seq(Good)
      /\ \A i \in DOMAIN Append(h.future, h.now) :
             Meaning(Append(h.future, h.now)[i]) \subseteq M
  BY <1>1, <1>2, AppendedSeq
<1>5. QED
  BY <1>3, <1>4, ReturnPublishes DEF TakenBack

LEMMA BroughtBackPublishes ==
    ASSUME NEW h \in HistorySet, NEW M, Knows(h, M), h.future # <<>>
    PROVE  /\ BroughtBack(h) \in HistorySet
           /\ Knows(BroughtBack(h), M \cup Meaning(BroughtBack(h).now))
<1>1. h.now \in Good /\ h.past \in Seq(Good) /\ h.future \in Seq(Good)
  BY DEF HistorySet
<1>2. /\ Meaning(h.now) \subseteq M
      /\ \A i \in DOMAIN h.past : Meaning(h.past[i]) \subseteq M
      /\ \A i \in DOMAIN h.future : Meaning(h.future[i]) \subseteq M
  BY DEF Knows
<1>3. /\ Last(h.future) \in Good /\ Meaning(Last(h.future)) \subseteq M
      /\ Front(h.future) \in Seq(Good)
      /\ \A i \in DOMAIN Front(h.future) : Meaning(Front(h.future)[i]) \subseteq M
  BY <1>1, <1>2, FrontAndLast
<1>4. /\ Pushed(h.past, h.now) \in Seq(Good)
      /\ \A i \in DOMAIN Pushed(h.past, h.now) :
             Meaning(Pushed(h.past, h.now)[i]) \subseteq M
  <2>. DEFINE P == Pushed(h.past, h.now)
  <2>1. /\ P \in Seq(Good)
        /\ \A i \in DOMAIN P : P[i] = h.now \/ \E j \in DOMAIN h.past : P[i] = h.past[j]
    BY <1>1, PushedSeq
  <2>. HIDE DEF P
  <2>2. \A i \in DOMAIN P : Meaning(P[i]) \subseteq M
    BY <1>2, <2>1
  <2>3. QED
    BY <2>1, <2>2 DEF P
<1>5. QED
  BY <1>3, <1>4, ReturnPublishes DEF BroughtBack

-----------------------------------------------------------------------------
(* The edits.                                                              *)

\* What can be at the gate of sketch d, as regards the values that it leaves.
Candidate(kind, d, value, c) ==
    /\ c \in Good /\ Grown(d, c)
    /\ At(d, value) => At(c, value)
    /\ kind # "edit" => \A v \in Counts : At(d, v) => At(c, v)

Gate(edit, d, value) ==
    \/ edit = NoEdit
    \/ \E size \in Counts \cup {0} : edit = [kind |-> "stroke", size |-> size]
    \/ \E kind \in Kinds : \E subject, c :
           /\ Candidate(kind, d, value, c)
           /\ edit = [kind |-> kind, subject |-> subject, expected |-> d.revision,
                      candidate |-> c, base |-> d]

NamesInv ==
    /\ canvas \in HistorySet /\ named \in Counts
    /\ Gate(pending, canvas.now, named)
    /\ Knows(canvas, meant)
    /\ ~stale /\ ~issue => At(canvas.now, named)

LEMMA InvFacts ==
    ASSUME NamesInv
    PROVE  /\ sketch \in Good /\ sketch = canvas.now /\ named \in Nat
           /\ Counts \subseteq Nat
  BY CountsAssumption DEF NamesInv, HistorySet, sketch

LEMMA OffspringCandidate ==
    ASSUME NEW d \in Good, NEW c \in Offspring(d), NEW kind, NEW value
    PROVE  Candidate(kind, d, value, c)
  BY OffspringAt DEF Candidate, Offspring

\* The recipes that the canvas stages.
LEMMA RecipesAreRecipes ==
    /\ \A size \in Nat : Stroke(size) \in RecipeSet
    /\ ProjectedEdge \in RecipeSet
    /\ \A source \in Nat, count \in Nat : Pattern(source, count) \in RecipeSet
    /\ \A target \in Nat, limits \in SUBSET Nat : Trim(target, limits) \in RecipeSet
  BY DEF Stroke, ProjectedEdge, Pattern, Trim, Recipe, RecipeSet

LEMMA AuthoredAreNumbers ==
    ASSUME NEW d \in Good  PROVE Authored(d) \subseteq Nat
  BY GoodFields, TableFields DEF Authored, Curves

LEMMA ClickOffspring ==
    ASSUME NEW d \in Good, NEW target \in Nat
    PROVE  Click(d, target) \subseteq Offspring(d)
<1>1. Authored(d) \ {target} \in SUBSET Nat
  BY AuthoredAreNumbers
<1>2. Trim(target, Authored(d) \ {target}) \in RecipeSet
  BY <1>1, RecipesAreRecipes
<1>3. Staged(d, Trim(target, Authored(d) \ {target})) \subseteq Offspring(d)
  BY <1>2, StagedOffspring
<1>4. QED
  BY <1>3 DEF Click

LEMMA StageKeepsNames ==
    ASSUME NamesInv, NEW kind \in Kinds, NEW subject, NEW candidates,
           \A c \in candidates : Candidate(kind, sketch, named, c),
           Stage(kind, subject, candidates)
    PROVE  NamesInv'
<1>1. PICK c \in candidates : pending' = Gated(kind, subject, c)
  BY DEF Stage
<1>2. UNCHANGED <<canvas, named, stale, issue, meant>>
  BY DEF Stage
<1>3. /\ Candidate(kind, canvas.now, named, c)
      /\ pending' = [kind |-> kind, subject |-> subject, expected |-> canvas.now.revision,
                     candidate |-> c, base |-> canvas.now]
  BY <1>1 DEF Gated, sketch
<1>4. Gate(pending', canvas.now, named)
  BY <1>3 DEF Gate
<1>5. QED
  BY <1>2, <1>4 DEF NamesInv

\* A step that publishes, and leaves the gate empty.
LEMMA ShownKeepsNames ==
    ASSUME NamesInv, NEW g, g \in HistorySet, Knows(g, meant \cup Meaning(g.now)), Shows(g),
           pending' = NoEdit, named' \in Counts, ~stale' /\ ~issue' => At(g.now, named')
    PROVE  NamesInv'
<1>1. canvas' = g /\ meant' = meant \cup Meaning(g.now)
  BY DEF Shows
<1>2. Gate(pending', canvas'.now, named')
  BY DEF Gate
<1>3. QED
  BY <1>1, <1>2 DEF NamesInv

\* Such a step, where only the sketch changes.
LEMMA EditedKeepsNames ==
    ASSUME NamesInv, NEW g, Publishes(canvas, meant, g), Shows(g),
           At(sketch, named) => At(g.now, named),
           pending' = NoEdit, UNCHANGED <<named, stale, issue>>
    PROVE  NamesInv'
<1>1. ~stale' /\ ~issue' => At(g.now, named')
  BY DEF NamesInv, sketch
<1>2. named' \in Counts
  BY DEF NamesInv
<1>3. QED
  BY <1>1, <1>2, ShownKeepsNames DEF Publishes

LEMMA PrunedAt ==
    ASSUME NEW d \in Good, NEW v, At(d, v)  PROVE At(Pruned(d), v)
  BY PrunedGrows DEF At

\* A retyped recipe, and whether it follows the variable.
LEMMA TypedCandidate ==
    ASSUME NEW d \in Good, NEW i \in DOMAIN d.operations, NEW value \in Nat,
           NEW follows, NEW now, follows => value = now,
           NEW c0 \in Replaced(d, d.operations[i].id,
                                [d.operations[i].recipe EXCEPT !.value = value]),
           NEW c, c = [c0 EXCEPT !.links = IF follows THEN @ \cup {d.operations[i].id}
                                                     ELSE @ \ {d.operations[i].id}]
    PROVE  Candidate("edit", d, now, c)
<1>. DEFINE o == d.operations[i].id
            recipe == [d.operations[i].recipe EXCEPT !.value = value]
            links == IF follows THEN c0.links \cup {o} ELSE c0.links \ {o}
<1>1. recipe \in RecipeSet /\ recipe.kind = d.operations[i].recipe.kind /\ recipe.value = value
  <2>1. d.operations[i].recipe \in RecipeSet
    BY GoodFields, OperationFields
  <2>2. QED
    BY <2>1 DEF RecipeSet
<1>. HIDE DEF recipe
<1>2. c0 \in Versions(d, o) /\ c0.operations[i].recipe = recipe
  <2>1. c0 \in Replaced(d, o, recipe)
    BY DEF recipe
  <2>2. QED
    BY <1>1, <2>1, ReplacedVersions
<1>3. /\ c0 \in Good /\ Grown(d, c0) /\ Kept(d, c0, o) /\ c0.links = d.links
      /\ DOMAIN c0.operations = DOMAIN d.operations /\ c0.operations[i].id = o
  BY <1>2, GoodFields DEF Versions, Kept
<1>4. c = [c0 EXCEPT !.links = links]
  OBVIOUS
<1>5. links \subseteq c0.links \cup {c0.operations[i].id}
  BY <1>3
<1>6. /\ c \in Good /\ Grown(c0, c) /\ c.operations = c0.operations /\ c.links = links
  <2>. HIDE DEF links
  <2>1. c = Relinked(c0, links)
    BY <1>4 DEF Relinked
  <2>2. i \in DOMAIN c0.operations
    BY <1>3
  <2>3. c0 \in Good
    BY <1>3
  <2>4. /\ Relinked(c0, links) \in Good /\ Grown(c0, Relinked(c0, links))
        /\ Relinked(c0, links).operations = c0.operations
        /\ Relinked(c0, links).links = links
    BY ONLY <2>2, <2>3, <1>5, RelinkedGrows
  <2>5. QED
    BY <2>1, <2>4
<1>7. Grown(d, c)
  BY <1>3, <1>6, GrownOn
<1>8. ASSUME At(d, now)
      PROVE  At(c, now)
  <2>1. SUFFICES ASSUME NEW j \in DOMAIN d.operations, c0.operations[j].active,
                        c0.operations[j].id \in links
                 PROVE  c0.operations[j].recipe.value = now
    BY <1>3, <1>6 DEF At
  <2>2. c0.operations[j].id = d.operations[j].id
    BY <1>3 DEF Kept
  <2>3. CASE d.operations[j].id = o
    <3>1. j = i
      BY <2>3, GoodFields DEF OperationsOK
    <3>2. follows
      BY <2>1, <2>2, <2>3
    <3>3. QED
      BY <3>1, <3>2, <1>1, <1>2
  <2>4. CASE d.operations[j].id # o
    <3>1. d.operations[j].id \in d.links
      BY <2>1, <2>2, <2>4, <1>3
    <3>2. c0.operations[j].recipe = d.operations[j].recipe /\ d.operations[j].active
      BY <2>1, <2>4, <1>3 DEF Kept
    <3>3. QED
      BY <3>1, <3>2, <1>8 DEF At
  <2>5. QED
    BY <2>3, <2>4
<1>9. QED
  BY <1>6, <1>7, <1>8 DEF Candidate

LEMMA TypedCandidates ==
    ASSUME NamesInv, NEW o \in Sized, NEW value \in Counts, NEW follows,
           follows => value = named
    PROVE  \A c \in Typed(o, value, follows) : Candidate("edit", sketch, named, c)
<1>1. sketch \in Good /\ value \in Nat
  BY InvFacts
<1>2. PICK i \in DOMAIN sketch.operations : o = sketch.operations[i].id
  BY DEF Sized, Active, ToSet
<1>3. Index(sketch, o) = i
  BY <1>1, <1>2, IndexOf
<1>4. \A c \in Typed(o, value, follows) :
          \E c0 \in Replaced(sketch, o, [sketch.operations[i].recipe EXCEPT !.value = value]) :
              c = [c0 EXCEPT !.links = IF follows THEN @ \cup {o} ELSE @ \ {o}]
  BY <1>3 DEF Typed
<1>5. QED
  BY <1>1, <1>2, <1>4, TypedCandidate

LEMMA RetypingKeepsNames ==
    ASSUME NamesInv, NEW o \in Sized, NEW value \in Counts, NEW follows,
           RetypeParameter(o, value, follows)
    PROVE  NamesInv'
<1>1. PICK c \in Typed(o, value, follows) : pending' = Gated("edit", o, c)
  BY DEF RetypeParameter
<1>2. /\ UNCHANGED <<canvas, named, stale, issue, meant>>
      /\ follows => value = named
  BY DEF RetypeParameter
<1>3. Candidate("edit", canvas.now, named, c)
  BY <1>1, <1>2, TypedCandidates DEF sketch
<1>4. pending' = [kind |-> "edit", subject |-> o, expected |-> canvas.now.revision,
                  candidate |-> c, base |-> canvas.now]
  BY <1>1 DEF Gated, sketch
<1>5. Gate(pending', canvas.now, named)
  BY <1>3, <1>4 DEF Gate, Kinds
<1>6. QED
  BY <1>2, <1>5 DEF NamesInv

LEMMA AppendKeepsNames ==
    ASSUME NamesInv, NEW target \in Authored(pending.candidate), AppendTrim(target)
    PROVE  NamesInv'
<1>1. pending.kind \in {"trim", "delete"}
  BY DEF AppendTrim
<1>0. PICK kind \in Kinds : \E subject, c :
        /\ Candidate(kind, canvas.now, named, c)
        /\ pending = [kind |-> kind, subject |-> subject, expected |-> canvas.now.revision,
                      candidate |-> c, base |-> canvas.now]
  BY <1>1 DEF NamesInv, Gate, NoEdit
<1>2. PICK subject, c :
        /\ Candidate(kind, canvas.now, named, c)
        /\ pending = [kind |-> kind, subject |-> subject, expected |-> canvas.now.revision,
                      candidate |-> c, base |-> canvas.now]
  BY <1>0
<1>3. kind # "edit" /\ pending.candidate = c /\ pending.expected = canvas.now.revision
  BY <1>1, <1>2
<1>. DEFINE behind == [c EXCEPT !.revision = canvas.now.revision]
<1>4. canvas.now \in Good /\ canvas.now.revision \in Nat /\ c \in Good
  BY <1>2, GoodFields DEF NamesInv, HistorySet, Candidate
<1>5. behind \in Versions(c, 0) /\ behind.pieces = c.pieces
  BY <1>4, RevisedVersion
<1>6. behind \in Good /\ behind \in Offspring(c)
  BY <1>4, <1>5, VersionsAreOffspring DEF Versions
<1>7. target \in Nat
  BY <1>3, <1>4, AuthoredAreNumbers
<1>8. PICK b \in Click(behind, target) : pending' = [pending EXCEPT !.candidate = b]
  BY <1>3 DEF AppendTrim
<1>. HIDE DEF behind
<1>9. b \in Offspring(c)
  BY <1>4, <1>6, <1>7, <1>8, ClickOffspring, OffspringOn
<1>10. b \in Good /\ Grown(c, b)
  BY <1>9 DEF Offspring
<1>11. Candidate(kind, canvas.now, named, b)
  <2>1. Grown(canvas.now, b)
    BY <1>2, <1>4, <1>10, GrownOn DEF Candidate
  <2>2. \A v : At(c, v) => At(b, v)
    BY <1>4, <1>9, OffspringAt
  <2>3. QED
    BY <2>1, <2>2, <1>2, <1>10 DEF Candidate
<1>12. pending' = [kind |-> kind, subject |-> subject, expected |-> canvas.now.revision,
                   candidate |-> b, base |-> canvas.now]
  BY <1>2, <1>8
<1>13. UNCHANGED <<canvas, named, stale, issue, meant>>
  BY DEF AppendTrim
<1>14. Gate(pending', canvas.now, named)
  BY <1>11, <1>12 DEF Gate
<1>15. QED
  BY <1>13, <1>14 DEF NamesInv

\* A stroke, joined to what it ends on, and linked.
LEMMA JoinedOffspring ==
    ASSUME NEW d \in Good, NEW c \in Offspring(d), c.operations # <<>>,
           NEW expected \in Nat, NEW j \in Joined(c, expected)
    PROVE  j \in Offspring(d) /\ j.operations # <<>>
<1>1. \/ j = c
      \/ \E pair : \E r \in Related(c, pair) : j = [r EXCEPT !.revision = expected + 1]
  BY DEF Joined
<1>2. ASSUME NEW pair, NEW r \in Related(c, pair), j = [r EXCEPT !.revision = expected + 1]
      PROVE  j \in Offspring(d) /\ j.operations # <<>>
  <2>1. c \in Good /\ r \in Offspring(c) /\ r.operations = c.operations
    BY RelatedOffspring DEF Offspring
  <2>2. r \in Good /\ expected + 1 \in Nat
    BY <2>1 DEF Offspring
  <2>3. j \in Versions(r, 0) /\ j.operations = r.operations
    BY <1>2, <2>2, RevisedVersion
  <2>4. j \in Offspring(r)
    BY <2>2, <2>3, VersionsAreOffspring
  <2>5. j \in Offspring(c)
    BY <2>1, <2>4, OffspringOn
  <2>6. QED
    BY <2>1, <2>3, <2>5, OffspringOn
<1>3. QED
  BY <1>1, <1>2

LEMMA LinkedCandidate ==
    ASSUME NEW d \in Good, NEW j \in Offspring(d), j.operations # <<>>, NEW c \in Linked(j)
    PROVE  Candidate("edit", d, named, c)
<1>. DEFINE n == Len(j.operations)
            drawn == Last(j.operations)
            links == j.links \cup {drawn.id}
<1>1. j \in Good /\ Grown(d, j)
  BY DEF Offspring
<1>2. n \in DOMAIN j.operations /\ drawn = j.operations[n]
  <2>1. j.operations \in Seq(OperationSet)
    BY <1>1, GoodFields
  <2>2. QED
    BY <2>1 DEF Last
<1>. HIDE DEF n, drawn
<1>3. c = j \/ (drawn.recipe.value = named /\ c = [j EXCEPT !.links = links])
  BY DEF Linked, drawn
<1>4. CASE c = j
  BY <1>4, OffspringCandidate
<1>5. CASE drawn.recipe.value = named /\ c = [j EXCEPT !.links = links]
  <2>1. /\ c \in Good /\ Grown(j, c) /\ c.operations = j.operations /\ c.links = links
    <3>1. links \subseteq j.links \cup {j.operations[n].id}
      BY <1>2
    <3>. HIDE DEF links
    <3>2. c = Relinked(j, links)
      BY <1>5 DEF Relinked
    <3>3. QED
      BY <3>1, <3>2, <1>1, <1>2, RelinkedGrows
  <2>2. Grown(d, c)
    BY <1>1, <2>1, GrownOn
  <2>3. ASSUME At(d, named)
        PROVE  At(c, named)
    <3>1. At(j, named)
      BY <2>3, OffspringAt
    <3>2. SUFFICES ASSUME NEW i \in DOMAIN j.operations, j.operations[i].active,
                          j.operations[i].id \in links
                   PROVE  j.operations[i].recipe.value = named
      BY <2>1 DEF At
    <3>3. CASE i = n
      BY <3>3, <1>2, <1>5
    <3>4. CASE i # n
      <4>1. j.operations[i].id # drawn.id
        BY <3>4, <1>1, <1>2, GoodFields DEF OperationsOK
      <4>2. QED
        BY <4>1, <3>1, <3>2 DEF At
    <3>5. QED
      BY <3>3, <3>4
  <2>4. QED
    BY <2>1, <2>2, <2>3 DEF Candidate
<1>6. QED
  BY <1>3, <1>4, <1>5

\* What the edit at the gate comes out as.
LEMMA FinishedCandidate ==
    ASSUME NamesInv, pending # NoEdit, NEW c \in Finished
    PROVE  c \in Good /\ Grown(sketch, c) /\ (At(sketch, named) => At(c, named))
<1>1. sketch \in Good /\ sketch.revision \in Nat /\ Counts \subseteq Nat
  BY InvFacts, GoodFields
<1>2. CASE pending.kind = "stroke"
  <2>1. PICK size \in Counts \cup {0} : pending = [kind |-> "stroke", size |-> size]
    BY <1>2 DEF NamesInv, Gate, NoEdit, Kinds
  <2>2. PICK s \in Staged(sketch, Stroke(size)) :
          \E j \in Joined(s, sketch.revision) : c \in Linked(j)
    BY <1>2, <2>1 DEF Finished
  <2>3. s \in Offspring(sketch) /\ s.operations # <<>>
    BY <1>1, RecipesAreRecipes, StagedOffspring
  <2>4. PICK j \in Joined(s, sketch.revision) : c \in Linked(j)
    BY <2>2
  <2>5. j \in Offspring(sketch) /\ j.operations # <<>>
    BY <1>1, <2>3, JoinedOffspring
  <2>6. QED
    BY <1>1, <2>4, <2>5, LinkedCandidate DEF Candidate
<1>3. CASE pending.kind # "stroke"
  <2>0. PICK kind \in Kinds : \E subject, b :
          /\ Candidate(kind, canvas.now, named, b)
          /\ pending = [kind |-> kind, subject |-> subject, expected |-> canvas.now.revision,
                        candidate |-> b, base |-> canvas.now]
    BY <1>3 DEF NamesInv, Gate
  <2>1. PICK subject, b :
          /\ Candidate(kind, canvas.now, named, b)
          /\ pending = [kind |-> kind, subject |-> subject, expected |-> canvas.now.revision,
                        candidate |-> b, base |-> canvas.now]
    BY <2>0
  <2>2. c = b
    BY <1>3, <2>1 DEF Finished
  <2>3. QED
    BY <2>1, <2>2 DEF Candidate, sketch
<1>4. QED
  BY <1>2, <1>3

-----------------------------------------------------------------------------
(* The steps.                                                              *)

LEMMA PublishesItself ==
    ASSUME NEW h \in HistorySet, NEW M, Knows(h, M)  PROVE Publishes(h, M, h)
<1>1. M \cup Meaning(h.now) = M
  BY DEF Knows
<1>2. QED
  BY <1>1 DEF Publishes

LEMMA PublishesOn ==
    ASSUME NEW h, NEW M, NEW e, NEW g, Publishes(h, M, e),
           Publishes(e, M \cup Meaning(e.now), g)
    PROVE  Publishes(h, M, g)
<1>1. (M \cup Meaning(e.now)) \cup Meaning(g.now) = M \cup Meaning(g.now)
  BY DEF Publishes
<1>2. QED
  BY <1>1 DEF Publishes

\* The confirmation of an edit that leaves alone what is linked.
LEMMA OffspringPublishes ==
    ASSUME NEW h \in HistorySet, NEW M, Knows(h, M), NEW c \in Offspring(h.now)
    PROVE  /\ Publishes(h, M, Confirmed(h, c))
           /\ \A v : At(h.now, v) => At(Confirmed(h, c).now, v)
<1>1. h.now \in Good /\ c \in Good /\ Grown(h.now, c)
  BY DEF HistorySet, Offspring
<1>2. Publishes(h, M, Confirmed(h, c))
  BY <1>1, ConfirmedPublishes
<1>3. Confirmed(h, c).now = Pruned(c)
  BY DEF Confirmed
<1>4. \A v : At(h.now, v) => At(c, v)
  BY <1>1, OffspringAt
<1>5. \A v : At(c, v) => At(Pruned(c), v)
  BY <1>1, PrunedAt
<1>6. QED
  BY <1>2, <1>3, <1>4, <1>5

LEMMA ProjectedPublishes ==
    ASSUME NEW h \in HistorySet, NEW M, Knows(h, M), NEW g \in Projected(h)
    PROVE  Publishes(h, M, g) /\ \A v : At(h.now, v) => At(g.now, v)
<1>. DEFINE Pin(e) == ToSet(Last(e.now.operations).made)
<1>1. \/ g = h
      \/ \E c \in Staged(h.now, ProjectedEdge) :
             \E b \in Related(Confirmed(h, c).now, Pin(Confirmed(h, c))) :
                 g = Confirmed(Confirmed(h, c), b)
  BY DEF Projected
<1>. HIDE DEF Pin
<1>2. CASE g = h
  BY <1>2, PublishesItself
<1>3. CASE g # h
  <2>1. PICK c \in Staged(h.now, ProjectedEdge) :
             \E b \in Related(Confirmed(h, c).now, Pin(Confirmed(h, c))) :
                 g = Confirmed(Confirmed(h, c), b)
    BY <1>1, <1>3
  <2>. DEFINE e == Confirmed(h, c)
              K == M \cup Meaning(e.now)
  <2>2. h.now \in Good
    BY DEF HistorySet
  <2>3. c \in Offspring(h.now)
    BY <2>2, RecipesAreRecipes, StagedOffspring
  <2>4. Publishes(h, M, e) /\ \A v : At(h.now, v) => At(e.now, v)
    BY <2>3, OffspringPublishes
  <2>5. PICK b \in Related(e.now, Pin(e)) : g = Confirmed(e, b)
    BY <2>1
  <2>. HIDE DEF e
  <2>6. e \in HistorySet /\ Knows(e, K) /\ e.now \in Good
    BY <2>4 DEF Publishes, HistorySet
  <2>7. b \in Offspring(e.now)
    BY <2>5, <2>6, RelatedOffspring
  <2>. HIDE DEF K
  <2>8. Publishes(e, K, g) /\ \A v : At(e.now, v) => At(g.now, v)
    BY <2>5, <2>6, <2>7, OffspringPublishes
  <2>9. Publishes(h, M, g)
    BY <2>4, <2>8, PublishesOn DEF K
  <2>10. QED
    BY <2>4, <2>8, <2>9
<1>4. QED
  BY <1>2, <1>3

LEMMA FinishedPublishes ==
    ASSUME NamesInv, pending # NoEdit, NEW c \in Finished
    PROVE  /\ Publishes(canvas, meant, Confirmed(canvas, c))
           /\ At(sketch, named) => At(Confirmed(canvas, c).now, named)
<1>1. /\ c \in Good /\ Grown(sketch, c) /\ (At(sketch, named) => At(c, named))
      /\ sketch = canvas.now
  BY FinishedCandidate, InvFacts
<1>2. Publishes(canvas, meant, Confirmed(canvas, c))
  BY <1>1, ConfirmedPublishes DEF NamesInv
<1>3. Confirmed(canvas, c).now = Pruned(c)
  BY DEF Confirmed
<1>4. QED
  BY <1>1, <1>2, <1>3, PrunedAt

LEMMA ConfirmingKeepsNames ==
    ASSUME NamesInv, ConfirmPending  PROVE NamesInv'
<1>1. PICK c \in Finished : Shows(Confirmed(canvas, c))
  BY DEF ConfirmPending
<1>2. /\ Publishes(canvas, meant, Confirmed(canvas, c))
      /\ At(sketch, named) => At(Confirmed(canvas, c).now, named)
  BY FinishedPublishes DEF ConfirmPending
<1>3. QED
  BY <1>1, <1>2, EditedKeepsNames DEF ConfirmPending

LEMMA ProjectingKeepsNames ==
    ASSUME NamesInv, Project  PROVE NamesInv'
<1>1. PICK h \in IF pending = NoEdit THEN {canvas}
                ELSE {Confirmed(canvas, c) : c \in Finished} :
          \E after \in Projected(h) : Shows(after)
  BY DEF Project
<1>2. PICK after \in Projected(h) : Shows(after)
  BY <1>1
<1>3. Publishes(canvas, meant, h) /\ (At(sketch, named) => At(h.now, named))
  <2>1. CASE pending = NoEdit
    BY <2>1, PublishesItself DEF NamesInv, sketch
  <2>2. CASE pending # NoEdit
    BY <2>2, FinishedPublishes
  <2>3. QED
    BY <2>1, <2>2
<1>. DEFINE K == meant \cup Meaning(h.now)
<1>4. h \in HistorySet /\ Knows(h, K)
  BY <1>3 DEF Publishes
<1>. HIDE DEF K
<1>5. Publishes(h, K, after) /\ (At(h.now, named) => At(after.now, named))
  BY <1>4, ProjectedPublishes
<1>6. Publishes(canvas, meant, after)
  BY <1>3, <1>5, PublishesOn DEF K
<1>7. QED
  BY <1>2, <1>3, <1>5, <1>6, EditedKeepsNames DEF Project

LEMMA DraggingKeepsNames ==
    ASSUME NamesInv, NEW op \in Active(sketch), Drag(op.id)  PROVE NamesInv'
<1>1. sketch \in Good /\ sketch = canvas.now
  BY InvFacts
<1>2. PICK i \in DOMAIN sketch.operations : op = sketch.operations[i]
  BY DEF Active, ToSet
<1>. DEFINE recipe == sketch.operations[i].recipe
<1>3. Index(sketch, op.id) = i
  BY <1>1, <1>2, IndexOf
<1>4. PICK c \in Replaced(sketch, op.id, recipe) : Shows(Replacing(canvas, c))
  BY <1>3 DEF Drag
<1>5. recipe \in RecipeSet
  BY <1>1, GoodFields, OperationFields
<1>6. c \in Versions(sketch, sketch.operations[i].id) /\ c.operations[i].recipe = recipe
  BY <1>1, <1>2, <1>4, <1>5, ReplacedVersions
<1>7. c \in Offspring(sketch)
  <2>1. \A j \in DOMAIN sketch.operations :
            sketch.operations[j].id = sketch.operations[i].id => j = i
    BY <1>1, GoodFields DEF OperationsOK
  <2>2. Kept(sketch, c, 0)
    BY <1>6, <2>1 DEF Versions, Kept
  <2>3. QED
    BY <1>6, <2>2 DEF Versions, Offspring
<1>8. c \in Good /\ Grown(canvas.now, c)
  BY <1>1, <1>7 DEF Offspring
<1>9. Publishes(canvas, meant, Replacing(canvas, c))
  BY <1>8, ReplacingPublishes DEF NamesInv
<1>10. Replacing(canvas, c).now = Pruned(c)
  BY DEF Replacing, NamesInv, HistorySet
<1>11. At(sketch, named) => At(Replacing(canvas, c).now, named)
  BY <1>1, <1>7, <1>8, <1>10, OffspringAt, PrunedAt
<1>12. pending' = NoEdit /\ UNCHANGED <<named, stale, issue>>
  BY DEF Drag
<1>13. QED
  BY <1>4, <1>9, <1>11, <1>12, EditedKeepsNames

LEMMA ReturningKeepsNames ==
    ASSUME NamesInv, UndoLocal \/ RedoLocal  PROVE NamesInv'
<1>1. PICK g : /\ Shows(g) /\ g \in HistorySet /\ Knows(g, meant \cup Meaning(g.now))
               /\ stale' = FollowedThen(g.now)
  <2>1. CASE UndoLocal
    BY <2>1, TakenBackPublishes DEF UndoLocal, NamesInv, Shows
  <2>2. CASE RedoLocal
    BY <2>2, BroughtBackPublishes DEF RedoLocal, NamesInv, Shows
  <2>3. QED
    BY <2>1, <2>2
<1>2. ~stale' => At(g.now, named')
  BY <1>1 DEF FollowedThen, At
<1>3. pending' = NoEdit /\ named' \in Counts
  BY DEF UndoLocal, RedoLocal, Settled, NamesInv
<1>4. QED
  BY <1>1, <1>2, <1>3, ShownKeepsNames

LEMMA FollowingKeepsNames ==
    ASSUME NamesInv, NEW value \in Counts, SetNamedValues(value)  PROVE NamesInv'
<1>. DEFINE due == IF value # named THEN sketch.links # {} ELSE stale
<1>1. /\ sketch \in Good /\ sketch = canvas.now /\ value \in Nat
      /\ named' = value /\ UNCHANGED pending
  BY InvFacts DEF SetNamedValues
<1>2. CASE due /\ pending = NoEdit
  <2>1. PICK x \in Followed(sketch, value) :
          /\ Shows(Replacing(canvas, x.now))
          /\ issue' = ~x.done /\ stale' = FALSE
    BY <1>2 DEF SetNamedValues
  <2>2. x \in Results(sketch) /\ (x.done => At(x.now, value))
    BY <1>1, FollowedResults
  <2>3. x.now \in Good /\ Grown(canvas.now, x.now)
    BY <1>1, <2>2 DEF Results
  <2>4. Publishes(canvas, meant, Replacing(canvas, x.now))
    BY <2>3, ReplacingPublishes DEF NamesInv
  <2>5. Replacing(canvas, x.now).now = Pruned(x.now)
    BY DEF Replacing, NamesInv, HistorySet
  <2>6. ~issue' => At(Replacing(canvas, x.now).now, value)
    BY <2>1, <2>2, <2>3, <2>5, PrunedAt
  <2>7. QED
    BY <1>1, <1>2, <2>1, <2>4, <2>6, ShownKeepsNames DEF Publishes
<1>3. CASE ~(due /\ pending = NoEdit)
  <2>1. stale' = due /\ UNCHANGED <<canvas, issue, meant>>
    BY <1>3 DEF SetNamedValues
  <2>2. ~stale' /\ ~issue' => At(canvas.now, value)
    <3>1. CASE value # named
      BY <1>1, <2>1, <3>1 DEF At
    <3>2. CASE value = named
      BY <2>1, <3>2 DEF NamesInv
    <3>3. QED
      BY <3>1, <3>2
  <2>3. Gate(pending, canvas.now, value)
    <3>1. CASE value = named
      BY <3>1 DEF NamesInv
    <3>2. CASE value # named
      <4>1. pending.kind # "edit"
        BY <3>2 DEF SetNamedValues
      <4>2. \A kind, c : Candidate(kind, canvas.now, named, c) /\ kind # "edit" =>
                Candidate(kind, canvas.now, value, c)
        BY DEF Candidate
      <4>3. CASE pending = NoEdit \/ \E size \in Counts \cup {0} :
                     pending = [kind |-> "stroke", size |-> size]
        BY <4>3 DEF Gate
      <4>4. ASSUME NEW kind \in Kinds, NEW subject, NEW c,
                   Candidate(kind, canvas.now, named, c),
                   pending = [kind |-> kind, subject |-> subject,
                              expected |-> canvas.now.revision,
                              candidate |-> c, base |-> canvas.now]
            PROVE  Gate(pending, canvas.now, value)
        <5>1. kind # "edit"
          BY <4>1, <4>4
        <5>2. QED
          BY <5>1, <4>2, <4>4 DEF Gate
      <4>5. QED
        BY <4>3, <4>4 DEF NamesInv, Gate
    <3>3. QED
      BY <3>1, <3>2
  <2>4. QED
    BY <1>1, <2>1, <2>2, <2>3 DEF NamesInv
<1>4. QED
  BY <1>2, <1>3

LEMMA InitNames == SketchInit => NamesInv
<1> SUFFICES ASSUME SketchInit  PROVE NamesInv
  OBVIOUS
<1>. DEFINE T == [p \in {} |-> Drawn(0, 0)]
<1>1. T \in PieceTables /\ DOMAIN T = {}
  <2>1. T \in [{} -> PieceSet]
    OBVIOUS
  <2>2. QED
    BY <2>1, TableOf
<1>2. EmptySketch = [operations |-> <<>>, pieces |-> T, relations |-> {}, links |-> {},
                     operationMark |-> 0, pieceMark |-> 0, revision |-> 0]
  BY DEF EmptySketch
<1>. HIDE DEF T
<1>3. EmptySketch \in SketchSet
  BY <1>1, <1>2 DEF SketchSet
<1>4. EmptySketch \in Good
  BY <1>1, <1>2, <1>3 DEF Good, OperationsOK, PiecesOK, OutputsOK, LinksOK
<1>5. canvas = [now |-> EmptySketch, past |-> <<>>, future |-> <<>>]
  BY DEF SketchInit
<1>6. canvas \in HistorySet /\ canvas.now = EmptySketch /\ canvas.past = <<>>
      /\ canvas.future = <<>>
  BY <1>4, <1>5 DEF HistorySet
<1>7. Meaning(EmptySketch) = {}
  BY <1>1, <1>2 DEF Meaning
<1>8. Knows(canvas, meant)
  BY <1>6, <1>7 DEF Knows, SketchInit
<1>9. At(canvas.now, named)
  BY <1>2, <1>6 DEF At
<1>10. QED
  BY <1>6, <1>8, <1>9 DEF NamesInv, SketchInit, Gate

LEMMA NextKeepsNames == NamesInv /\ [SketchNext]_sketchVars => NamesInv'
<1> SUFFICES ASSUME NamesInv, [SketchNext]_sketchVars
             PROVE  NamesInv'
  OBVIOUS
<1>1. sketch \in Good /\ Counts \subseteq Nat
  BY InvFacts
<1>2. ASSUME NEW size \in Counts \cup {0}, StageStroke(size)  PROVE NamesInv'
  BY <1>2 DEF StageStroke, NamesInv, Gate
<1>3. ASSUME NEW source \in Authored(sketch), NEW count \in Counts,
             StagePattern(source, count)
      PROVE  NamesInv'
  <2>1. Pattern(source, count) \in RecipeSet
    BY <1>1, AuthoredAreNumbers, RecipesAreRecipes
  <2>2. \A c \in Staged(sketch, Pattern(source, count)) : Candidate("new", sketch, named, c)
    BY <1>1, <2>1, StagedOffspring, OffspringCandidate
  <2>3. QED
    BY <1>3, <2>2, StageKeepsNames DEF StagePattern, Kinds
<1>4. ASSUME NEW target \in Authored(sketch), StageTrim(target)  PROVE NamesInv'
  <2>1. \A c \in Click(sketch, target) : Candidate("trim", sketch, named, c)
    BY <1>1, AuthoredAreNumbers, ClickOffspring, OffspringCandidate
  <2>2. QED
    BY <1>4, <2>1, StageKeepsNames DEF StageTrim, Kinds
<1>5. ASSUME NEW target \in Authored(pending.candidate), AppendTrim(target)  PROVE NamesInv'
  BY <1>5, AppendKeepsNames
<1>6. ASSUME NEW relation, StageRelation(relation)  PROVE NamesInv'
  <2>1. \A c \in Related(sketch, relation) : Candidate("relation", sketch, named, c)
    BY <1>1, RelatedOffspring, OffspringCandidate
  <2>2. QED
    BY <1>6, <2>1, StageKeepsNames DEF StageRelation, Kinds
<1>7. ASSUME NEW op \in Active(sketch), StageDelete(op.id)  PROVE NamesInv'
  <2>1. \A c \in Retired(sketch, op.id) : Candidate("delete", sketch, named, c)
    BY <1>1, RetiredVersions, VersionsAreOffspring, OffspringCandidate
  <2>2. QED
    BY <1>7, <2>1, StageKeepsNames DEF StageDelete, Kinds
<1>8. ASSUME NEW op \in Active(sketch), Drag(op.id)  PROVE NamesInv'
  BY <1>8, DraggingKeepsNames
<1>9. ASSUME NEW o \in Sized, NEW value \in Counts, NEW follows,
             StageParameter(o, value, follows)
      PROVE  NamesInv'
  BY <1>9, TypedCandidates, StageKeepsNames DEF StageParameter, Kinds
<1>10. ASSUME NEW o \in Sized, NEW value \in Counts, NEW follows,
              RetypeParameter(o, value, follows)
       PROVE  NamesInv'
  BY <1>10, RetypingKeepsNames
<1>11. CASE ConfirmPending
  BY <1>11, ConfirmingKeepsNames
<1>12. CASE CancelPending
  BY <1>12 DEF CancelPending, NamesInv, Gate
<1>13. CASE Project
  BY <1>13, ProjectingKeepsNames
<1>14. CASE UndoLocal \/ RedoLocal
  BY <1>14, ReturningKeepsNames
<1>15. ASSUME NEW value \in Counts, SetNamedValues(value)  PROVE NamesInv'
  BY <1>15, FollowingKeepsNames
<1>16. CASE UNCHANGED sketchVars
  BY <1>16 DEF sketchVars, NamesInv
<1> QED
  BY <1>2, <1>3, <1>4, <1>5, <1>6, <1>7, <1>8, <1>9, <1>10, <1>11, <1>12, <1>13, <1>14,
     <1>15, <1>16 DEF SketchNext

LEMMA NamesHold == SketchSpec => []NamesInv
  BY InitNames, NextKeepsNames, PTL DEF SketchSpec

LEMMA NamesImply == NamesInv => NamesMeanOneThing
  BY DEF NamesInv, Knows, NamesMeanOneThing

LEMMA FollowingImplies == NamesInv => LinkedValuesFollow
<1> SUFFICES ASSUME NamesInv, ~stale, ~issue, NEW op \in Active(sketch),
                    op.id \in sketch.links
             PROVE  op.recipe.value = named
  BY DEF LinkedValuesFollow
<1>1. At(sketch, named)
  BY DEF NamesInv, sketch
<1>2. PICK i \in DOMAIN sketch.operations : op = sketch.operations[i]
  BY DEF Active, ToSet
<1>3. op.active
  BY DEF Active
<1>4. QED
  BY <1>1, <1>2, <1>3 DEF At

\* A name of a published sketch stands for one thing for ever, whatever is
\* drawn, trimmed, deleted, dragged, followed, undone and redone, for any tools,
\* values, bounds and length of the journal (apply_replacement,
\* preserve_high_water_marks, SketchUndoJournal).
THEOREM NamesAreNeverGivenAway == SketchSpec => []NamesMeanOneThing
  BY NamesHold, NamesImply, PTL

\* An operation linked to the variable is drawn from its present value, unless
\* that is known to be due or to have failed (regenerate_linked_values,
\* set_named_values, undo_local).
THEOREM WhatIsLinkedFollows == SketchSpec => []LinkedValuesFollow
  BY NamesHold, FollowingImplies, PTL

-----------------------------------------------------------------------------
(* Sketches that are valid, and whose takers are marked.                   *)

\* The operation a of d is active and lists p; the operation t of d takes p.
Draws(d, a, p) ==
    a \in DOMAIN d.operations /\ d.operations[a].active /\ p \in ToSet(d.operations[a].made)

Takes(d, t, p) ==
    /\ t \in DOMAIN d.operations /\ d.operations[t].active
    /\ p \in d.operations[t].recipe.takes

\* What an operation takes it reads; what an active one takes is marked as its.
TakesOK(d) ==
    /\ \A i \in DOMAIN d.operations :
           d.operations[i].recipe.takes \subseteq d.operations[i].recipe.reads
    /\ \A t, p : Takes(d, t, p) => d.pieces[p].by = d.operations[t].id

Sound == {d \in Good : Valid(d) /\ TakesOK(d)}

LEMMA DrawnBy ==
    ASSUME NEW d \in Good, NEW a \in DOMAIN d.operations, NEW p \in ToSet(d.operations[a].made)
    PROVE  /\ p \in DOMAIN d.pieces /\ d.pieces[p].op = d.operations[a].id
           /\ Index(d, d.pieces[p].op) = a /\ Owner(d, p) = d.operations[a]
           /\ d.pieces[p].role \in DOMAIN d.operations[a].made
           /\ d.operations[a].made[d.pieces[p].role] = p
<1>1. PICK r \in DOMAIN d.operations[a].made : p = d.operations[a].made[r]
  BY DEF ToSet
<1>2. /\ p \in DOMAIN d.pieces /\ d.pieces[p].op = d.operations[a].id
      /\ d.pieces[p].role = r
  BY <1>1, GoodFields DEF OutputsOK
<1>3. Index(d, d.pieces[p].op) = a
  BY <1>2, IndexOf
<1>4. QED
  BY <1>1, <1>2, <1>3 DEF Owner

\* What the caches of a valid sketch say of an active operation.
LEMMA CachesSay ==
    ASSUME NEW d \in Good, CachesAgree(d), NEW i \in DOMAIN d.operations,
           d.operations[i].active
    PROVE  /\ Len(d.operations[i].made) \in Sizes(d.operations[i].recipe)
           /\ \A p \in ToSet(d.operations[i].made) :
                  d.pieces[p].point /\ (d.pieces[p].curve \/ d.pieces[p].by # 0)
           /\ \A p \in d.operations[i].recipe.reads : \E a \in 1..(i - 1) :
                  Draws(d, a, p) /\ \A b \in a..(i - 1) : ~Takes(d, b, p)
<1>0. i \in 1..Len(d.operations) /\ DOMAIN d.operations = 1..Len(d.operations)
      /\ Len(d.operations) \in Nat
  BY GoodFields
<1>1. i \in {j \in DOMAIN d.operations : d.operations[j].active}
  OBVIOUS
<1>2. /\ Len(d.operations[i].made) \in Sizes(d.operations[i].recipe)
      /\ \A p \in ToSet(d.operations[i].made) :
             d.pieces[p].point /\ (d.pieces[p].curve \/ d.pieces[p].by # 0)
      /\ d.operations[i].recipe.reads \subseteq Standing(d, i)
  BY <1>1 DEF CachesAgree, Evaluable
<1>3. ASSUME NEW p \in d.operations[i].recipe.reads
      PROVE  \E a \in 1..(i - 1) : Draws(d, a, p) /\ \A b \in a..(i - 1) : ~Takes(d, b, p)
  <2>1. p \in Standing(d, i)
    BY <1>2
  <2>2. PICK a \in 1..(i - 1) :
            /\ d.operations[a].active /\ p \in ToSet(d.operations[a].made)
            /\ \A b \in a..(i - 1) :
                   d.operations[b].active => p \notin d.operations[b].recipe.takes
    BY <2>1 DEF Standing
  <2>3. a \in DOMAIN d.operations
    BY <1>0
  <2>4. QED
    BY <2>2, <2>3 DEF Draws, Takes
<1>4. QED
  BY <1>2, <1>3

\* What a mark says.
LEMMA MarksSay ==
    ASSUME NEW d \in Good, Valid(d), NEW p \in DOMAIN d.pieces, d.pieces[p].by # 0
    PROVE  /\ ~d.pieces[p].curve
           /\ \E t \in DOMAIN d.operations :
                  /\ Takes(d, t, p) /\ d.operations[t].id = d.pieces[p].by
                  /\ t > Index(d, d.pieces[p].op)
<1>1. SupersessionStands(d, p)
  BY DEF Valid
<1>2. QED
  BY <1>1 DEF SupersessionStands, Takes

\* What an active operation takes is dark, and comes from before it.
LEMMA TakenIsMarked ==
    ASSUME NEW d \in Sound, NEW t, NEW p, Takes(d, t, p)
    PROVE  /\ p \in DOMAIN d.pieces /\ d.pieces[p].by = d.operations[t].id
           /\ d.operations[t].id # 0 /\ ~d.pieces[p].curve
           /\ Index(d, d.pieces[p].op) \in 1..(t - 1)
           /\ Draws(d, Index(d, d.pieces[p].op), p)
           /\ \A b : Takes(d, b, p) => b = t
<1>0. d \in Good /\ Valid(d) /\ TakesOK(d) /\ CachesAgree(d)
  BY DEF Sound, Valid
<1>1. t \in DOMAIN d.operations /\ p \in d.operations[t].recipe.reads /\ d.operations[t].active
  BY <1>0 DEF TakesOK, Takes
<1>2. PICK a \in 1..(t - 1) : Draws(d, a, p)
  BY <1>0, <1>1, CachesSay
<1>3. p \in DOMAIN d.pieces /\ Index(d, d.pieces[p].op) = a
  BY <1>0, <1>2, DrawnBy DEF Draws
<1>4. d.pieces[p].by = d.operations[t].id
  BY <1>0 DEF TakesOK
<1>5. d.operations[t].id # 0
  BY <1>0, <1>1, GoodFields DEF OperationsOK
<1>6. ~d.pieces[p].curve
  BY <1>0, <1>3, <1>4, <1>5, MarksSay
<1>7. ASSUME NEW b, Takes(d, b, p)
      PROVE  b = t
  <2>1. d.pieces[p].by = d.operations[b].id /\ b \in DOMAIN d.operations
    BY <1>0, <1>7 DEF TakesOK, Takes
  <2>2. QED
    BY <1>0, <1>1, <1>4, <2>1, GoodFields DEF OperationsOK
<1>8. QED
  BY <1>2, <1>3, <1>4, <1>5, <1>6, <1>7

\* Being sound is of the operations, the pieces and the relations.
LEMMA SoundSame ==
    ASSUME NEW d \in Sound, NEW c \in Good, c.operations = d.operations,
           c.pieces = d.pieces, c.relations = d.relations,
           d.operationMark <= c.operationMark, d.pieceMark <= c.pieceMark
    PROVE  c \in Sound
<1>0. d \in Good /\ Valid(d) /\ TakesOK(d)
  BY DEF Sound
<1>1. /\ \A o : Index(c, o) = Index(d, o)
      /\ \A p : Owner(c, p) = Owner(d, p)
      /\ Points(c) = Points(d) /\ Curves(c) = Curves(d)
  BY DEF Index, Owner, Points, Curves
<1>2. \A p : /\ Listed(c, p) <=> Listed(d, p)
             /\ CurveStands(c, p) <=> CurveStands(d, p)
             /\ SupersessionStands(c, p) <=> SupersessionStands(d, p)
  BY <1>1 DEF Listed, CurveStands, SupersessionStands
<1>3. \A relation : RelationStands(c, relation) <=> RelationStands(d, relation)
  BY <1>1 DEF RelationStands
<1>4. MarksStand(c)
  <2>1. /\ \A op \in ToSet(d.operations) : op.id \in Nat
        /\ \A p \in DOMAIN d.pieces : p \in Nat
        /\ d.operationMark \in Nat /\ c.operationMark \in Nat
        /\ d.pieceMark \in Nat /\ c.pieceMark \in Nat
    BY <1>0, GoodFields, OperationFields, TableFields DEF ToSet
  <2>2. MarksStand(d)
    BY <1>0 DEF Valid
  <2>3. QED
    BY <2>1, <2>2 DEF MarksStand
<1>5. CachesAgree(c) <=> CachesAgree(d)
  BY DEF CachesAgree, Standing
<1>6. Valid(c)
  BY <1>0, <1>1, <1>2, <1>3, <1>4, <1>5 DEF Valid
<1>7. TakesOK(c)
  BY <1>0 DEF TakesOK, Takes
<1>8. QED
  BY <1>6, <1>7 DEF Sound

-----------------------------------------------------------------------------
(* What the steps do to the pieces.                                        *)

LEMMA DarkenedIs ==
    ASSUME NEW d \in Good, NEW i \in DOMAIN d.operations
    PROVE  LET op == d.operations[i]
               dark == Darkened(Restored(d, op.id), ToSet(op.made))
           IN  /\ dark \in Good /\ dark \in Versions(d, 0)
               /\ dark.operations = d.operations /\ DOMAIN dark.pieces = DOMAIN d.pieces
               /\ dark.relations = d.relations /\ dark.pieceMark = d.pieceMark
               /\ dark.operationMark = d.operationMark /\ dark.revision = d.revision
               /\ dark.links = d.links
               /\ \A p \in DOMAIN d.pieces :
                      /\ dark.pieces[p].op = d.pieces[p].op
                      /\ dark.pieces[p].role = d.pieces[p].role
                      /\ dark.pieces[p].by =
                             IF d.pieces[p].by = op.id THEN 0 ELSE d.pieces[p].by
                      /\ dark.pieces[p].curve =
                             IF p \in ToSet(op.made) THEN FALSE
                             ELSE IF d.pieces[p].by = op.id THEN Owner(d, p).active
                             ELSE d.pieces[p].curve
                      /\ p \notin ToSet(op.made) =>
                             dark.pieces[p] =
                                 IF d.pieces[p].by = op.id
                                   THEN [d.pieces[p] EXCEPT !.curve = Owner(d, p).active,
                                                            !.by = 0]
                                   ELSE d.pieces[p]
<1>. DEFINE o == d.operations[i].id
            out == ToSet(d.operations[i].made)
            lit(p) == IF d.pieces[p].by = o
                        THEN [d.pieces[p] EXCEPT !.curve = Owner(d, p).active, !.by = 0]
                        ELSE d.pieces[p]
            dim(p) == IF p \in out THEN [lit(p) EXCEPT !.curve = FALSE, !.point = FALSE]
                                   ELSE lit(p)
            mid == Restored(d, o)
            dark == Darkened(mid, out)
<1>1. mid \in Versions(d, 0) /\ mid \in Good /\ mid.operations = d.operations
  BY RestoredPaints DEF Versions
<1>2. mid = [d EXCEPT !.pieces = [p \in DOMAIN d.pieces |-> lit(p)]]
  BY DEF Restored
<1>3. dark \in Versions(mid, 0) /\ dark \in Good /\ dark.operations = d.operations
  <2>. HIDE DEF mid, out
  <2>1. QED
    BY <1>1, DarkenedPaints DEF Versions
<1>4. dark \in Versions(d, 0)
  BY <1>1, <1>3, VersionOn
<1>5. d \in SketchSet
  BY DEF Good
<1>6. ASSUME NEW p \in DOMAIN d.pieces
      PROVE  /\ lit(p) \in PieceSet /\ lit(p).op = d.pieces[p].op
             /\ lit(p).role = d.pieces[p].role
             /\ lit(p).by = IF d.pieces[p].by = o THEN 0 ELSE d.pieces[p].by
             /\ lit(p).curve = IF d.pieces[p].by = o THEN Owner(d, p).active
                                                     ELSE d.pieces[p].curve
  <2>1. d.pieces[p] \in PieceSet
    BY GoodFields, TableFields
  <2>2. Owner(d, p).active \in BOOLEAN
    BY OwnerOf, OperationFields
  <2>. HIDE DEF o
  <2>3. QED
    BY <2>1, <2>2 DEF PieceSet
<1>. HIDE DEF lit
<1>7. /\ mid.pieces = [p \in DOMAIN d.pieces |-> lit(p)]
      /\ mid.relations = d.relations /\ mid.pieceMark = d.pieceMark
      /\ mid.operationMark = d.operationMark /\ mid.revision = d.revision
      /\ mid.links = d.links /\ mid \in SketchSet
  BY <1>1, <1>2, <1>5 DEF SketchSet, Good
<1>. HIDE DEF mid
<1>8. dark = [mid EXCEPT !.pieces = [p \in DOMAIN d.pieces |-> dim(p)]]
  <2>. DEFINE dull(p) == IF p \in out
                           THEN [mid.pieces[p] EXCEPT !.curve = FALSE, !.point = FALSE]
                           ELSE mid.pieces[p]
  <2>. HIDE DEF out
  <2>1. dark = [mid EXCEPT !.pieces = [p \in DOMAIN mid.pieces |-> dull(p)]]
    BY DEF Darkened
  <2>2. DOMAIN mid.pieces = DOMAIN d.pieces
        /\ \A p \in DOMAIN d.pieces : mid.pieces[p] = lit(p)
    BY <1>7
  <2>3. \A p \in DOMAIN d.pieces : dull(p) = dim(p)
    BY <2>2
  <2>. HIDE DEF dull, dim, dark
  <2>4. [p \in DOMAIN mid.pieces |-> dull(p)] = [p \in DOMAIN d.pieces |-> dim(p)]
    BY <2>2, <2>3
  <2>5. QED
    BY <2>1, <2>4
<1>9. ASSUME NEW p \in DOMAIN d.pieces
      PROVE  /\ dim(p).op = d.pieces[p].op /\ dim(p).role = d.pieces[p].role
             /\ dim(p).by = IF d.pieces[p].by = o THEN 0 ELSE d.pieces[p].by
             /\ dim(p).curve = IF p \in out THEN FALSE
                               ELSE IF d.pieces[p].by = o THEN Owner(d, p).active
                               ELSE d.pieces[p].curve
             /\ p \notin out => dim(p) = lit(p)
  <2>. HIDE DEF o, out
  <2>1. QED
    BY <1>6 DEF PieceSet
<1>. HIDE DEF dim
<1>10. /\ dark.pieces = [p \in DOMAIN d.pieces |-> dim(p)]
       /\ dark.relations = d.relations /\ dark.pieceMark = d.pieceMark
       /\ dark.operationMark = d.operationMark /\ dark.revision = d.revision
       /\ dark.links = d.links
  BY <1>7, <1>8 DEF SketchSet
<1>. HIDE DEF dark
<1>11. /\ DOMAIN dark.pieces = DOMAIN d.pieces
       /\ \A p \in DOMAIN d.pieces : dark.pieces[p] = dim(p)
  BY <1>10
<1>12. \A p \in DOMAIN d.pieces :
          /\ dark.pieces[p].op = d.pieces[p].op /\ dark.pieces[p].role = d.pieces[p].role
          /\ dark.pieces[p].by = IF d.pieces[p].by = o THEN 0 ELSE d.pieces[p].by
          /\ dark.pieces[p].curve = IF p \in out THEN FALSE
                                     ELSE IF d.pieces[p].by = o THEN Owner(d, p).active
                                     ELSE d.pieces[p].curve
          /\ p \notin out => dark.pieces[p] = lit(p)
  <2>. HIDE DEF o, out
  <2>1. QED
    BY <1>9, <1>11
<1>13. QED
  BY <1>3, <1>4, <1>10, <1>11, <1>12, Zenon DEF dark, mid, o, out, lit

\* What operation i lists when it is drawn again.
Redraw(d, i, size) ==
    [r \in 1..size |->
        IF r <= Len(d.operations[i].made) THEN d.operations[i].made[r]
        ELSE d.pieceMark + r - Len(d.operations[i].made)]

\* What becomes of piece p.
Redone(d, i, size, p) ==
    LET op == d.operations[i]
        made == Redraw(d, i, size)
        lit == IF p \in ToSet(made) THEN Drawn(op.id, CHOOSE r \in 1..size : made[r] = p)
                                    ELSE d.pieces[p]
    IN  IF p \in op.recipe.takes THEN [lit EXCEPT !.curve = FALSE, !.by = op.id] ELSE lit

LEMMA RedoneIs ==
    ASSUME NEW d \in Good, NEW i \in DOMAIN d.operations, NEW size \in Nat,
           NEW p \in DOMAIN d.pieces \cup ToSet(Redraw(d, i, size))
    PROVE  LET op == d.operations[i]
               made == Redraw(d, i, size)
               new == Redone(d, i, size, p)
           IN  /\ new.by = IF p \in op.recipe.takes THEN op.id
                           ELSE IF p \in ToSet(made) THEN 0 ELSE d.pieces[p].by
               /\ new.curve = IF p \in op.recipe.takes THEN FALSE
                              ELSE IF p \in ToSet(made) THEN TRUE ELSE d.pieces[p].curve
<1>1. p \notin ToSet(Redraw(d, i, size)) => d.pieces[p] \in PieceSet
  BY GoodFields, TableFields
<1>. DEFINE lit == IF p \in ToSet(Redraw(d, i, size))
                     THEN Drawn(d.operations[i].id,
                                CHOOSE r \in 1..size : Redraw(d, i, size)[r] = p)
                     ELSE d.pieces[p]
<1>2. /\ lit.by = IF p \in ToSet(Redraw(d, i, size)) THEN 0 ELSE d.pieces[p].by
      /\ lit.curve = IF p \in ToSet(Redraw(d, i, size)) THEN TRUE ELSE d.pieces[p].curve
      /\ [lit EXCEPT !.curve = FALSE, !.by = d.operations[i].id].by = d.operations[i].id
      /\ [lit EXCEPT !.curve = FALSE, !.by = d.operations[i].id].curve = FALSE
  BY <1>1 DEF Drawn, PieceSet
<1>3. Redone(d, i, size, p) = IF p \in d.operations[i].recipe.takes
                               THEN [lit EXCEPT !.curve = FALSE, !.by = d.operations[i].id]
                               ELSE lit
  BY DEF Redone
<1>. DEFINE taken == [lit EXCEPT !.curve = FALSE, !.by = d.operations[i].id]
            new == Redone(d, i, size, p)
<1>. HIDE DEF lit, taken, new
<1>4. CASE p \in d.operations[i].recipe.takes
  <2>1. new = taken
    BY <1>3, <1>4 DEF taken, new
  <2>2. new.by = d.operations[i].id /\ new.curve = FALSE
    BY <1>2, <2>1 DEF taken
  <2>3. QED
    BY <1>4, <2>2, Zenon DEF new
<1>5. CASE p \notin d.operations[i].recipe.takes
  <2>1. new = lit
    BY <1>3, <1>5 DEF taken, new
  <2>2. QED
    BY <1>2, <1>5, <2>1, Zenon DEF new
<1>6. QED
  BY <1>4, <1>5

\* c is d with operation i drawn again, its outputs not put out before.
RedrawsTo(d, i, size, c) ==
    LET op == d.operations[i]
        made == Redraw(d, i, size)
    IN  /\ c.operations = [d.operations EXCEPT ![i] = [op EXCEPT !.made = made]]
        /\ c.pieces = [p \in DOMAIN d.pieces \cup ToSet(made) |-> Redone(d, i, size, p)]
        /\ c.relations = d.relations /\ c.links = d.links /\ c.revision = d.revision
        /\ c.operationMark = d.operationMark
        /\ c.pieceMark = IF size > Len(op.made) THEN d.pieceMark + size - Len(op.made)
                                                ELSE d.pieceMark

LEMMA RedrawnIs ==
    ASSUME NEW d \in Good, NEW i \in DOMAIN d.operations, NEW size \in Nat
    PROVE  RedrawsTo(d, i, size, Redrawn(d, i, size))
<1>. DEFINE op == d.operations[i]
            made == Redraw(d, i, size)
            takes == op.recipe.takes
            mark == IF size > Len(op.made) THEN d.pieceMark + size - Len(op.made)
                                           ELSE d.pieceMark
            P == DOMAIN d.pieces \cup ToSet(made)
            lit(p) == IF p \in ToSet(made) THEN Drawn(op.id, CHOOSE r \in 1..size : made[r] = p)
                                           ELSE d.pieces[p]
            new(p) == IF p \in takes THEN [lit(p) EXCEPT !.curve = FALSE, !.by = op.id]
                                     ELSE lit(p)
            operations == [d.operations EXCEPT ![i] = [op EXCEPT !.made = made]]
            e == [d EXCEPT !.operations = operations, !.pieces = [p \in P |-> lit(p)],
                           !.pieceMark = mark]
            c == [d EXCEPT !.operations = operations, !.pieces = [p \in P |-> new(p)],
                           !.pieceMark = mark]
<1>1. /\ d \in SketchSet /\ d.operations \in Seq(OperationSet) /\ op \in OperationSet
      /\ d.pieces \in PieceTables
  BY GoodFields DEF Good
<1>2. DOMAIN made = 1..size
  BY DEF Redraw
<1>3. Redrawn(d, i, size) = Consumed(e, op.id, takes)
  <2>1. Lit(d.pieces, op.id, made) = [p \in P |-> lit(p)]
    BY <1>2 DEF Lit
  <2>2. Redrawn(d, i, size) =
          Consumed([d EXCEPT !.operations[i].made = made,
                             !.pieces = Lit(@, op.id, made),
                             !.pieceMark = IF size > Len(op.made) THEN @ + size - Len(op.made)
                                                                  ELSE @],
                   op.id, takes)
    BY DEF Redrawn, Redraw
  <2>. HIDE DEF lit, made, takes
  <2>3. [d EXCEPT !.operations[i].made = made, !.pieces = Lit(@, op.id, made),
                  !.pieceMark = IF size > Len(op.made) THEN @ + size - Len(op.made) ELSE @]
          = e
    BY <2>1
  <2>4. QED
    BY <2>2, <2>3
<1>. HIDE DEF lit, operations, mark, P
<1>4. e.pieces = [p \in P |-> lit(p)]
  BY <1>1 DEF SketchSet
<1>5. Consumed(e, op.id, takes) = c
  <2>1. Consumed(e, op.id, takes) = [e EXCEPT !.pieces = [p \in P |-> new(p)]]
    <3>. DEFINE o == op.id
                had(p) == IF p \in takes THEN [e.pieces[p] EXCEPT !.curve = FALSE, !.by = o]
                                         ELSE e.pieces[p]
    <3>. HIDE DEF e, takes, o
    <3>1. Consumed(e, o, takes) = [e EXCEPT !.pieces = [p \in DOMAIN e.pieces |-> had(p)]]
      BY DEF Consumed
    <3>2. DOMAIN e.pieces = P /\ \A p \in P : e.pieces[p] = lit(p)
      BY <1>4
    <3>3. \A p \in P : had(p) = new(p)
      BY <3>2 DEF o
    <3>. HIDE DEF had, new
    <3>4. [p \in DOMAIN e.pieces |-> had(p)] = [p \in P |-> new(p)]
      BY <3>2, <3>3
    <3>5. QED
      BY <3>1, <3>4 DEF o
  <2>. HIDE DEF new, takes, op
  <2>2. QED
    BY <2>1, <1>1 DEF SketchSet
<1>6. ASSUME NEW p
      PROVE  new(p) = Redone(d, i, size, p)
  BY Zenon DEF Redone, lit
<1>. HIDE DEF new
<1>7. /\ c.operations = operations /\ c.pieces = [p \in P |-> new(p)] /\ c.pieceMark = mark
      /\ c.relations = d.relations /\ c.links = d.links /\ c.revision = d.revision
      /\ c.operationMark = d.operationMark
  BY <1>1 DEF SketchSet
<1>8. [p \in P |-> new(p)] = [p \in P |-> Redone(d, i, size, p)]
  BY <1>6
<1>. HIDE DEF c, e
<1>9. Redrawn(d, i, size) = c
  BY <1>3, <1>5
<1>10. /\ c.operations = operations
       /\ c.pieces = [p \in P |-> Redone(d, i, size, p)]
       /\ c.pieceMark = mark
  BY <1>7, <1>8
<1>11. RedrawsTo(d, i, size, c)
  BY <1>7, <1>10, Zenon DEF RedrawsTo, operations, P, mark
<1>12. QED
  BY <1>9, <1>11

\* What a turn of the replay draws on.
Dark(d, i) == Darkened(Restored(d, d.operations[i].id), ToSet(d.operations[i].made))

\* c is what a turn makes of d, where operation i is active.
DrawnAgain(d, i, size, c) ==
    LET op == d.operations[i]
        made == Redraw(d, i, size)
    IN  /\ c \in Versions(d, 0)
        /\ DOMAIN c.operations = DOMAIN d.operations
        /\ c.operations[i].made = made
        /\ \A j \in DOMAIN d.operations :
               /\ c.operations[j].id = d.operations[j].id
               /\ c.operations[j].recipe = d.operations[j].recipe
               /\ c.operations[j].active = d.operations[j].active
               /\ j # i => c.operations[j] = d.operations[j]
        /\ DOMAIN c.pieces = DOMAIN d.pieces \cup ToSet(made)
        /\ \A p \in DOMAIN c.pieces :
               /\ c.pieces[p] = Redone(Dark(d, i), i, size, p)
               /\ c.pieces[p].by = IF p \in op.recipe.takes THEN op.id
                                   ELSE IF p \in ToSet(made) \/ d.pieces[p].by = op.id THEN 0
                                   ELSE d.pieces[p].by
               /\ c.pieces[p].curve = IF p \in op.recipe.takes THEN FALSE
                                      ELSE IF p \in ToSet(made) THEN TRUE
                                      ELSE IF p \in ToSet(op.made) THEN FALSE
                                      ELSE IF d.pieces[p].by = op.id THEN Owner(d, p).active
                                      ELSE d.pieces[p].curve
        /\ c.relations = d.relations /\ c.links = d.links /\ c.revision = d.revision
        /\ c.operationMark = d.operationMark
        /\ c.pieceMark = IF size > Len(op.made) THEN d.pieceMark + size - Len(op.made)
                                                ELSE d.pieceMark

LEMMA TurnIs ==
    ASSUME NEW d \in Good, NEW i \in DOMAIN d.operations, NEW size \in Nat
    PROVE  DrawnAgain(d, i, size, Redrawn(Dark(d, i), i, size))
<1>. DEFINE op == d.operations[i]
            made == Redraw(d, i, size)
            dark == Dark(d, i)
            c == Redrawn(dark, i, size)
            operations == [d.operations EXCEPT ![i] = [op EXCEPT !.made = made]]
<1>1. /\ dark \in Good /\ dark \in Versions(d, 0)
      /\ dark.operations = d.operations /\ DOMAIN dark.pieces = DOMAIN d.pieces
      /\ dark.relations = d.relations /\ dark.pieceMark = d.pieceMark
      /\ dark.operationMark = d.operationMark /\ dark.revision = d.revision
      /\ dark.links = d.links
  <2>. DEFINE now == Darkened(Restored(d, op.id), ToSet(op.made))
  <2>1. /\ now \in Good /\ now \in Versions(d, 0)
        /\ now.operations = d.operations /\ DOMAIN now.pieces = DOMAIN d.pieces
        /\ now.relations = d.relations /\ now.pieceMark = d.pieceMark
        /\ now.operationMark = d.operationMark /\ now.revision = d.revision
        /\ now.links = d.links
    BY DarkenedIs, Zenon
  <2>2. dark = now
    BY DEF Dark
  <2>. HIDE DEF dark, now
  <2>3. QED
    BY <2>1, <2>2
<1>2. \A p \in DOMAIN d.pieces :
          /\ dark.pieces[p].by = IF d.pieces[p].by = op.id THEN 0 ELSE d.pieces[p].by
          /\ dark.pieces[p].curve = IF p \in ToSet(op.made) THEN FALSE
                                    ELSE IF d.pieces[p].by = op.id THEN Owner(d, p).active
                                    ELSE d.pieces[p].curve
  <2>1. \A p \in DOMAIN d.pieces :
            /\ Darkened(Restored(d, op.id), ToSet(op.made)).pieces[p].by =
                   IF d.pieces[p].by = op.id THEN 0 ELSE d.pieces[p].by
            /\ Darkened(Restored(d, op.id), ToSet(op.made)).pieces[p].curve =
                   IF p \in ToSet(op.made) THEN FALSE
                   ELSE IF d.pieces[p].by = op.id THEN Owner(d, p).active
                   ELSE d.pieces[p].curve
    BY DarkenedIs, Zenon
  <2>2. QED
    BY <2>1, Zenon DEF Dark
<1>. HIDE DEF dark
<1>3. Redraw(dark, i, size) = made
  BY <1>1 DEF Redraw
<1>4. c \in Versions(d, 0)
  BY <1>1, RedrawnVersion, VersionOn
<1>5. /\ c.operations = operations
      /\ c.pieces = [p \in DOMAIN d.pieces \cup ToSet(made) |-> Redone(dark, i, size, p)]
      /\ c.relations = d.relations /\ c.links = d.links /\ c.revision = d.revision
      /\ c.operationMark = d.operationMark
      /\ c.pieceMark = IF size > Len(op.made) THEN d.pieceMark + size - Len(op.made)
                                              ELSE d.pieceMark
  <2>1. dark \in Good /\ i \in DOMAIN dark.operations
    BY <1>1
  <2>2. /\ c.operations = [dark.operations EXCEPT
                              ![i] = [dark.operations[i] EXCEPT
                                         !.made = Redraw(dark, i, size)]]
        /\ c.pieces = [p \in DOMAIN dark.pieces \cup ToSet(Redraw(dark, i, size)) |->
                          Redone(dark, i, size, p)]
        /\ c.relations = dark.relations /\ c.links = dark.links
        /\ c.revision = dark.revision /\ c.operationMark = dark.operationMark
        /\ c.pieceMark = IF size > Len(dark.operations[i].made)
                           THEN dark.pieceMark + size - Len(dark.operations[i].made)
                           ELSE dark.pieceMark
    <3>1. RedrawsTo(dark, i, size, c)
      BY <2>1, RedrawnIs
    <3>. HIDE DEF c
    <3>2. QED
      BY <3>1, Zenon DEF RedrawsTo
  <2>3. dark.operations[i] = op
    BY <1>1
  <2>4. c.operations = operations
    BY <1>1, <1>3, <2>2, <2>3, Zenon
  <2>5. c.pieces = [p \in DOMAIN d.pieces \cup ToSet(made) |-> Redone(dark, i, size, p)]
    BY <1>1, <1>3, <2>2, Zenon
  <2>. HIDE DEF c, op
  <2>6. /\ c.relations = d.relations /\ c.links = d.links /\ c.revision = d.revision
        /\ c.operationMark = d.operationMark
        /\ c.pieceMark = IF size > Len(op.made) THEN d.pieceMark + size - Len(op.made)
                                                ELSE d.pieceMark
    BY <1>1, <2>2, <2>3
  <2>7. QED
    BY <2>4, <2>5, <2>6, Zenon DEF op
<1>. HIDE DEF c
<1>6. /\ DOMAIN operations = DOMAIN d.operations
      /\ operations[i] = [op EXCEPT !.made = made] /\ operations[i].made = made
      /\ \A j \in DOMAIN d.operations :
             /\ operations[j].id = d.operations[j].id
             /\ operations[j].recipe = d.operations[j].recipe
             /\ operations[j].active = d.operations[j].active
             /\ j # i => operations[j] = d.operations[j]
  <2>. HIDE DEF made
  <2>1. op \in OperationSet /\ d.operations \in Seq(OperationSet)
    BY GoodFields
  <2>2. DOMAIN operations = DOMAIN d.operations
        /\ operations[i] = [op EXCEPT !.made = made]
        /\ \A j \in DOMAIN d.operations : j # i => operations[j] = d.operations[j]
    BY <2>1
  <2>3. /\ [op EXCEPT !.made = made].id = op.id /\ [op EXCEPT !.made = made].recipe = op.recipe
        /\ [op EXCEPT !.made = made].active = op.active
        /\ [op EXCEPT !.made = made].made = made
    <3>. HIDE DEF op
    <3>1. QED
      BY <2>1 DEF OperationSet
  <2>4. QED
    BY <2>2, <2>3
<1>. HIDE DEF operations
<1>7. ASSUME NEW p \in DOMAIN c.pieces
      PROVE  /\ c.pieces[p] = Redone(dark, i, size, p)
             /\ c.pieces[p].by =
                    IF p \in op.recipe.takes THEN op.id
                    ELSE IF p \in ToSet(made) \/ d.pieces[p].by = op.id THEN 0
                    ELSE d.pieces[p].by
             /\ c.pieces[p].curve =
                    IF p \in op.recipe.takes THEN FALSE
                    ELSE IF p \in ToSet(made) THEN TRUE
                    ELSE IF p \in ToSet(op.made) THEN FALSE
                    ELSE IF d.pieces[p].by = op.id THEN Owner(d, p).active
                    ELSE d.pieces[p].curve
  <2>. DEFINE new == Redone(dark, i, size, p)
  <2>1. c.pieces[p] = new /\ p \in DOMAIN d.pieces \cup ToSet(made)
    BY <1>5
  <2>2. /\ new.by = IF p \in op.recipe.takes THEN op.id
                    ELSE IF p \in ToSet(made) THEN 0 ELSE dark.pieces[p].by
        /\ new.curve = IF p \in op.recipe.takes THEN FALSE
                       ELSE IF p \in ToSet(made) THEN TRUE ELSE dark.pieces[p].curve
    <3>1. i \in DOMAIN dark.operations /\ dark.operations[i] = op
      BY <1>1
    <3>2. p \in DOMAIN dark.pieces \cup ToSet(Redraw(dark, i, size))
      BY <1>1, <1>3, <2>1
    <3>3. /\ new.by = IF p \in dark.operations[i].recipe.takes THEN dark.operations[i].id
                      ELSE IF p \in ToSet(Redraw(dark, i, size)) THEN 0
                      ELSE dark.pieces[p].by
          /\ new.curve = IF p \in dark.operations[i].recipe.takes THEN FALSE
                         ELSE IF p \in ToSet(Redraw(dark, i, size)) THEN TRUE
                         ELSE dark.pieces[p].curve
      BY <1>1, <3>1, <3>2, RedoneIs, Zenon
    <3>. HIDE DEF new, made, op
    <3>4. QED
      BY <1>3, <3>1, <3>3
  <2>. HIDE DEF new, made
  <2>3. p \in ToSet(made) \/ p \in DOMAIN d.pieces
    BY <2>1
  <2>4. c.pieces[p].by = new.by /\ c.pieces[p].curve = new.curve
    BY <2>1
  <2>. HIDE DEF op
  <2>5. QED
    BY <1>2, <2>1, <2>2, <2>3, <2>4 DEF new
<1>8. DOMAIN c.pieces = DOMAIN d.pieces \cup ToSet(made)
  BY <1>5
<1>9. \A p \in DOMAIN c.pieces :
             /\ c.pieces[p] = Redone(dark, i, size, p)
             /\ c.pieces[p].by =
                    IF p \in op.recipe.takes THEN op.id
                    ELSE IF p \in ToSet(made) \/ d.pieces[p].by = op.id THEN 0
                    ELSE d.pieces[p].by
             /\ c.pieces[p].curve =
                    IF p \in op.recipe.takes THEN FALSE
                    ELSE IF p \in ToSet(made) THEN TRUE
                    ELSE IF p \in ToSet(op.made) THEN FALSE
                    ELSE IF d.pieces[p].by = op.id THEN Owner(d, p).active
                    ELSE d.pieces[p].curve
  <2>. HIDE DEF op, made
  <2>1. QED
    BY <1>7
<1>10. QED
  <2>1. /\ DOMAIN c.operations = DOMAIN d.operations /\ c.operations[i].made = made
        /\ \A j \in DOMAIN d.operations :
               /\ c.operations[j].id = d.operations[j].id
               /\ c.operations[j].recipe = d.operations[j].recipe
               /\ c.operations[j].active = d.operations[j].active
               /\ j # i => c.operations[j] = d.operations[j]
    BY <1>5, <1>6
  <2>2. DrawnAgain(d, i, size, c)
    BY <1>4, <1>5, <1>8, <1>9, <2>1, Zenon DEF DrawnAgain, dark
  <2>3. QED
    BY <2>2 DEF c, dark

\* Piece p with what operation o took given back.
Freed(d, o, p) ==
    IF d.pieces[p].by = o THEN [d.pieces[p] EXCEPT !.curve = Owner(d, p).active, !.by = 0]
                          ELSE d.pieces[p]

\* s is what the replay of operation i of d starts from.
StartsFrom(d, i, recipe, s) ==
    /\ s \in Good
    /\ DOMAIN s.operations = DOMAIN d.operations
    /\ s.operations[i].recipe = recipe
    /\ \A j \in DOMAIN d.operations :
           /\ s.operations[j].id = d.operations[j].id
           /\ s.operations[j].made = d.operations[j].made
           /\ s.operations[j].active = d.operations[j].active
           /\ j # i => s.operations[j] = d.operations[j]
    /\ DOMAIN s.pieces = DOMAIN d.pieces
    /\ \A p \in DOMAIN d.pieces : s.pieces[p] = Freed(d, d.operations[i].id, p)
    /\ s.relations = d.relations /\ s.links = d.links /\ s.revision = d.revision + 1
    /\ s.operationMark = d.operationMark /\ s.pieceMark = d.pieceMark

LEMMA FreedIs ==
    ASSUME NEW d \in Good, NEW o, NEW p \in DOMAIN d.pieces
    PROVE  /\ Freed(d, o, p).by = IF d.pieces[p].by = o THEN 0 ELSE d.pieces[p].by
           /\ Freed(d, o, p).curve = IF d.pieces[p].by = o THEN Owner(d, p).active
                                                           ELSE d.pieces[p].curve
           /\ d.pieces[p].by # o => Freed(d, o, p) = d.pieces[p]
<1>1. d.pieces[p] \in PieceSet
  BY GoodFields, TableFields
<1>2. QED
  BY <1>1 DEF Freed, PieceSet

LEMMA StartIs ==
    ASSUME NEW d \in Good, NEW i \in DOMAIN d.operations, NEW recipe \in RecipeSet,
           recipe.kind = d.operations[i].recipe.kind
    PROVE  StartsFrom(d, i, recipe, Start(d, i, recipe))
<1>. DEFINE o == d.operations[i].id
            new(p) == IF d.pieces[p].by = o
                        THEN [d.pieces[p] EXCEPT !.curve = Owner(d, p).active, !.by = 0]
                        ELSE d.pieces[p]
            lit == Restored(d, o)
            op == [d.operations[i] EXCEPT !.recipe = recipe]
            operations == [d.operations EXCEPT ![i] = op]
            s == Start(d, i, recipe)
<1>1. d \in SketchSet /\ d.operations \in Seq(OperationSet)
      /\ d.operations[i] \in OperationSet
  BY GoodFields DEF Good
<1>2. s \in Good
  BY ReplayStarts DEF Versions
<1>3. lit = [d EXCEPT !.pieces = [p \in DOMAIN d.pieces |-> new(p)]]
  BY DEF Restored
<1>. HIDE DEF new
<1>4. /\ lit.operations = d.operations /\ lit.pieces = [p \in DOMAIN d.pieces |-> new(p)]
      /\ lit.relations = d.relations /\ lit.links = d.links /\ lit.revision = d.revision
      /\ lit.operationMark = d.operationMark /\ lit.pieceMark = d.pieceMark
      /\ lit = [operations |-> lit.operations, pieces |-> lit.pieces,
                relations |-> lit.relations, links |-> lit.links,
                operationMark |-> lit.operationMark, pieceMark |-> lit.pieceMark,
                revision |-> lit.revision]
  BY <1>1, <1>3 DEF SketchSet
<1>. HIDE DEF lit
<1>5. s = [lit EXCEPT !.operations = operations, !.revision = lit.revision + 1]
  <2>1. s = [lit EXCEPT !.operations[i].recipe = recipe, !.revision = @ + 1]
    BY DEF Start, lit
  <2>. HIDE DEF s
  <2>2. QED
    BY <1>4, <2>1
<1>. HIDE DEF s, operations
<1>6. /\ s.operations = operations /\ s.pieces = [p \in DOMAIN d.pieces |-> new(p)]
      /\ s.relations = d.relations /\ s.links = d.links
      /\ s.revision = d.revision + 1
      /\ s.operationMark = d.operationMark /\ s.pieceMark = d.pieceMark
  BY <1>4, <1>5
<1>7. /\ DOMAIN operations = DOMAIN d.operations
      /\ operations[i].recipe = recipe
      /\ \A j \in DOMAIN d.operations :
             /\ operations[j].id = d.operations[j].id
             /\ operations[j].made = d.operations[j].made
             /\ operations[j].active = d.operations[j].active
             /\ j # i => operations[j] = d.operations[j]
  <2>1. op.recipe = recipe /\ op.id = d.operations[i].id /\ op.made = d.operations[i].made
        /\ op.active = d.operations[i].active
    BY <1>1 DEF OperationSet
  <2>. HIDE DEF op
  <2>2. QED
    BY <1>1, <2>1 DEF operations
<1>8. \A p \in DOMAIN d.pieces : s.pieces[p] = Freed(d, o, p)
  <2>1. \A p \in DOMAIN d.pieces : new(p) = Freed(d, o, p)
    BY Zenon DEF new, Freed
  <2>2. QED
    BY <1>6, <2>1
<1>9. DOMAIN s.pieces = DOMAIN d.pieces
  BY <1>6
<1>10. QED
  BY <1>2, <1>6, <1>7, <1>8, <1>9, Zenon DEF s, StartsFrom

\* Up to index x: what an active operation takes is marked as its, or was taken
\* or drawn again since.
TakesTo(d, x) ==
    \A t, p : t < x /\ Takes(d, t, p) =>
        \/ p \notin DOMAIN d.pieces \/ d.pieces[p].by = d.operations[t].id
        \/ \E l \in (t + 1)..(x - 1) : Takes(d, l, p) \/ Draws(d, l, p)

LEMMA TakesStart ==
    ASSUME NEW d \in Sound, NEW i \in DOMAIN d.operations, NEW recipe \in RecipeSet,
           recipe.kind = d.operations[i].recipe.kind
    PROVE  TakesTo(Start(d, i, recipe), i)
<1>. DEFINE s == Start(d, i, recipe)
<1>1. d \in Good /\ TakesOK(d)
  BY DEF Sound
<1>2. /\ DOMAIN s.operations = DOMAIN d.operations
      /\ \A j \in DOMAIN d.operations :
             /\ s.operations[j].id = d.operations[j].id
             /\ j # i => s.operations[j] = d.operations[j]
      /\ DOMAIN s.pieces = DOMAIN d.pieces
      /\ \A p \in DOMAIN d.pieces :
             d.pieces[p].by # d.operations[i].id => s.pieces[p] = d.pieces[p]
  <2>1. StartsFrom(d, i, recipe, s)
    BY <1>1, StartIs
  <2>. HIDE DEF s
  <2>2. QED
    BY <1>1, <2>1, FreedIs DEF StartsFrom
<1>. HIDE DEF s
<1>3. SUFFICES ASSUME NEW t, NEW p, t < i, Takes(s, t, p), p \in DOMAIN s.pieces
               PROVE  s.pieces[p].by = s.operations[t].id
  BY DEF TakesTo, s
<1>4. t \in DOMAIN d.operations /\ t # i /\ i \in Nat
  BY <1>1, <1>2, <1>3, GoodFields DEF Takes
<1>5. Takes(d, t, p)
  BY <1>2, <1>3, <1>4 DEF Takes
<1>6. d.pieces[p].by = d.operations[t].id
  BY <1>1, <1>5 DEF TakesOK
<1>7. d.operations[t].id # d.operations[i].id
  BY <1>1, <1>4, GoodFields DEF OperationsOK
<1>8. QED
  BY <1>2, <1>3, <1>4, <1>6, <1>7

LEMMA TakesTurn ==
    ASSUME NEW d \in Good, NEW i \in DOMAIN d.operations, TakesTo(d, i),
           NEW c \in Replayed(d, i)
    PROVE  TakesTo(c, i + 1)
<1>0. i \in Nat /\ DOMAIN d.operations \subseteq Nat
  BY GoodFields
<1>1. CASE ~d.operations[i].active
  <2>1. c = d
    BY <1>1 DEF Replayed
  <2>2. SUFFICES ASSUME NEW t, NEW p, t < i + 1, Takes(d, t, p)
                 PROVE  \/ p \notin DOMAIN d.pieces \/ d.pieces[p].by = d.operations[t].id
                        \/ \E l \in (t + 1)..((i + 1) - 1) : Takes(d, l, p) \/ Draws(d, l, p)
    BY <2>1 DEF TakesTo
  <2>3. t \in Nat /\ t # i
    BY <1>0, <1>1, <2>2 DEF Takes
  <2>4. t < i /\ (t + 1)..(i - 1) \subseteq (t + 1)..((i + 1) - 1)
    BY <1>0, <2>2, <2>3
  <2>5. QED
    BY <2>2, <2>4 DEF TakesTo
<1>2. CASE d.operations[i].active
  <2>. DEFINE op == d.operations[i]
  <2>1. PICK size \in Sizes(op.recipe) : c = Redrawn(Dark(d, i), i, size)
    BY <1>2 DEF Replayed, Dark
  <2>2. size \in Nat
    BY GoodFields, OperationFields, SizesAreNumbers
  <2>. DEFINE made == Redraw(d, i, size)
  <2>3. /\ DOMAIN c.operations = DOMAIN d.operations
        /\ c.operations[i].made = made
        /\ \A j \in DOMAIN d.operations :
               /\ c.operations[j].id = d.operations[j].id
               /\ c.operations[j].recipe = d.operations[j].recipe
               /\ c.operations[j].active = d.operations[j].active
               /\ j # i => c.operations[j] = d.operations[j]
        /\ DOMAIN c.pieces = DOMAIN d.pieces \cup ToSet(made)
        /\ \A p \in DOMAIN c.pieces :
               c.pieces[p].by = IF p \in op.recipe.takes THEN op.id
                                ELSE IF p \in ToSet(made) \/ d.pieces[p].by = op.id THEN 0
                                ELSE d.pieces[p].by
    <3>1. DrawnAgain(d, i, size, c)
      BY <2>1, <2>2, TurnIs
    <3>2. QED
      BY <3>1, Zenon DEF DrawnAgain
  <2>. HIDE DEF made
  <2>4. SUFFICES ASSUME NEW t, NEW p, t < i + 1, Takes(c, t, p), p \in DOMAIN c.pieces
                 PROVE  \/ c.pieces[p].by = c.operations[t].id
                        \/ \E l \in (t + 1)..((i + 1) - 1) : Takes(c, l, p) \/ Draws(c, l, p)
    BY DEF TakesTo
  <2>5. /\ t \in Nat /\ t \in DOMAIN d.operations /\ Takes(d, t, p)
        /\ c.operations[t].id = d.operations[t].id
        /\ \A l : Takes(d, l, p) => Takes(c, l, p)
        /\ \A l : l # i /\ Draws(d, l, p) => Draws(c, l, p)
    <3>1. t \in DOMAIN d.operations
      BY <2>3, <2>4 DEF Takes
    <3>2. \A l : Takes(d, l, p) <=> Takes(c, l, p)
      BY <2>3 DEF Takes
    <3>3. \A l : l # i /\ Draws(d, l, p) => Draws(c, l, p)
      BY <2>3 DEF Draws
    <3>4. QED
      BY <1>0, <2>3, <2>4, <3>1, <3>2, <3>3
  <2>6. CASE t = i
    <3>1. p \in op.recipe.takes
      BY <2>5, <2>6 DEF Takes
    <3>2. c.pieces[p].by = op.id
      BY <2>3, <2>4, <3>1
    <3>3. QED
      BY <2>5, <2>6, <3>2
  <2>7. CASE t < i /\ p \in op.recipe.takes
    <3>1. Takes(c, i, p)
      BY <1>2, <2>3, <2>7 DEF Takes
    <3>2. i \in (t + 1)..((i + 1) - 1)
      BY <1>0, <2>5, <2>7
    <3>3. QED
      BY <3>1, <3>2
  <2>8. CASE t < i /\ p \in ToSet(made)
    <3>1. Draws(c, i, p)
      BY <1>2, <2>3, <2>8 DEF Draws
    <3>2. i \in (t + 1)..((i + 1) - 1)
      BY <1>0, <2>5, <2>8
    <3>3. QED
      BY <3>1, <3>2
  <2>9. CASE t < i /\ p \notin op.recipe.takes /\ p \notin ToSet(made)
    <3>1. p \in DOMAIN d.pieces
      BY <2>3, <2>4, <2>9
    <3>2. \/ d.pieces[p].by = d.operations[t].id
          \/ \E l \in (t + 1)..(i - 1) : Takes(d, l, p) \/ Draws(d, l, p)
      BY <2>5, <2>9, <3>1 DEF TakesTo
    <3>3. CASE d.pieces[p].by = d.operations[t].id
      <4>1. d.operations[t].id # op.id
        BY <1>0, <2>5, <2>9, GoodFields DEF OperationsOK
      <4>2. c.pieces[p].by = d.pieces[p].by
        BY <2>3, <2>4, <2>9, <3>3, <4>1
      <4>3. QED
        BY <2>5, <3>3, <4>2
    <3>4. CASE \E l \in (t + 1)..(i - 1) : Takes(d, l, p) \/ Draws(d, l, p)
      <4>1. PICK l \in (t + 1)..(i - 1) : Takes(d, l, p) \/ Draws(d, l, p)
        BY <3>4
      <4>2. l # i /\ l \in (t + 1)..((i + 1) - 1)
        BY <1>0, <2>5
      <4>3. QED
        BY <2>5, <4>1, <4>2
    <3>5. QED
      BY <3>2, <3>3, <3>4
  <2>10. t = i \/ t < i
    BY <1>0, <2>4, <2>5
  <2>11. QED
    BY <2>6, <2>7, <2>8, <2>9, <2>10
<1>3. QED
  BY <1>1, <1>2

LEMMA TakesEnd ==
    ASSUME NEW d \in Good, Valid(d), TakesTo(d, Len(d.operations) + 1),
           \A i \in DOMAIN d.operations :
               d.operations[i].recipe.takes \subseteq d.operations[i].recipe.reads
    PROVE  d \in Sound
<1>0. CachesAgree(d) /\ DOMAIN d.operations = 1..Len(d.operations) /\ Len(d.operations) \in Nat
  BY GoodFields DEF Valid
<1>1. ASSUME NEW t, NEW p, Takes(d, t, p)
      PROVE  \E a \in 1..(t - 1) : Draws(d, a, p) /\ \A b \in a..(t - 1) : ~Takes(d, b, p)
  <2>1. t \in DOMAIN d.operations /\ d.operations[t].active
        /\ p \in d.operations[t].recipe.reads
    BY <1>1 DEF Takes
  <2>2. QED
    BY <1>0, <2>1, CachesSay
<1>2. ASSUME NEW t, NEW p, Takes(d, t, p)
      PROVE  d.pieces[p].by = d.operations[t].id
  <2>1. t \in 1..Len(d.operations)
    BY <1>0, <1>2 DEF Takes
  <2>2. PICK a \in 1..(t - 1) : Draws(d, a, p)
    BY <1>1, <1>2
  <2>3. p \in DOMAIN d.pieces /\ \A b : Draws(d, b, p) => b = a
    BY <2>2, DrawnBy DEF Draws
  <2>4. ASSUME NEW l \in (t + 1)..((Len(d.operations) + 1) - 1)
        PROVE  ~Takes(d, l, p) /\ ~Draws(d, l, p)
    <3>1. ~Draws(d, l, p)
      BY <1>0, <2>1, <2>3
    <3>2. ASSUME Takes(d, l, p)
          PROVE  FALSE
      <4>1. PICK b \in 1..(l - 1) : Draws(d, b, p) /\ \A x \in b..(l - 1) : ~Takes(d, x, p)
        BY <1>1, <3>2
      <4>2. b = a
        BY <2>3, <4>1
      <4>3. t \in b..(l - 1)
        BY <1>0, <2>1, <4>2
      <4>4. QED
        BY <1>2, <4>1, <4>3
    <3>3. QED
      BY <3>1, <3>2
  <2>5. t < Len(d.operations) + 1
    BY <1>0, <2>1
  <2>6. QED
    BY <1>2, <2>3, <2>4, <2>5 DEF TakesTo
<1>3. QED
  BY <1>2 DEF Sound, TakesOK

\* Counting the turns of a replay from index i of L.
LEMMA TurnNumbers ==
    ASSUME NEW L \in Nat, NEW i \in 1..L
    PROVE  /\ L - i + 1 \in 0..(L - i + 1) /\ L - i + 1 \in Nat /\ i \in Nat
           /\ i + (L - i + 1) = L + 1 /\ i + 0 = i /\ 0 \in 0..(L - i + 1)
           /\ \A n \in 0..((L - i + 1) - 1) :
                  /\ n + 1 \in 1..(L - i + 1) /\ n + 1 \in 0..(L - i + 1) /\ (n + 1) - 1 = n
                  /\ n \in 0..(L - i + 1) /\ i + (n + 1) - 1 = i + n
                  /\ i + (n + 1) = (i + n) + 1 /\ i + n \in 1..L
  OBVIOUS

LEMMA ReplacedSound ==
    ASSUME NEW d \in Sound, NEW i \in DOMAIN d.operations, NEW recipe \in RecipeSet,
           recipe.kind = d.operations[i].recipe.kind, recipe.takes \subseteq recipe.reads
    PROVE  Replaced(d, d.operations[i].id, recipe) \subseteq Sound
<1>. DEFINE s == Start(d, i, recipe)
            L == Len(d.operations)
            N == L - i + 1
<1>0. d \in Good /\ TakesOK(d)
  BY DEF Sound
<1>1. PICK turns :
          /\ turns[0] = {Start(d, i, recipe)}
          /\ \A n \in 1..N :
                 turns[n] = UNION {Replayed(c, i + n - 1) : c \in turns[n - 1]}
          /\ \A n \in 0..N : turns[n] \subseteq Versions(Start(d, i, recipe), 0)
          /\ Replaced(d, d.operations[i].id, recipe) = Checked(turns[N])
  BY <1>0, ReplacedUnfolds, Zenon
<1>2. StartsFrom(d, i, recipe, s)
  BY <1>0, StartIs
<1>3. TakesTo(s, i)
  BY TakesStart
<1>. HIDE DEF s
<1>4. DOMAIN d.operations = 1..L /\ i \in 1..L /\ L \in Nat
  BY <1>0, GoodFields
<1>5. s \in Good /\ DOMAIN s.operations = DOMAIN d.operations
      /\ Len(s.operations) = L
  <2>1. s \in Good /\ DOMAIN s.operations = DOMAIN d.operations
    BY <1>2 DEF StartsFrom
  <2>2. DOMAIN s.operations = 1..Len(s.operations) /\ Len(s.operations) \in Nat
    BY <2>1, GoodFields
  <2>3. QED
    BY <1>4, <2>1, <2>2
<1>6. \A c \in Versions(s, 0) :
          /\ c \in Good /\ DOMAIN c.operations = DOMAIN d.operations
          /\ Len(c.operations) = Len(d.operations)
          /\ \A j \in DOMAIN d.operations : c.operations[j].recipe = s.operations[j].recipe
  <2>1. TAKE c \in Versions(s, 0)
  <2>2. /\ c \in Good /\ Len(c.operations) = Len(d.operations) /\ Kept(s, c, 0)
    BY <1>5 DEF Versions
  <2>3. DOMAIN c.operations = 1..Len(c.operations)
    BY <2>2, GoodFields
  <2>4. \A j \in DOMAIN s.operations : s.operations[j].id # 0
    BY <1>5, GoodFields DEF OperationsOK
  <2>5. QED
    BY <1>4, <1>5, <2>2, <2>3, <2>4 DEF Kept
<1>7. \A n \in 0..N : turns[n] \subseteq Versions(s, 0)
  BY <1>1, Zenon DEF s
<1>. HIDE DEF L
<1>8. \A n \in 0..N : \A c \in turns[n] : TakesTo(c, i + n)
  <2>. DEFINE G == {n \in 0..N : \A c \in turns[n] : TakesTo(c, i + n)}
  <2>1. 0 \in G
    <3>1. turns[0] = {s} /\ i + 0 = i
      BY <1>1, <1>4, TurnNumbers DEF s
    <3>2. 0 \in 0..N
      BY <1>4, TurnNumbers
    <3>. HIDE DEF N
    <3>3. QED
      BY <1>3, <3>1, <3>2
  <2>2. ASSUME NEW n \in 0..(N - 1), n \in G
        PROVE  n + 1 \in G
    <3>1. n + 1 \in 1..N /\ n + 1 \in 0..N /\ (n + 1) - 1 = n /\ n \in 0..N
          /\ i + (n + 1) - 1 = i + n /\ i + (n + 1) = (i + n) + 1
          /\ i + n \in DOMAIN d.operations
      BY <1>4, TurnNumbers
    <3>2. turns[n + 1] = UNION {Replayed(c, i + n) : c \in turns[n]}
      BY <1>1, <3>1
    <3>3. SUFFICES ASSUME NEW c \in turns[n + 1]  PROVE TakesTo(c, (i + n) + 1)
      BY <3>1
    <3>4. PICK b \in turns[n] : c \in Replayed(b, i + n)
      BY <3>2
    <3>5. b \in Good /\ i + n \in DOMAIN b.operations
      BY <1>6, <1>7, <3>1, <3>4
    <3>6. TakesTo(b, i + n)
      BY <2>2, <3>4
    <3>. HIDE DEF G, N
    <3>7. QED
      BY <3>4, <3>5, <3>6, TakesTurn
  <2>. HIDE DEF G
  <2>3. \A n \in 0..N : n \in G
    <3>1. N \in Nat
      BY <1>4, TurnNumbers
    <3>. HIDE DEF N
    <3>2. QED
      BY <2>1, <2>2, <3>1, PrefixInduction
  <2>4. QED
    BY <2>3 DEF G
<1>9. SUFFICES ASSUME NEW c \in turns[N], Valid(c)  PROVE c \in Sound
  BY <1>1 DEF Checked
<1>10. N \in 0..N /\ i + N = L + 1
  BY <1>4, TurnNumbers
<1>11. c \in Versions(s, 0) /\ TakesTo(c, L + 1)
  BY <1>7, <1>8, <1>9, <1>10
<1>12. \A j \in DOMAIN c.operations :
           c.operations[j].recipe.takes \subseteq c.operations[j].recipe.reads
  <2>1. TAKE j \in DOMAIN c.operations
  <2>2. j \in DOMAIN d.operations /\ c.operations[j].recipe = s.operations[j].recipe
    BY <1>6, <1>11
  <2>3. j # i => s.operations[j] = d.operations[j]
    BY <1>2, <2>2 DEF StartsFrom
  <2>4. s.operations[i].recipe = recipe
    BY <1>2 DEF StartsFrom
  <2>5. d.operations[j].recipe.takes \subseteq d.operations[j].recipe.reads
    BY <1>0, <2>2 DEF TakesOK
  <2>6. QED
    BY <2>2, <2>3, <2>4, <2>5
<1>. HIDE DEF N
<1>13. QED
  BY <1>6, <1>9, <1>11, <1>12, TakesEnd DEF L

LEMMA ConsumedIs ==
    ASSUME NEW d, NEW o, NEW takes
    PROVE  Consumed(d, o, takes) =
               [d EXCEPT !.pieces = [p \in DOMAIN d.pieces |->
                   IF p \in takes THEN [d.pieces[p] EXCEPT !.curve = FALSE, !.by = o]
                                  ELSE d.pieces[p]]]
  BY DEF Consumed

LEMMA AddedIs ==
    ASSUME NEW d \in Good, NEW recipe \in RecipeSet, NEW size \in Nat
    PROVE  LET o == d.operationMark + 1
               c == Added(d, recipe, size)
               n == Len(d.operations)
           IN  /\ DOMAIN c.operations = 1..(n + 1)
               /\ \A j \in 1..n : c.operations[j] = d.operations[j]
               /\ c.operations[n + 1].id = o /\ c.operations[n + 1].recipe = recipe
               /\ \A p \in DOMAIN d.pieces :
                      c.pieces[p].by = IF p \in recipe.takes THEN o ELSE d.pieces[p].by
<1>. DEFINE o == d.operationMark + 1
            made == [r \in 1..size |-> d.pieceMark + r]
            operation == [id |-> o, recipe |-> recipe, made |-> made, active |-> TRUE]
            operations == Append(d.operations, operation)
            T == Lit(d.pieces, o, made)
            mark == d.pieceMark + size
            revision == d.revision + 1
            e == [d EXCEPT !.operations = operations, !.pieces = T,
                           !.operationMark = o, !.pieceMark = mark, !.revision = revision]
            n == Len(d.operations)
            had(p) == IF p \in recipe.takes
                        THEN [e.pieces[p] EXCEPT !.curve = FALSE, !.by = o]
                        ELSE e.pieces[p]
            c == Added(d, recipe, size)
<1>1. /\ d \in SketchSet /\ d.operations \in Seq(OperationSet) /\ n \in Nat
      /\ DOMAIN d.operations = 1..n
      /\ d.pieceMark \in Nat
      /\ \A p \in DOMAIN d.pieces : /\ p \in Nat /\ p <= d.pieceMark
                                    /\ d.pieces[p] \in PieceSet
  BY GoodFields, TableFields DEF Good, PiecesOK
<1>2. c = [e EXCEPT !.pieces = [p \in DOMAIN e.pieces |-> had(p)]]
  <2>1. c = Consumed(e, o, recipe.takes)
    BY DEF Added
  <2>. HIDE DEF c, e, o
  <2>2. Consumed(e, o, recipe.takes) = [e EXCEPT !.pieces = [p \in DOMAIN e.pieces |-> had(p)]]
    BY ConsumedIs, Zenon
  <2>3. QED
    BY <2>1, <2>2, Zenon
<1>3. ASSUME NEW p \in DOMAIN d.pieces
      PROVE  p \in DOMAIN T /\ T[p] = d.pieces[p]
  <2>1. p \in Nat /\ p <= d.pieceMark
    BY <1>1
  <2>2. p \notin ToSet(made)
    BY <1>1, <2>1 DEF ToSet
  <2>. HIDE DEF made, o
  <2>3. QED
    BY <2>2 DEF Lit
<1>. HIDE DEF operations, T, c, o, mark, revision, had
<1>4. e.operations = operations /\ e.pieces = T
  BY <1>1 DEF SketchSet
<1>5. c.operations = operations /\ c.pieces = [p \in DOMAIN T |-> had(p)]
  BY <1>1, <1>2, <1>4 DEF SketchSet
<1>6. /\ DOMAIN operations = 1..(n + 1) /\ operations[n + 1] = operation
      /\ \A j \in 1..n : operations[j] = d.operations[j]
  <2>. HIDE DEF operation
  <2>1. QED
    BY <1>1 DEF operations
<1>7. operation.id = o /\ operation.recipe = recipe
  OBVIOUS
<1>. HIDE DEF e, operation
<1>8. ASSUME NEW p \in DOMAIN d.pieces
      PROVE  c.pieces[p].by = IF p \in recipe.takes THEN o ELSE d.pieces[p].by
  <2>1. c.pieces[p] = had(p) /\ e.pieces[p] = d.pieces[p] /\ d.pieces[p] \in PieceSet
    BY <1>1, <1>3, <1>4, <1>5
  <2>2. QED
    BY <2>1 DEF had, PieceSet
<1>9. QED
  BY <1>5, <1>6, <1>7, <1>8 DEF c, o

LEMMA AddedSound ==
    ASSUME NEW d \in Sound, NEW recipe \in RecipeSet, NEW size \in Nat,
           recipe.reads \subseteq Curves(d), recipe.takes \subseteq recipe.reads,
           Valid(Added(d, recipe, size))
    PROVE  Added(d, recipe, size) \in Sound
<1>. DEFINE c == Added(d, recipe, size)
            n == Len(d.operations)
            o == d.operationMark + 1
<1>0. d \in Good /\ TakesOK(d) /\ n \in Nat /\ DOMAIN d.operations = 1..n
  BY GoodFields DEF Sound
<1>1. c \in Good
  BY <1>0, AddedOffspring DEF Offspring
<1>2. /\ DOMAIN c.operations = 1..(n + 1)
      /\ \A j \in 1..n : c.operations[j] = d.operations[j]
      /\ c.operations[n + 1].id = o /\ c.operations[n + 1].recipe = recipe
      /\ \A p \in DOMAIN d.pieces :
             c.pieces[p].by = IF p \in recipe.takes THEN o ELSE d.pieces[p].by
  BY <1>0, AddedIs
<1>. HIDE DEF c, o
<1>3. \A j \in DOMAIN c.operations : j \in 1..n \/ j = n + 1
  BY <1>0, <1>2
<1>. HIDE DEF n
<1>4. \A j \in DOMAIN c.operations :
          c.operations[j].recipe.takes \subseteq c.operations[j].recipe.reads
  BY <1>0, <1>2, <1>3 DEF TakesOK
<1>5. ASSUME NEW t, NEW p, Takes(c, t, p)
      PROVE  c.pieces[p].by = c.operations[t].id
  <2>1. t \in DOMAIN c.operations /\ p \in c.operations[t].recipe.takes
        /\ c.operations[t].active
    BY <1>5 DEF Takes
  <2>2. CASE t = n + 1
    <3>1. p \in recipe.takes /\ p \in DOMAIN d.pieces
      BY <1>2, <2>1, <2>2 DEF Curves
    <3>2. QED
      BY <1>2, <2>2, <3>1
  <2>3. CASE t \in 1..n
    <3>1. Takes(d, t, p)
      BY <1>0, <1>2, <2>1, <2>3 DEF Takes
    <3>2. p \in DOMAIN d.pieces /\ d.pieces[p].by = d.operations[t].id /\ ~d.pieces[p].curve
      BY <3>1, TakenIsMarked
    <3>3. p \notin recipe.takes
      BY <3>2 DEF Curves
    <3>4. QED
      BY <1>2, <2>3, <3>2, <3>3
  <2>4. QED
    BY <1>3, <2>1, <2>2, <2>3
<1>6. QED
  BY <1>1, <1>4, <1>5 DEF Sound, TakesOK, c

LEMMA StagedSound ==
    ASSUME NEW d \in Sound, NEW recipe \in RecipeSet, recipe.takes \subseteq recipe.reads
    PROVE  Staged(d, recipe) \subseteq Sound
<1>1. SUFFICES ASSUME NEW c \in Staged(d, recipe)  PROVE c \in Sound
  OBVIOUS
<1>2. /\ recipe.reads \subseteq Curves(d)
      /\ \E size \in Sizes(recipe) : c = Added(d, recipe, size) /\ Valid(c)
  BY DEF Staged, Evaluable, Checked
<1>3. \A size \in Sizes(recipe) : size \in Nat
  BY SizesAreNumbers
<1>4. QED
  BY <1>2, <1>3, AddedSound

LEMMA RelatedSound ==
    ASSUME NEW d \in Sound, NEW relation
    PROVE  Related(d, relation) \subseteq Sound
<1>0. d \in Good /\ TakesOK(d) /\ d \in SketchSet
  BY DEF Sound, Good
<1>1. SUFFICES ASSUME NEW c \in Related(d, relation)  PROVE c \in Sound
  OBVIOUS
<1>2. c \in Good
  BY <1>0, RelatedOffspring DEF Offspring
<1>3. c = [d EXCEPT !.relations = @ \cup {relation}, !.revision = @ + 1] /\ Valid(c)
  BY <1>1 DEF Related, Checked
<1>4. c.operations = d.operations /\ c.pieces = d.pieces
  BY <1>0, <1>3 DEF SketchSet
<1>5. TakesOK(c)
  BY <1>0, <1>4 DEF TakesOK, Takes
<1>6. QED
  BY <1>2, <1>3, <1>5 DEF Sound

\* What an active operation takes is in the sketch and marked as its.
TakesIn(d) ==
    \A t, p : Takes(d, t, p) => p \in DOMAIN d.pieces /\ d.pieces[p].by = d.operations[t].id

LEMMA RestoredMarks ==
    ASSUME NEW d \in Good, NEW o
    PROVE  LET c == Restored(d, o)
           IN  /\ c \in Good /\ c.operations = d.operations /\ DOMAIN c.pieces = DOMAIN d.pieces
               /\ \A p \in DOMAIN d.pieces : d.pieces[p].by # o => c.pieces[p] = d.pieces[p]
<1>. DEFINE new(p) == IF d.pieces[p].by = o
                        THEN [d.pieces[p] EXCEPT !.curve = Owner(d, p).active, !.by = 0]
                        ELSE d.pieces[p]
            c == Restored(d, o)
<1>1. c \in Good /\ c.operations = d.operations /\ d \in SketchSet
  BY RestoredPaints DEF Versions, Good
<1>2. c = [d EXCEPT !.pieces = [p \in DOMAIN d.pieces |-> new(p)]]
  BY DEF Restored
<1>. HIDE DEF c
<1>3. \A p \in DOMAIN d.pieces : d.pieces[p].by # o => new(p) = d.pieces[p]
  OBVIOUS
<1>. HIDE DEF new
<1>4. c.pieces = [p \in DOMAIN d.pieces |-> new(p)]
  BY <1>1, <1>2 DEF SketchSet
<1>5. QED
  BY <1>1, <1>3, <1>4 DEF c

LEMMA DarkenedMarks ==
    ASSUME NEW d \in Good, NEW out
    PROVE  LET c == Darkened(d, out)
           IN  /\ c \in Good /\ c.operations = d.operations /\ DOMAIN c.pieces = DOMAIN d.pieces
               /\ \A p \in DOMAIN d.pieces : c.pieces[p].by = d.pieces[p].by
<1>. DEFINE new(p) == IF p \in out THEN [d.pieces[p] EXCEPT !.curve = FALSE, !.point = FALSE]
                                   ELSE d.pieces[p]
            c == Darkened(d, out)
<1>1. c \in Good /\ c.operations = d.operations /\ d \in SketchSet
  BY DarkenedPaints DEF Versions, Good
<1>2. c = [d EXCEPT !.pieces = [p \in DOMAIN d.pieces |-> new(p)]]
  BY DEF Darkened
<1>. HIDE DEF c
<1>3. \A p \in DOMAIN d.pieces : new(p).by = d.pieces[p].by
  <2>1. \A p \in DOMAIN d.pieces : d.pieces[p] \in PieceSet
    BY GoodFields, TableFields
  <2>2. QED
    BY <2>1 DEF PieceSet
<1>. HIDE DEF new
<1>4. c.pieces = [p \in DOMAIN d.pieces |-> new(p)]
  BY <1>1, <1>2 DEF SketchSet
<1>5. QED
  BY <1>1, <1>3, <1>4 DEF c

LEMMA WithoutTakes ==
    ASSUME NEW d \in Good, TakesIn(d), NEW i \in DOMAIN d.operations
    PROVE  TakesIn(Without(d, d.operations[i].id))
<1>. DEFINE o == d.operations[i].id
            lit == Restored(d, o)
            op == [lit.operations[i] EXCEPT !.active = FALSE]
            off == [lit EXCEPT !.operations[i].active = FALSE]
            out == ToSet(d.operations[i].made)
            c == Without(d, o)
<1>1. c = Darkened(off, out)
  BY IndexOf DEF Without
<1>2. /\ lit \in Good /\ lit.operations = d.operations /\ DOMAIN lit.pieces = DOMAIN d.pieces
      /\ \A p \in DOMAIN d.pieces : d.pieces[p].by # o => lit.pieces[p] = d.pieces[p]
  BY RestoredMarks
<1>. HIDE DEF lit, out, c
<1>3. /\ lit \in SketchSet /\ lit.operations[i] \in OperationSet /\ lit.revision \in Nat
      /\ i \in DOMAIN lit.operations /\ d.operations \in Seq(OperationSet)
  BY <1>2, GoodFields DEF Good
<1>4. /\ op \in OperationSet /\ op.id = lit.operations[i].id /\ op.active = FALSE
      /\ op.made = lit.operations[i].made /\ op.recipe = lit.operations[i].recipe
  BY <1>3 DEF OperationSet
<1>5. off = Rewritten(lit, i, op, lit.revision)
  BY <1>3 DEF Rewritten, SketchSet
<1>. HIDE DEF op, off
<1>6. off \in Good
  <2>1. op.recipe.kind = lit.operations[i].recipe.kind /\ (op.active => lit.operations[i].active)
    BY <1>4
  <2>2. off \in Versions(lit, 0)
    BY <2>1, <1>2, <1>3, <1>4, <1>5, ChangedOperation
  <2>3. QED
    BY <2>2 DEF Versions
<1>7. off.operations = [lit.operations EXCEPT ![i] = op] /\ off.pieces = lit.pieces
  BY <1>3, <1>5 DEF Rewritten, SketchSet
<1>8. /\ c.operations = off.operations /\ DOMAIN c.pieces = DOMAIN off.pieces
      /\ \A p \in DOMAIN off.pieces : c.pieces[p].by = off.pieces[p].by
  BY <1>1, <1>6, DarkenedMarks
<1>9. SUFFICES ASSUME NEW t, NEW p, Takes(c, t, p)
               PROVE  p \in DOMAIN c.pieces /\ c.pieces[p].by = c.operations[t].id
  BY DEF TakesIn, c
<1>10. t \in DOMAIN d.operations /\ t # i /\ c.operations[t] = d.operations[t]
  BY <1>2, <1>3, <1>4, <1>7, <1>8, <1>9 DEF Takes
<1>11. Takes(d, t, p)
  BY <1>9, <1>10 DEF Takes
<1>12. p \in DOMAIN d.pieces /\ d.pieces[p].by = d.operations[t].id
  BY <1>11 DEF TakesIn
<1>13. d.pieces[p].by # o
  BY <1>10, <1>12, GoodFields DEF OperationsOK
<1>14. QED
  BY <1>2, <1>7, <1>8, <1>10, <1>12, <1>13

LEMMA RetiredSound ==
    ASSUME NEW d \in Sound, NEW o
    PROVE  Retired(d, o) \subseteq Sound
<1>. DEFINE N == Len(d.operations)
<1>0. d \in Good /\ TakesOK(d) /\ N \in Nat /\ DOMAIN d.operations = 1..N
  BY GoodFields DEF Sound
<1>1. PICK rest :
        /\ rest[0] = d
        /\ \A n \in 1..N :
               rest[n] = IF d.operations[n].id \in Dependents(d, o)
                           THEN Without(rest[n - 1], d.operations[n].id)
                           ELSE rest[n - 1]
        /\ \A n \in 0..N : rest[n] \in Versions(d, 0)
        /\ Retired(d, o) = Checked({[rest[N] EXCEPT !.revision = @ + 1]})
  BY <1>0, RetiredUnfolds, Zenon
<1>. HIDE DEF N
<1>2. TakesIn(d)
  BY TakenIsMarked DEF TakesIn
<1>3. \A n \in 0..N : TakesIn(rest[n])
  <2>. DEFINE G == {n \in 0..N : TakesIn(rest[n])}
  <2>1. 0 \in G
    BY <1>0, <1>1, <1>2
  <2>2. ASSUME NEW n \in 0..(N - 1), n \in G
        PROVE  n + 1 \in G
    <3>1. n + 1 \in 1..N /\ (n + 1) - 1 = n /\ n \in 0..N /\ n + 1 \in 0..N
          /\ TakesIn(rest[n])
      BY <1>0, <2>2
    <3>2. CASE d.operations[n + 1].id \in Dependents(d, o)
      <4>1. rest[n + 1] = Without(rest[n], d.operations[n + 1].id)
        BY <1>1, <3>1, <3>2
      <4>2. rest[n] \in Good /\ n + 1 \in DOMAIN rest[n].operations
            /\ rest[n].operations[n + 1].id = d.operations[n + 1].id
        BY <1>0, <1>1, <3>1, GoodFields DEF Versions, Kept, N
      <4>3. TakesIn(Without(rest[n], rest[n].operations[n + 1].id))
        BY <3>1, <4>2, WithoutTakes
      <4>4. QED
        BY <3>1, <4>1, <4>2, <4>3
    <3>3. CASE d.operations[n + 1].id \notin Dependents(d, o)
      BY <1>1, <3>1, <3>3
    <3>4. QED
      BY <3>2, <3>3
  <2>. HIDE DEF G
  <2>3. \A n \in 0..N : n \in G
    BY <1>0, <2>1, <2>2, PrefixInduction
  <2>4. QED
    BY <2>3 DEF G
<1>. DEFINE b == rest[N]
            c == [b EXCEPT !.revision = @ + 1]
<1>4. N \in 0..N
  BY <1>0
<1>5. b \in Versions(d, 0) /\ TakesIn(b)
  BY <1>1, <1>3, <1>4
<1>6. Retired(d, o) = Checked({c})
  BY <1>1
<1>. HIDE DEF b
<1>7. /\ c \in Good /\ c.operations = b.operations /\ c.pieces = b.pieces
  <2>1. b \in Good /\ b.revision + 1 \in Nat
    BY <1>5, GoodFields DEF Versions
  <2>. DEFINE e == [b EXCEPT !.revision = b.revision + 1]
  <2>2. e \in Versions(b, 0) /\ e.operations = b.operations /\ e.pieces = b.pieces
    BY <2>1, RevisedVersion
  <2>3. c = e
    OBVIOUS
  <2>. HIDE DEF c, e
  <2>4. QED
    BY <2>2, <2>3 DEF Versions
<1>. HIDE DEF c
<1>8. TakesOK(c)
  <2>1. \A j \in DOMAIN b.operations :
            j \in DOMAIN d.operations /\ b.operations[j].recipe = d.operations[j].recipe
    <3>1. b \in Good /\ Len(b.operations) = Len(d.operations) /\ Kept(d, b, 0)
      BY <1>5 DEF Versions
    <3>2. \A j \in DOMAIN d.operations : d.operations[j].id # 0
      BY <1>0, GoodFields DEF OperationsOK
    <3>3. DOMAIN b.operations = DOMAIN d.operations
      BY <1>0, <3>1, GoodFields
    <3>4. QED
      BY <3>1, <3>2, <3>3 DEF Kept
  <2>2. \A j \in DOMAIN c.operations :
            c.operations[j].recipe.takes \subseteq c.operations[j].recipe.reads
    BY <1>0, <1>7, <2>1 DEF TakesOK
  <2>3. \A t, p : Takes(c, t, p) => c.pieces[p].by = c.operations[t].id
    BY <1>5, <1>7 DEF TakesIn, Takes
  <2>4. QED
    BY <2>2, <2>3 DEF TakesOK
<1>9. QED
  BY <1>6, <1>7, <1>8 DEF Checked, Sound

LEMMA RevisedSound ==
    ASSUME NEW d \in Sound, NEW revision \in Nat
    PROVE  [d EXCEPT !.revision = revision] \in Sound
<1>. DEFINE c == [d EXCEPT !.revision = revision]
<1>1. d \in Good /\ d \in SketchSet
  BY DEF Sound, Good
<1>2. c \in Good
  BY <1>1, RevisedVersion DEF Versions
<1>3. /\ c.operations = d.operations /\ c.pieces = d.pieces /\ c.relations = d.relations
      /\ c.operationMark = d.operationMark /\ c.pieceMark = d.pieceMark
  BY <1>1 DEF SketchSet
<1>4. d.operationMark \in Nat /\ d.pieceMark \in Nat
  BY <1>1, GoodFields
<1>. HIDE DEF c
<1>5. c \in Sound
  BY <1>2, <1>3, <1>4, SoundSame
<1>6. QED
  BY <1>5 DEF c

LEMMA PrunedSound ==
    ASSUME NEW d \in Sound  PROVE Pruned(d) \in Sound
<1>. DEFINE c == Pruned(d)
<1>1. d \in Good /\ d \in SketchSet
  BY DEF Sound, Good
<1>2. c \in Good
  BY <1>1, PrunedGrows
<1>3. /\ c.operations = d.operations /\ c.pieces = d.pieces /\ c.relations = d.relations
      /\ c.operationMark = d.operationMark /\ c.pieceMark = d.pieceMark
  BY <1>1 DEF SketchSet, Pruned
<1>4. d.operationMark \in Nat /\ d.pieceMark \in Nat
  BY <1>1, GoodFields
<1>. HIDE DEF c
<1>5. c \in Sound
  BY <1>2, <1>3, <1>4, SoundSame
<1>6. QED
  BY <1>5 DEF c

LEMMA RelinkedSound ==
    ASSUME NEW d \in Sound, NEW i \in DOMAIN d.operations, NEW links,
           links \subseteq d.links \cup {d.operations[i].id}
    PROVE  Relinked(d, links) \in Sound
<1>. DEFINE c == Relinked(d, links)
<1>1. d \in Good /\ d \in SketchSet
  BY DEF Sound, Good
<1>2. c \in Good
  BY <1>1, RelinkedGrows
<1>3. /\ c.operations = d.operations /\ c.pieces = d.pieces /\ c.relations = d.relations
      /\ c.operationMark = d.operationMark /\ c.pieceMark = d.pieceMark
  BY <1>1 DEF SketchSet, Relinked
<1>4. d.operationMark \in Nat /\ d.pieceMark \in Nat
  BY <1>1, GoodFields
<1>. HIDE DEF c
<1>5. c \in Sound
  BY <1>2, <1>3, <1>4, SoundSame
<1>6. QED
  BY <1>5 DEF c

LEMMA PreservingSound ==
    ASSUME NEW d \in Sound, NEW marks \in Good
    PROVE  Preserving(d, marks) \in Sound
<1>. DEFINE c == Preserving(d, marks)
<1>1. d \in Good /\ d \in SketchSet
  BY DEF Sound, Good
<1>2. c \in Good /\ d.operationMark <= c.operationMark /\ d.pieceMark <= c.pieceMark
  BY <1>1, PreservingGrows DEF Grown
<1>3. c.operations = d.operations /\ c.pieces = d.pieces /\ c.relations = d.relations
  BY <1>1 DEF SketchSet, Preserving
<1>. HIDE DEF c
<1>4. c \in Sound
  BY <1>2, <1>3, SoundSame
<1>5. QED
  BY <1>4 DEF c

\* A replay with a parameter that says something else.
LEMMA RevaluedSound ==
    ASSUME NEW d \in Sound, NEW i \in DOMAIN d.operations, NEW value \in Nat
    PROVE  LET recipe == [d.operations[i].recipe EXCEPT !.value = value]
           IN  Replaced(d, d.operations[i].id, recipe) \subseteq Sound
<1>. DEFINE recipe == [d.operations[i].recipe EXCEPT !.value = value]
<1>1. d \in Good /\ TakesOK(d)
  BY DEF Sound
<1>2. d.operations[i].recipe \in RecipeSet
  BY <1>1, GoodFields, OperationFields
<1>3. /\ recipe \in RecipeSet /\ recipe.kind = d.operations[i].recipe.kind
      /\ recipe.reads = d.operations[i].recipe.reads
      /\ recipe.takes = d.operations[i].recipe.takes
  BY <1>2 DEF RecipeSet
<1>4. d.operations[i].recipe.takes \subseteq d.operations[i].recipe.reads
  BY <1>1 DEF TakesOK
<1>. HIDE DEF recipe
<1>5. Replaced(d, d.operations[i].id, recipe) \subseteq Sound
  BY <1>3, <1>4, ReplacedSound
<1>6. QED
  BY <1>5 DEF recipe

LEMMA RedoneSound ==
    ASSUME NEW d \in Sound, NEW i \in DOMAIN d.operations
    PROVE  Replaced(d, d.operations[i].id, d.operations[i].recipe) \subseteq Sound
<1>1. d \in Good /\ TakesOK(d)
  BY DEF Sound
<1>2. d.operations[i].recipe \in RecipeSet
  BY <1>1, GoodFields, OperationFields
<1>3. d.operations[i].recipe.takes \subseteq d.operations[i].recipe.reads
  BY <1>1 DEF TakesOK
<1>4. QED
  BY <1>2, <1>3, ReplacedSound

\* The recipes of the canvas take only what they read.
LEMMA ClickSound ==
    ASSUME NEW d \in Sound, NEW target \in Nat
    PROVE  Click(d, target) \subseteq Sound
<1>1. Authored(d) \ {target} \in SUBSET Nat
  BY AuthoredAreNumbers DEF Sound
<1>. DEFINE recipe == Trim(target, Authored(d) \ {target})
<1>2. recipe \in RecipeSet /\ recipe.takes \subseteq recipe.reads
  BY <1>1, RecipesAreRecipes DEF Trim, Recipe
<1>. HIDE DEF recipe
<1>3. Staged(d, recipe) \subseteq Sound
  BY <1>2, StagedSound
<1>4. QED
  BY <1>3 DEF Click, recipe

LEMMA JoinedSound ==
    ASSUME NEW c \in Sound, NEW expected \in Nat, NEW j \in Joined(c, expected)
    PROVE  j \in Sound
<1>1. \/ j = c
      \/ \E pair : \E r \in Related(c, pair) : j = [r EXCEPT !.revision = expected + 1]
  BY DEF Joined
<1>2. ASSUME NEW pair, NEW r \in Related(c, pair), j = [r EXCEPT !.revision = expected + 1]
      PROVE  j \in Sound
  <2>1. r \in Sound /\ expected + 1 \in Nat
    BY RelatedSound
  <2>2. QED
    BY <1>2, <2>1, RevisedSound
<1>3. QED
  BY <1>1, <1>2

LEMMA LinkedSound ==
    ASSUME NEW j \in Sound, j.operations # <<>>, NEW c \in Linked(j)
    PROVE  c \in Sound
<1>. DEFINE n == Len(j.operations)
            drawn == Last(j.operations)
            links == j.links \cup {drawn.id}
<1>1. n \in DOMAIN j.operations /\ drawn = j.operations[n]
  <2>1. j.operations \in Seq(OperationSet)
    BY GoodFields DEF Sound
  <2>2. QED
    BY <2>1 DEF Last
<1>2. c = j \/ c = [j EXCEPT !.links = links]
  BY DEF Linked
<1>. HIDE DEF n, drawn
<1>3. links \subseteq j.links \cup {j.operations[n].id}
  BY <1>1
<1>. HIDE DEF links
<1>4. Relinked(j, links) \in Sound
  BY <1>1, <1>3, RelinkedSound
<1>5. QED
  BY <1>2, <1>4 DEF Relinked

LEMMA AgainSound ==
    ASSUME NEW d \in Sound, NEW x \in Results(d), x.now \in Sound,
           NEW n \in DOMAIN d.operations, NEW value \in Nat,
           NEW y \in Again(d, x, d.operations[n].id, value)
    PROVE  y.now \in Sound
<1>. DEFINE o == d.operations[n].id
            now == x.now
            recipe == [now.operations[n].recipe EXCEPT !.value = value]
            again == Replaced(now, o, recipe)
<1>1. d \in Good /\ now \in Good /\ Grown(d, now)
      /\ Len(now.operations) = Len(d.operations)
  BY DEF Results, Sound
<1>. HIDE DEF now
<1>2. n \in DOMAIN now.operations /\ now.operations[n].id = o
  BY <1>1, GoodFields DEF Grown
<1>3. Index(now, o) = n
  BY <1>1, <1>2, IndexOf
<1>4. \/ y = x \/ y = [done |-> FALSE, now |-> d]
      \/ \E c \in again : y = [done |-> TRUE, now |-> Pruned(c)]
  BY <1>3 DEF Again, now
<1>5. again \subseteq Sound
  BY <1>2, RevaluedSound DEF now
<1>. HIDE DEF again
<1>6. QED
  BY <1>4, <1>5, PrunedSound

LEMMA FollowedSound ==
    ASSUME NEW d \in Sound, NEW value \in Nat, NEW x \in Followed(d, value)
    PROVE  x.now \in Sound
<1>. DEFINE N == Len(d.operations)
            Fine == {y \in Results(d) : y.now \in Sound}
<1>0. d \in Good /\ N \in Nat /\ DOMAIN d.operations = 1..N
  BY GoodFields DEF Sound
<1>1. PICK turns :
        /\ turns[0] = {[done |-> TRUE, now |-> d]}
        /\ \A n \in 1..N :
               turns[n] =
                 IF d.operations[n].id \in d.links
                   THEN UNION {Again(d, y, d.operations[n].id, value) : y \in turns[n - 1]}
                   ELSE turns[n - 1]
        /\ \A n \in 0..N : turns[n] \subseteq Results(d)
        /\ Followed(d, value) = turns[N]
  BY <1>0, FollowedUnfolds, Zenon
<1>. HIDE DEF N
<1>2. \A n \in 0..N : turns[n] \subseteq Fine
  <2>. DEFINE G == {n \in 0..N : turns[n] \subseteq Fine}
  <2>1. 0 \in G
    BY <1>0, <1>1
  <2>2. ASSUME NEW n \in 0..(N - 1), n \in G
        PROVE  n + 1 \in G
    <3>1. n + 1 \in 1..N /\ (n + 1) - 1 = n /\ n + 1 \in 0..N /\ turns[n] \subseteq Fine
      BY <1>0, <2>2
    <3>2. turns[n + 1] \subseteq Results(d)
      BY <1>1, <3>1
    <3>3. SUFFICES ASSUME NEW y \in turns[n + 1]  PROVE y.now \in Sound
      BY <3>1, <3>2
    <3>. DEFINE o == d.operations[n + 1].id
    <3>a. turns[n + 1] = IF o \in d.links
                           THEN UNION {Again(d, z, o, value) : z \in turns[n]}
                           ELSE turns[n]
      BY <1>1, <3>1, Zenon
    <3>4. y \in turns[n] \/ \E z \in turns[n] : y \in Again(d, z, o, value)
      <4>. HIDE DEF o
      <4>1. CASE o \in d.links
        <5>. DEFINE U == UNION {Again(d, z, o, value) : z \in turns[n]}
        <5>1. turns[n + 1] = U
          BY <3>a, <4>1, Zenon
        <5>2. y \in U
          <6>. HIDE DEF U
          <6>1. QED
            BY <5>1
        <5>3. QED
          BY <5>2
      <4>2. CASE o \notin d.links
        BY <3>a, <3>3, <4>2, Zenon
      <4>3. QED
        BY <4>1, <4>2
    <3>5. QED
      BY <1>0, <3>1, <3>4, AgainSound
  <2>. HIDE DEF G
  <2>3. \A n \in 0..N : n \in G
    BY <1>0, <2>1, <2>2, PrefixInduction
  <2>4. QED
    BY <2>3 DEF G
<1>3. N \in 0..N
  BY <1>0
<1>4. QED
  BY <1>1, <1>2, <1>3

-----------------------------------------------------------------------------
(* Every sketch that is held is sound.                                     *)

Sounds(h) ==
    /\ h.now \in Sound
    /\ \A i \in DOMAIN h.past : h.past[i] \in Sound
    /\ \A i \in DOMAIN h.future : h.future[i] \in Sound

SoundInv ==
    /\ NamesInv
    /\ Sounds(canvas)
    /\ pending.kind \in Kinds => pending.candidate \in Sound

LEMMA EmptySound == EmptySketch \in Good => EmptySketch \in Sound
<1>1. SUFFICES ASSUME EmptySketch \in Good  PROVE EmptySketch \in Sound
  OBVIOUS
<1>2. /\ EmptySketch.operations = <<>> /\ DOMAIN EmptySketch.pieces = {}
      /\ EmptySketch.relations = {}
  BY DEF EmptySketch
<1>3. DOMAIN EmptySketch.operations = {} /\ ToSet(EmptySketch.operations) = {}
  BY <1>2 DEF ToSet
<1>4. TakesOK(EmptySketch)
  BY <1>3 DEF TakesOK, Takes
<1>5. Points(EmptySketch) = {} /\ Curves(EmptySketch) = {}
  BY <1>2 DEF Points, Curves
<1>6. MarksStand(EmptySketch) /\ CachesAgree(EmptySketch)
  BY <1>2, <1>3 DEF MarksStand, CachesAgree
<1>7. Valid(EmptySketch)
  BY <1>2, <1>5, <1>6 DEF Valid
<1>8. QED
  BY <1>1, <1>4, <1>7 DEF Sound

LEMMA ConfirmedSounds ==
    ASSUME NEW h \in HistorySet, Sounds(h), NEW c \in Sound
    PROVE  Sounds(Confirmed(h, c))
<1>. DEFINE g == Confirmed(h, c)
<1>1. h.now \in Good /\ h.past \in Seq(Good)
  BY DEF HistorySet
<1>2. g.now = Pruned(c) /\ g.past = Pushed(h.past, h.now) /\ g.future = <<>>
  BY DEF Confirmed
<1>. HIDE DEF g
<1>3. \A i \in DOMAIN g.past :
          g.past[i] = h.now \/ \E j \in DOMAIN h.past : g.past[i] = h.past[j]
  BY <1>1, <1>2, PushedSeq
<1>4. Pruned(c) \in Sound
  BY PrunedSound
<1>5. Sounds(g)
  BY <1>2, <1>3, <1>4 DEF Sounds
<1>6. QED
  BY <1>5 DEF g

LEMMA ReplacingSounds ==
    ASSUME NEW h \in HistorySet, Sounds(h), NEW c \in Sound
    PROVE  Sounds(Replacing(h, c))
<1>. DEFINE g == Replacing(h, c)
<1>1. g.now = Pruned(c) /\ g.past = h.past /\ g.future = h.future
  BY DEF HistorySet, Replacing
<1>2. Pruned(c) \in Sound
  BY PrunedSound
<1>. HIDE DEF g
<1>3. Sounds(g)
  BY <1>1, <1>2 DEF Sounds
<1>4. QED
  BY <1>3 DEF g

LEMMA TakenBackSounds ==
    ASSUME NEW h \in HistorySet, Sounds(h), h.past # <<>>
    PROVE  Sounds(TakenBack(h))
<1>. DEFINE g == TakenBack(h)
<1>1. h.now \in Good /\ h.past \in Seq(Good) /\ h.future \in Seq(Good)
  BY DEF HistorySet
<1>2. /\ g.now = Preserving(Last(h.past), h.now) /\ g.past = Front(h.past)
      /\ g.future = Append(h.future, h.now)
  BY DEF TakenBack
<1>. HIDE DEF g
<1>3. /\ Last(h.past) \in Sound
      /\ \A i \in DOMAIN Front(h.past) : Front(h.past)[i] \in Sound
  BY <1>1, FrontAndLast DEF Sounds
<1>4. \A i \in DOMAIN g.future :
          g.future[i] = h.now \/ \E j \in DOMAIN h.future : g.future[i] = h.future[j]
  BY <1>1, <1>2, AppendedSeq
<1>5. Preserving(Last(h.past), h.now) \in Sound
  BY <1>1, <1>3, PreservingSound
<1>6. Sounds(g)
  BY <1>2, <1>3, <1>4, <1>5 DEF Sounds
<1>7. QED
  BY <1>6 DEF g

LEMMA BroughtBackSounds ==
    ASSUME NEW h \in HistorySet, Sounds(h), h.future # <<>>
    PROVE  Sounds(BroughtBack(h))
<1>. DEFINE g == BroughtBack(h)
<1>1. h.now \in Good /\ h.past \in Seq(Good) /\ h.future \in Seq(Good)
  BY DEF HistorySet
<1>2. /\ g.now = Preserving(Last(h.future), h.now) /\ g.future = Front(h.future)
      /\ g.past = Pushed(h.past, h.now)
  BY DEF BroughtBack
<1>. HIDE DEF g
<1>3. /\ Last(h.future) \in Sound
      /\ \A i \in DOMAIN Front(h.future) : Front(h.future)[i] \in Sound
  BY <1>1, FrontAndLast DEF Sounds
<1>4. \A i \in DOMAIN g.past :
          g.past[i] = h.now \/ \E j \in DOMAIN h.past : g.past[i] = h.past[j]
  <2>. DEFINE P == Pushed(h.past, h.now)
  <2>1. \A i \in DOMAIN P : P[i] = h.now \/ \E j \in DOMAIN h.past : P[i] = h.past[j]
    BY <1>1, PushedSeq
  <2>2. g.past = P
    BY <1>2
  <2>. HIDE DEF P
  <2>3. QED
    BY <2>1, <2>2
<1>5. Preserving(Last(h.future), h.now) \in Sound
  BY <1>1, <1>3, PreservingSound
<1>6. Sounds(g)
  BY <1>2, <1>3, <1>4, <1>5 DEF Sounds
<1>7. QED
  BY <1>6 DEF g

\* A retyped recipe, and whether it follows the variable.
LEMMA TypedSound ==
    ASSUME SoundInv, NEW o \in Sized, NEW value \in Counts, NEW follows
    PROVE  Typed(o, value, follows) \subseteq Sound
<1>1. sketch \in Good /\ value \in Nat /\ sketch \in Sound
  BY InvFacts DEF SoundInv, Sounds
<1>2. PICK i \in DOMAIN sketch.operations : o = sketch.operations[i].id
  BY DEF Sized, Active, ToSet
<1>3. Index(sketch, o) = i
  BY <1>1, <1>2, IndexOf
<1>. DEFINE recipe == [sketch.operations[i].recipe EXCEPT !.value = value]
            links(c0) == IF follows THEN c0.links \cup {o} ELSE c0.links \ {o}
<1>4. \A c \in Typed(o, value, follows) :
          \E c0 \in Replaced(sketch, o, recipe) : c = [c0 EXCEPT !.links = links(c0)]
  BY <1>3 DEF Typed
<1>5. recipe \in RecipeSet /\ recipe.kind = sketch.operations[i].recipe.kind
  <2>1. sketch.operations[i].recipe \in RecipeSet
    BY <1>1, <1>2, GoodFields, OperationFields
  <2>2. QED
    BY <1>1, <2>1 DEF RecipeSet
<1>6. Replaced(sketch, o, recipe) \subseteq Sound
  BY <1>1, <1>2, RevaluedSound
<1>. HIDE DEF recipe
<1>7. ASSUME NEW c0 \in Replaced(sketch, o, recipe)
      PROVE  [c0 EXCEPT !.links = links(c0)] \in Sound
  <2>1. c0 \in Versions(sketch, sketch.operations[i].id) /\ c0 \in Sound
    BY <1>1, <1>2, <1>5, <1>6, <1>7, ReplacedVersions
  <2>2. i \in DOMAIN c0.operations /\ c0.operations[i].id = o
    BY <1>1, <1>2, <2>1, GoodFields DEF Versions, Grown
  <2>3. links(c0) \subseteq c0.links \cup {c0.operations[i].id}
    BY <2>2
  <2>4. Relinked(c0, links(c0)) \in Sound
    BY <2>1, <2>2, <2>3, RelinkedSound
  <2>5. QED
    BY <2>4 DEF Relinked
<1>8. QED
  BY <1>4, <1>7

\* What the edit at the gate comes out as.
LEMMA FinishedSound ==
    ASSUME SoundInv, pending # NoEdit
    PROVE  Finished \subseteq Sound
<1>0. SUFFICES ASSUME NEW c \in Finished  PROVE c \in Sound
  OBVIOUS
<1>1. /\ sketch \in Good /\ sketch \in Sound /\ sketch.revision \in Nat
      /\ Counts \subseteq Nat /\ NamesInv
  BY InvFacts, GoodFields DEF SoundInv, Sounds
<1>2. CASE pending.kind = "stroke"
  <2>1. PICK size \in Counts \cup {0} : pending = [kind |-> "stroke", size |-> size]
    BY <1>1, <1>2 DEF NamesInv, Gate, NoEdit, Kinds
  <2>2. PICK s \in Staged(sketch, Stroke(size)) :
          \E j \in Joined(s, sketch.revision) : c \in Linked(j)
    BY <1>2, <2>1 DEF Finished
  <2>3. Stroke(size) \in RecipeSet /\ Stroke(size).takes \subseteq Stroke(size).reads
    BY <1>1, RecipesAreRecipes DEF Stroke, Recipe
  <2>4. s \in Offspring(sketch) /\ s.operations # <<>> /\ s \in Sound
    BY <1>1, <2>3, StagedOffspring, StagedSound
  <2>5. PICK j \in Joined(s, sketch.revision) : c \in Linked(j)
    BY <2>2
  <2>6. j \in Sound /\ j.operations # <<>>
    BY <1>1, <2>4, JoinedOffspring, JoinedSound
  <2>7. QED
    BY <2>5, <2>6, LinkedSound
<1>3. CASE pending.kind # "stroke"
  <2>1. pending.kind \in Kinds
    <3>1. \/ \E size \in Counts \cup {0} : pending = [kind |-> "stroke", size |-> size]
          \/ \E kind \in Kinds : pending.kind = kind
      BY <1>1 DEF NamesInv, Gate
    <3>2. QED
      BY <1>3, <3>1
  <2>2. c = pending.candidate
    BY <1>3 DEF Finished
  <2>3. QED
    BY <2>1, <2>2 DEF SoundInv
<1>4. QED
  BY <1>2, <1>3

LEMMA ProjectedSounds ==
    ASSUME NEW h \in HistorySet, Sounds(h), NEW M, Knows(h, M), NEW g \in Projected(h)
    PROVE  Sounds(g)
<1>. DEFINE Pin(e) == ToSet(Last(e.now.operations).made)
<1>1. \/ g = h
      \/ \E c \in Staged(h.now, ProjectedEdge) :
             \E b \in Related(Confirmed(h, c).now, Pin(Confirmed(h, c))) :
                 g = Confirmed(Confirmed(h, c), b)
  BY DEF Projected
<1>. HIDE DEF Pin
<1>2. CASE g # h
  <2>1. PICK c \in Staged(h.now, ProjectedEdge) :
             \E b \in Related(Confirmed(h, c).now, Pin(Confirmed(h, c))) :
                 g = Confirmed(Confirmed(h, c), b)
    BY <1>1, <1>2
  <2>. DEFINE e == Confirmed(h, c)
  <2>2. h.now \in Good /\ h.now \in Sound
    BY DEF HistorySet, Sounds
  <2>3. ProjectedEdge \in RecipeSet /\ ProjectedEdge.takes \subseteq ProjectedEdge.reads
    BY RecipesAreRecipes DEF ProjectedEdge, Recipe
  <2>4. c \in Offspring(h.now) /\ c \in Sound
    BY <2>2, <2>3, StagedOffspring, StagedSound
  <2>5. Publishes(h, M, e) /\ Sounds(e)
    BY <2>4, OffspringPublishes, ConfirmedSounds
  <2>6. PICK b \in Related(e.now, Pin(e)) : g = Confirmed(e, b)
    BY <2>1
  <2>. HIDE DEF e
  <2>7. e \in HistorySet /\ e.now \in Sound
    BY <2>5 DEF Publishes, Sounds
  <2>8. b \in Sound
    BY <2>6, <2>7, RelatedSound
  <2>9. QED
    BY <2>5, <2>6, <2>7, <2>8, ConfirmedSounds
<1>3. QED
  BY <1>2

\* Steps that show what they have made, and leave the gate empty.
LEMMA ShownSound ==
    ASSUME NamesInv', NEW g, Shows(g), Sounds(g), pending' = NoEdit
    PROVE  SoundInv'
  BY DEF SoundInv, Shows, NoEdit, Kinds

LEMMA StageSound ==
    ASSUME SoundInv, NamesInv', NEW kind, NEW subject, NEW candidates,
           candidates \subseteq Sound, Stage(kind, subject, candidates)
    PROVE  SoundInv'
<1>1. PICK c \in candidates : pending' = Gated(kind, subject, c)
  BY DEF Stage
<1>2. canvas' = canvas /\ pending'.candidate = c
  BY <1>1 DEF Stage, Gated
<1>3. QED
  BY <1>2 DEF SoundInv

LEMMA AppendSound ==
    ASSUME SoundInv, NamesInv', NEW target \in Authored(pending.candidate),
           AppendTrim(target)
    PROVE  SoundInv'
<1>1. pending.kind \in {"trim", "delete"}
  BY DEF AppendTrim
<1>2. pending.kind \in Kinds /\ pending.candidate \in Sound
  BY <1>1 DEF SoundInv, Kinds
<1>3. /\ pending.expected = canvas.now.revision /\ canvas.now.revision \in Nat
      /\ pending = [kind |-> pending.kind, subject |-> pending.subject,
                    expected |-> pending.expected, candidate |-> pending.candidate,
                    base |-> pending.base]
  <2>1. canvas.now \in Good
    BY DEF SoundInv, NamesInv, HistorySet
  <2>2. \E kind \in Kinds : \E subject, c :
          pending = [kind |-> kind, subject |-> subject, expected |-> canvas.now.revision,
                     candidate |-> c, base |-> canvas.now]
    BY <1>1 DEF SoundInv, NamesInv, Gate, NoEdit
  <2>3. PICK kind, subject, c :
          pending = [kind |-> kind, subject |-> subject, expected |-> canvas.now.revision,
                     candidate |-> c, base |-> canvas.now]
    BY <2>2
  <2>4. QED
    BY <2>1, <2>3, GoodFields
<1>. DEFINE behind == [pending.candidate EXCEPT !.revision = pending.expected]
<1>4. behind \in Sound
  BY <1>2, <1>3, RevisedSound
<1>5. target \in Nat
  BY <1>2, AuthoredAreNumbers DEF Sound
<1>6. PICK b \in Click(behind, target) : pending' = [pending EXCEPT !.candidate = b]
  BY DEF AppendTrim
<1>. HIDE DEF behind
<1>7. b \in Sound
  BY <1>4, <1>5, <1>6, ClickSound
<1>8. pending'.candidate = b /\ canvas' = canvas
  BY <1>3, <1>6 DEF AppendTrim
<1>9. QED
  BY <1>7, <1>8 DEF SoundInv

LEMMA RetypingSound ==
    ASSUME SoundInv, NamesInv', NEW o \in Sized, NEW value \in Counts, NEW follows,
           RetypeParameter(o, value, follows)
    PROVE  SoundInv'
<1>1. PICK c \in Typed(o, value, follows) : pending' = Gated("edit", o, c)
  BY DEF RetypeParameter
<1>2. c \in Sound
  BY <1>1, TypedSound
<1>3. canvas' = canvas /\ pending'.candidate = c
  BY <1>1 DEF RetypeParameter, Gated
<1>4. QED
  BY <1>2, <1>3 DEF SoundInv

LEMMA ProjectingSound ==
    ASSUME SoundInv, NamesInv', Project  PROVE SoundInv'
<1>0. canvas \in HistorySet /\ Sounds(canvas) /\ Knows(canvas, meant) /\ NamesInv
  BY DEF SoundInv, NamesInv
<1>1. PICK h \in IF pending = NoEdit THEN {canvas}
                ELSE {Confirmed(canvas, c) : c \in Finished} :
          \E after \in Projected(h) : Shows(after)
  BY DEF Project
<1>2. PICK after \in Projected(h) : Shows(after)
  BY <1>1
<1>3. \E M : h \in HistorySet /\ Sounds(h) /\ Knows(h, M)
  <2>1. CASE pending = NoEdit
    BY <1>0, <1>1, <2>1
  <2>2. CASE pending # NoEdit
    <3>1. PICK c \in Finished : h = Confirmed(canvas, c)
      BY <1>1, <2>2
    <3>2. Publishes(canvas, meant, h)
      BY <1>0, <2>2, <3>1, FinishedPublishes
    <3>3. Sounds(h)
      BY <1>0, <2>2, <3>1, FinishedSound, ConfirmedSounds
    <3>4. QED
      BY <3>2, <3>3 DEF Publishes
  <2>3. QED
    BY <2>1, <2>2
<1>4. Sounds(after)
  BY <1>2, <1>3, ProjectedSounds
<1>5. QED
  BY <1>2, <1>4, ShownSound DEF Project

LEMMA DraggingSound ==
    ASSUME SoundInv, NamesInv', NEW op \in Active(sketch), Drag(op.id)  PROVE SoundInv'
<1>1. sketch \in Good /\ sketch \in Sound /\ canvas \in HistorySet /\ Sounds(canvas)
  BY InvFacts DEF SoundInv, NamesInv, Sounds
<1>2. PICK i \in DOMAIN sketch.operations : op = sketch.operations[i]
  BY DEF Active, ToSet
<1>3. Index(sketch, op.id) = i
  BY <1>1, <1>2, IndexOf
<1>4. PICK c \in Replaced(sketch, op.id, sketch.operations[i].recipe) :
          Shows(Replacing(canvas, c))
  BY <1>3 DEF Drag
<1>5. c \in Sound
  BY <1>1, <1>2, <1>4, RedoneSound
<1>6. Sounds(Replacing(canvas, c))
  BY <1>1, <1>5, ReplacingSounds
<1>7. pending' = NoEdit
  BY DEF Drag
<1>8. QED
  BY <1>4, <1>6, <1>7, ShownSound

LEMMA FollowingSound ==
    ASSUME SoundInv, NamesInv', NEW value \in Counts, SetNamedValues(value)
    PROVE  SoundInv'
<1>1. /\ sketch \in Sound /\ value \in Nat /\ canvas \in HistorySet /\ Sounds(canvas)
      /\ UNCHANGED pending
  BY InvFacts DEF SoundInv, NamesInv, Sounds, SetNamedValues
<1>2. CASE canvas' = canvas
  BY <1>1, <1>2 DEF SoundInv
<1>3. CASE canvas' # canvas
  <2>1. pending = NoEdit /\ \E x \in Followed(sketch, value) : Shows(Replacing(canvas, x.now))
    BY <1>3 DEF SetNamedValues
  <2>2. PICK x \in Followed(sketch, value) : Shows(Replacing(canvas, x.now))
    BY <2>1
  <2>3. Sounds(Replacing(canvas, x.now))
    BY <1>1, FollowedSound, ReplacingSounds
  <2>4. QED
    BY <1>1, <2>1, <2>2, <2>3, ShownSound
<1>4. QED
  BY <1>2, <1>3

LEMMA InitSound == SketchInit => SoundInv
<1> SUFFICES ASSUME SketchInit  PROVE SoundInv
  OBVIOUS
<1>1. NamesInv
  BY InitNames
<1>2. canvas = [now |-> EmptySketch, past |-> <<>>, future |-> <<>>]
  BY DEF SketchInit
<1>3. EmptySketch \in Sound
  BY <1>1, <1>2, EmptySound DEF NamesInv, HistorySet
<1>4. Sounds(canvas)
  BY <1>2, <1>3 DEF Sounds
<1>5. pending.kind \notin Kinds
  BY DEF SketchInit, NoEdit, Kinds
<1>6. QED
  BY <1>1, <1>4, <1>5 DEF SoundInv

LEMMA NextKeepsSound == SoundInv /\ [SketchNext]_sketchVars => SoundInv'
<1> SUFFICES ASSUME SoundInv, [SketchNext]_sketchVars
             PROVE  SoundInv'
  OBVIOUS
<1>0. NamesInv'
  BY NextKeepsNames DEF SoundInv
<1>1. /\ sketch \in Good /\ Counts \subseteq Nat /\ sketch \in Sound
      /\ canvas \in HistorySet /\ Sounds(canvas)
  BY InvFacts DEF SoundInv, NamesInv, Sounds
<1>2. ASSUME NEW size \in Counts \cup {0}, StageStroke(size)  PROVE SoundInv'
  BY <1>0, <1>2 DEF StageStroke, SoundInv, Kinds
<1>3. ASSUME NEW source \in Authored(sketch), NEW count \in Counts,
             StagePattern(source, count)
      PROVE  SoundInv'
  <2>1. /\ Pattern(source, count) \in RecipeSet
        /\ Pattern(source, count).takes \subseteq Pattern(source, count).reads
    BY <1>1, AuthoredAreNumbers, RecipesAreRecipes DEF Pattern, Recipe
  <2>2. Staged(sketch, Pattern(source, count)) \subseteq Sound
    BY <1>1, <2>1, StagedSound
  <2>3. QED
    BY <1>0, <1>3, <2>2, StageSound DEF StagePattern
<1>4. ASSUME NEW target \in Authored(sketch), StageTrim(target)  PROVE SoundInv'
  <2>1. Click(sketch, target) \subseteq Sound
    BY <1>1, AuthoredAreNumbers, ClickSound
  <2>2. QED
    BY <1>0, <1>4, <2>1, StageSound DEF StageTrim
<1>5. ASSUME NEW target \in Authored(pending.candidate), AppendTrim(target)  PROVE SoundInv'
  BY <1>0, <1>5, AppendSound
<1>6. ASSUME NEW relation, StageRelation(relation)  PROVE SoundInv'
  BY <1>0, <1>1, <1>6, RelatedSound, StageSound DEF StageRelation
<1>7. ASSUME NEW op \in Active(sketch), StageDelete(op.id)  PROVE SoundInv'
  <2>1. Retired(sketch, op.id) \subseteq Sound
    BY <1>1, RetiredSound
  <2>2. QED
    BY <1>0, <1>7, <2>1, StageSound DEF StageDelete
<1>8. ASSUME NEW op \in Active(sketch), Drag(op.id)  PROVE SoundInv'
  BY <1>0, <1>8, DraggingSound
<1>9. ASSUME NEW o \in Sized, NEW value \in Counts, NEW follows,
             StageParameter(o, value, follows)
      PROVE  SoundInv'
  BY <1>0, <1>9, TypedSound, StageSound DEF StageParameter
<1>10. ASSUME NEW o \in Sized, NEW value \in Counts, NEW follows,
              RetypeParameter(o, value, follows)
       PROVE  SoundInv'
  BY <1>0, <1>10, RetypingSound
<1>11. CASE ConfirmPending
  <2>1. PICK c \in Finished : Shows(Confirmed(canvas, c))
    BY <1>11 DEF ConfirmPending
  <2>2. pending # NoEdit /\ pending' = NoEdit
    BY <1>11 DEF ConfirmPending
  <2>3. Sounds(Confirmed(canvas, c))
    BY <1>1, <2>1, <2>2, FinishedSound, ConfirmedSounds
  <2>4. QED
    BY <1>0, <2>1, <2>2, <2>3, ShownSound
<1>12. CASE CancelPending
  BY <1>0, <1>12 DEF CancelPending, SoundInv, NoEdit, Kinds
<1>13. CASE Project
  BY <1>0, <1>13, ProjectingSound
<1>14. CASE UndoLocal
  <2>1. Shows(TakenBack(canvas)) /\ canvas.past # <<>> /\ pending' = NoEdit
    BY <1>14 DEF UndoLocal, Settled
  <2>2. Sounds(TakenBack(canvas))
    BY <1>1, <2>1, TakenBackSounds
  <2>3. QED
    BY <1>0, <2>1, <2>2, ShownSound
<1>15. CASE RedoLocal
  <2>1. Shows(BroughtBack(canvas)) /\ canvas.future # <<>> /\ pending' = NoEdit
    BY <1>15 DEF RedoLocal, Settled
  <2>2. Sounds(BroughtBack(canvas))
    BY <1>1, <2>1, BroughtBackSounds
  <2>3. QED
    BY <1>0, <2>1, <2>2, ShownSound
<1>16. ASSUME NEW value \in Counts, SetNamedValues(value)  PROVE SoundInv'
  BY <1>0, <1>16, FollowingSound
<1>17. CASE UNCHANGED sketchVars
  BY <1>0, <1>17 DEF sketchVars, SoundInv
<1> QED
  BY <1>2, <1>3, <1>4, <1>5, <1>6, <1>7, <1>8, <1>9, <1>10, <1>11, <1>12, <1>13, <1>14,
     <1>15, <1>16, <1>17 DEF SketchNext

LEMMA SoundHolds == SketchSpec => []SoundInv
  BY InitSound, NextKeepsSound, PTL DEF SketchSpec

-----------------------------------------------------------------------------
(* A replay that changes nothing.                                          *)

\* What the mark of a piece says in a sound sketch.
LEMMA MarkedBy ==
    ASSUME NEW d \in Sound, NEW p \in DOMAIN d.pieces, d.pieces[p].by # 0
    PROVE  /\ ~d.pieces[p].curve
           /\ Draws(d, Index(d, d.pieces[p].op), p) /\ Owner(d, p).active
           /\ \E t \in DOMAIN d.operations :
                  /\ Takes(d, t, p) /\ d.operations[t].id = d.pieces[p].by
                  /\ Index(d, d.pieces[p].op) \in 1..(t - 1)
<1>0. d \in Good /\ Valid(d)
  BY DEF Sound
<1>1. PICK t \in DOMAIN d.operations : Takes(d, t, p) /\ d.operations[t].id = d.pieces[p].by
  BY <1>0, MarksSay
<1>2. /\ Index(d, d.pieces[p].op) \in 1..(t - 1) /\ ~d.pieces[p].curve
      /\ Draws(d, Index(d, d.pieces[p].op), p)
  BY <1>1, TakenIsMarked
<1>3. Owner(d, p).active
  BY <1>0, <1>2 DEF Draws, Owner
<1>4. QED
  BY <1>1, <1>2, <1>3

\* When a replay from k on comes to x, piece p stands though d has it taken: it
\* was drawn again, or k gave it back, and who takes it has not had its turn.
Lent(d, k, x, p) ==
    /\ d.pieces[p].by # 0
    /\ \E t \in DOMAIN d.operations :
           /\ d.operations[t].id = d.pieces[p].by /\ x <= t
           /\ Index(d, d.pieces[p].op) \in k..(x - 1) \/ (x = k /\ t = k)

LEMMA LentIs ==
    ASSUME NEW d \in Sound, NEW k, NEW x, NEW t, NEW p, Takes(d, t, p)
    PROVE  Lent(d, k, x, p) <=>
               x <= t /\ (Index(d, d.pieces[p].op) \in k..(x - 1) \/ (x = k /\ t = k))
<1>1. d.pieces[p].by = d.operations[t].id /\ d.operations[t].id # 0
  BY TakenIsMarked
<1>2. t \in DOMAIN d.operations
      /\ \A u \in DOMAIN d.operations : d.operations[u].id = d.operations[t].id => u = t
  BY GoodFields DEF Sound, OperationsOK, Takes
<1>3. QED
  BY <1>1, <1>2 DEF Lent

\* The sketch that the replay of operation k, with the recipe it has, has come
\* to when it gets to operation x.
Midway(d, k, x, c) ==
    /\ c \in Good /\ c.operations = d.operations
    /\ c.relations = d.relations /\ c.links = d.links /\ c.revision = d.revision + 1
    /\ c.operationMark = d.operationMark /\ c.pieceMark = d.pieceMark
    /\ DOMAIN c.pieces = DOMAIN d.pieces
    /\ \A p \in DOMAIN d.pieces :
           /\ c.pieces[p].op = d.pieces[p].op /\ c.pieces[p].role = d.pieces[p].role
           /\ c.pieces[p].point = d.pieces[p].point
           /\ c.pieces[p].curve = IF Lent(d, k, x, p) THEN TRUE ELSE d.pieces[p].curve
           /\ c.pieces[p].by = IF Lent(d, k, x, p) THEN 0 ELSE d.pieces[p].by

LEMMA SameOperations ==
    ASSUME NEW c \in Good, NEW d \in Good, DOMAIN c.operations = DOMAIN d.operations,
           \A j \in DOMAIN d.operations :
               /\ c.operations[j].id = d.operations[j].id
               /\ c.operations[j].recipe = d.operations[j].recipe
               /\ c.operations[j].made = d.operations[j].made
               /\ c.operations[j].active = d.operations[j].active
    PROVE  c.operations = d.operations
<1>1. c.operations \in Seq(OperationSet) /\ d.operations \in Seq(OperationSet)
  BY GoodFields
<1>2. \A j \in DOMAIN d.operations : c.operations[j] = d.operations[j]
  <2>1. TAKE j \in DOMAIN d.operations
  <2>2. c.operations[j] \in OperationSet /\ d.operations[j] \in OperationSet
    BY GoodFields
  <2>3. QED
    BY <2>2 DEF OperationSet
<1>3. QED
  BY <1>1, <1>2

\* The replay starts midway, at its first operation.
LEMMA MidwayStart ==
    ASSUME NEW d \in Sound, NEW k \in DOMAIN d.operations
    PROVE  Midway(d, k, k, Start(d, k, d.operations[k].recipe))
<1>. DEFINE recipe == d.operations[k].recipe
            s == Start(d, k, recipe)
            o == d.operations[k].id
<1>1. d \in Good /\ k \in Nat
  BY GoodFields DEF Sound
<1>2. StartsFrom(d, k, recipe, s)
  BY <1>1, GoodFields, OperationFields, StartIs
<1>. HIDE DEF s
<1>3. s.operations = d.operations
  <2>1. /\ s \in Good /\ DOMAIN s.operations = DOMAIN d.operations
        /\ s.operations[k].recipe = recipe
        /\ \A j \in DOMAIN d.operations :
               /\ s.operations[j].id = d.operations[j].id
               /\ s.operations[j].made = d.operations[j].made
               /\ s.operations[j].active = d.operations[j].active
               /\ j # k => s.operations[j] = d.operations[j]
    BY <1>2 DEF StartsFrom
  <2>2. \A j \in DOMAIN d.operations : s.operations[j].recipe = d.operations[j].recipe
    BY <2>1
  <2>3. QED
    BY <1>1, <2>1, <2>2, SameOperations
<1>4. ASSUME NEW p \in DOMAIN d.pieces
      PROVE  Lent(d, k, k, p) <=> d.pieces[p].by = o
  <2>1. o # 0 /\ \A t \in DOMAIN d.operations : d.operations[t].id = o => t = k
    BY <1>1, GoodFields DEF OperationsOK
  <2>2. CASE d.pieces[p].by = 0
    BY <2>1, <2>2 DEF Lent
  <2>3. CASE d.pieces[p].by # 0
    <3>1. PICK t \in DOMAIN d.operations : /\ Takes(d, t, p)
                                           /\ d.operations[t].id = d.pieces[p].by
      BY <2>3, MarkedBy
    <3>2. Lent(d, k, k, p) <=>
              k <= t /\ (Index(d, d.pieces[p].op) \in k..(k - 1) \/ (k = k /\ t = k))
      BY <3>1, LentIs
    <3>3. QED
      BY <1>1, <2>1, <3>1, <3>2
  <2>4. QED
    BY <2>2, <2>3
<1>5. ASSUME NEW p \in DOMAIN d.pieces
      PROVE  /\ s.pieces[p].op = d.pieces[p].op /\ s.pieces[p].role = d.pieces[p].role
             /\ s.pieces[p].point = d.pieces[p].point
             /\ s.pieces[p].curve = IF Lent(d, k, k, p) THEN TRUE ELSE d.pieces[p].curve
             /\ s.pieces[p].by = IF Lent(d, k, k, p) THEN 0 ELSE d.pieces[p].by
  <2>1. s.pieces[p] = Freed(d, o, p) /\ d.pieces[p] \in PieceSet
    BY <1>1, <1>2, <1>5, GoodFields, TableFields DEF StartsFrom
  <2>2. CASE d.pieces[p].by = o
    <3>1. d.pieces[p].by # 0
      BY <1>1, <2>2, GoodFields DEF OperationsOK
    <3>2. Owner(d, p).active = TRUE
      <4>1. Owner(d, p).active
        BY <1>5, <3>1, MarkedBy
      <4>2. Owner(d, p).active \in BOOLEAN
        BY <1>1, <1>5, OwnerOf, OperationFields, GoodFields
      <4>3. QED
        BY <4>1, <4>2
    <3>3. s.pieces[p] = [d.pieces[p] EXCEPT !.curve = TRUE, !.by = 0]
      BY <2>1, <2>2, <3>2 DEF Freed
    <3>4. QED
      BY <1>4, <1>5, <2>1, <2>2, <3>3 DEF PieceSet
  <2>3. CASE d.pieces[p].by # o
    <3>1. s.pieces[p] = d.pieces[p]
      BY <2>1, <2>3 DEF Freed
    <3>2. QED
      BY <1>4, <1>5, <2>3, <3>1
  <2>4. QED
    BY <2>2, <2>3
<1>6. /\ s \in Good /\ s.relations = d.relations /\ s.links = d.links
      /\ s.revision = d.revision + 1 /\ DOMAIN s.pieces = DOMAIN d.pieces
      /\ s.operationMark = d.operationMark /\ s.pieceMark = d.pieceMark
  BY <1>2 DEF StartsFrom
<1>7. Midway(d, k, k, s)
  BY <1>3, <1>5, <1>6, Zenon DEF Midway
<1>8. QED
  BY <1>7 DEF s

\* What comes after the last operation is the sketch that it began with.
LEMMA MidwayEnd ==
    ASSUME NEW d \in Sound, NEW k \in DOMAIN d.operations, NEW c,
           Midway(d, k, Len(d.operations) + 1, c)
    PROVE  c = [d EXCEPT !.revision = @ + 1]
<1>1. d \in Good /\ c \in Good /\ d \in SketchSet /\ c \in SketchSet
  BY DEF Sound, Midway, Good
<1>2. \A p \in DOMAIN d.pieces : ~Lent(d, k, Len(d.operations) + 1, p)
  BY <1>1, GoodFields DEF Lent
<1>3. c.pieces = d.pieces
  <2>1. \A p \in DOMAIN d.pieces :
            /\ c.pieces[p].op = d.pieces[p].op /\ c.pieces[p].role = d.pieces[p].role
            /\ c.pieces[p].point = d.pieces[p].point
            /\ c.pieces[p].curve = d.pieces[p].curve /\ c.pieces[p].by = d.pieces[p].by
    BY <1>2 DEF Midway
  <2>2. DOMAIN c.pieces = DOMAIN d.pieces
    BY DEF Midway
  <2>3. \A p \in DOMAIN d.pieces : c.pieces[p] \in PieceSet /\ d.pieces[p] \in PieceSet
    BY <1>1, <2>2, GoodFields, TableFields
  <2>4. \A p \in DOMAIN d.pieces : c.pieces[p] = d.pieces[p]
    BY <2>1, <2>3 DEF PieceSet
  <2>5. /\ c.pieces = [p \in DOMAIN c.pieces |-> c.pieces[p]]
        /\ d.pieces = [p \in DOMAIN d.pieces |-> d.pieces[p]]
    BY <1>1, GoodFields, TableFields
  <2>6. QED
    BY <2>2, <2>4, <2>5
<1>4. /\ c.operations = d.operations /\ c.relations = d.relations /\ c.links = d.links
      /\ c.revision = d.revision + 1 /\ c.operationMark = d.operationMark
      /\ c.pieceMark = d.pieceMark
  BY DEF Midway
<1>5. QED
  BY <1>1, <1>3, <1>4 DEF SketchSet

\* Nothing that is read once the replay of operation k has begun is missing:
\* it is not both older than k and taken by an operation still to come.
Unblocked(d, k) ==
    \A x, t \in k..Len(d.operations) : x < t /\ d.operations[x].active =>
        \A p \in d.operations[x].recipe.reads :
            Index(d, d.pieces[p].op) < k => d.pieces[p].by # d.operations[t].id

\* The curves that a turn draws on.
LEMMA DarkIs ==
    ASSUME NEW d \in Good, NEW i \in DOMAIN d.operations
    PROVE  /\ DOMAIN Dark(d, i).pieces = DOMAIN d.pieces
           /\ \A p \in DOMAIN d.pieces :
                  Dark(d, i).pieces[p].curve =
                      IF p \in ToSet(d.operations[i].made) THEN FALSE
                      ELSE IF d.pieces[p].by = d.operations[i].id THEN Owner(d, p).active
                      ELSE d.pieces[p].curve
<1>. DEFINE op == d.operations[i]
<1>1. /\ DOMAIN Darkened(Restored(d, op.id), ToSet(op.made)).pieces = DOMAIN d.pieces
      /\ \A p \in DOMAIN d.pieces :
             Darkened(Restored(d, op.id), ToSet(op.made)).pieces[p].curve =
                 IF p \in ToSet(op.made) THEN FALSE
                 ELSE IF d.pieces[p].by = op.id THEN Owner(d, p).active
                 ELSE d.pieces[p].curve
  BY DarkenedIs, Zenon
<1>2. QED
  BY <1>1, Zenon DEF Dark

\* Whose turn it is finds what it reads.
LEMMA MidwayEvaluates ==
    ASSUME NEW d \in Sound, NEW k \in DOMAIN d.operations, Unblocked(d, k),
           NEW x \in k..Len(d.operations), d.operations[x].active,
           NEW c, Midway(d, k, x, c)
    PROVE  Evaluable(Curves(Dark(c, x)), d.operations[x].recipe)
<1>0. /\ d \in Good /\ Valid(d) /\ CachesAgree(d) /\ c \in Good
      /\ c.operations = d.operations /\ DOMAIN c.pieces = DOMAIN d.pieces
      /\ x \in DOMAIN d.operations /\ x \in Nat /\ k \in Nat
  <2>1. d \in Good /\ Valid(d) /\ CachesAgree(d) /\ c \in Good
        /\ c.operations = d.operations /\ DOMAIN c.pieces = DOMAIN d.pieces
    BY DEF Sound, Valid, Midway
  <2>2. k \in 1..Len(d.operations) /\ DOMAIN d.operations = 1..Len(d.operations)
        /\ Len(d.operations) \in Nat
    BY <2>1, GoodFields
  <2>3. QED
    BY <2>1, <2>2
<1>. DEFINE op == d.operations[x]
            dark == Dark(c, x)
<1>1. /\ DOMAIN dark.pieces = DOMAIN d.pieces
      /\ \A p \in DOMAIN d.pieces :
             dark.pieces[p].curve = IF p \in ToSet(op.made) THEN FALSE
                                    ELSE IF c.pieces[p].by = op.id THEN Owner(c, p).active
                                    ELSE c.pieces[p].curve
  <2>1. x \in DOMAIN c.operations /\ c.operations[x] = op
    BY <1>0
  <2>. HIDE DEF op
  <2>2. QED
    BY <1>0, <2>1, DarkIs
<1>. HIDE DEF dark
<1>2. SUFFICES ASSUME NEW p \in op.recipe.reads
               PROVE  p \in DOMAIN dark.pieces /\ dark.pieces[p].curve
  BY DEF Evaluable, Curves, dark
<1>3. PICK a \in 1..(x - 1) : Draws(d, a, p) /\ \A b \in a..(x - 1) : ~Takes(d, b, p)
  BY <1>0, CachesSay
<1>4. /\ a \in DOMAIN d.operations /\ p \in DOMAIN d.pieces
      /\ Index(d, d.pieces[p].op) = a /\ Owner(d, p) = d.operations[a]
      /\ d.operations[a].active /\ a < x /\ a \in Nat
      /\ d.pieces[p].point /\ (d.pieces[p].curve \/ d.pieces[p].by # 0)
  BY <1>0, <1>3, DrawnBy, CachesSay DEF Draws
<1>5. p \notin ToSet(op.made)
  BY <1>0, <1>4, DrawnBy
<1>6. Owner(c, p) = Owner(d, p)
  <2>1. c.pieces[p].op = d.pieces[p].op
    BY <1>4 DEF Midway
  <2>2. QED
    BY <1>0, <2>1 DEF Owner, Index
<1>7. /\ c.pieces[p].curve = IF Lent(d, k, x, p) THEN TRUE ELSE d.pieces[p].curve
      /\ c.pieces[p].by = IF Lent(d, k, x, p) THEN 0 ELSE d.pieces[p].by
  BY <1>4 DEF Midway
<1>8. op.id # 0
  BY <1>0, GoodFields DEF OperationsOK
<1>9. CASE Lent(d, k, x, p)
  BY <1>1, <1>4, <1>5, <1>7, <1>8, <1>9
<1>10. CASE d.pieces[p].by = 0
  <2>1. ~Lent(d, k, x, p)
    BY <1>10 DEF Lent
  <2>2. c.pieces[p].by # op.id /\ c.pieces[p].curve = d.pieces[p].curve
    BY <1>7, <1>8, <1>10, <2>1
  <2>3. d.pieces[p].curve /\ dark.pieces[p].curve = c.pieces[p].curve
    BY <1>1, <1>4, <1>5, <1>10, <2>2
  <2>4. QED
    BY <1>1, <1>4, <2>2, <2>3
<1>11. CASE d.pieces[p].by # 0 /\ ~Lent(d, k, x, p)
  <2>1. PICK t \in DOMAIN d.operations : Takes(d, t, p) /\ d.operations[t].id = d.pieces[p].by
                                         /\ a < t
    BY <1>4, <1>11, MarkedBy
  <2>2. t \in Nat /\ t \in 1..Len(d.operations) /\ x <= t
    <3>1. t \in 1..Len(d.operations) /\ Len(d.operations) \in Nat
      BY <1>0, GoodFields
    <3>2. t \notin a..(x - 1)
      BY <1>3, <2>1
    <3>3. QED
      BY <1>0, <1>4, <2>1, <3>1, <3>2
  <2>3. a \notin k..(x - 1)
    BY <1>4, <1>11, <2>1, <2>2, LentIs
  <2>4. a < k
    BY <1>0, <1>4, <2>3
  <2>5. ~(x < t)
    <3>1. x < t => t \in k..Len(d.operations)
      BY <1>0, <2>2
    <3>2. ASSUME x < t
          PROVE  d.pieces[p].by # d.operations[t].id
      <4>1. Index(d, d.pieces[p].op) < k /\ p \in d.operations[x].recipe.reads
        BY <1>4, <2>4
      <4>2. QED
        BY <3>1, <3>2, <4>1 DEF Unblocked
    <3>3. QED
      BY <2>1, <3>2
  <2>6. c.pieces[p].by = op.id
    BY <1>0, <1>7, <1>11, <2>1, <2>2, <2>5
  <2>7. QED
    BY <1>1, <1>4, <1>5, <1>6, <2>6
<1>12. QED
  BY <1>9, <1>10, <1>11

\* Who is lent after a turn: who was or is drawn, unless it is taken now.
LEMMA LentNext ==
    ASSUME NEW d \in Sound, NEW k \in DOMAIN d.operations, NEW x \in k..Len(d.operations),
           NEW p \in DOMAIN d.pieces
    PROVE  Lent(d, k, x + 1, p) <=>
               /\ d.pieces[p].by # 0 /\ ~Takes(d, x, p)
               /\ Lent(d, k, x, p) \/ Draws(d, x, p)
<1>0. d \in Good /\ k \in Nat /\ x \in Nat /\ k <= x /\ DOMAIN d.operations \subseteq Nat
  BY GoodFields DEF Sound
<1>1. CASE d.pieces[p].by = 0
  BY <1>1 DEF Lent
<1>2. CASE d.pieces[p].by # 0
  <2>. DEFINE a == Index(d, d.pieces[p].op)
  <2>1. PICK t \in DOMAIN d.operations : Takes(d, t, p) /\ a \in 1..(t - 1)
    BY <1>2, MarkedBy
  <2>2. Draws(d, a, p) /\ \A b : Draws(d, b, p) => b = a
    BY <1>0, <1>2, MarkedBy, DrawnBy DEF Draws
  <2>3. \A b : Takes(d, b, p) => b = t
    BY <2>1, TakenIsMarked
  <2>4. Lent(d, k, x, p) <=> x <= t /\ (a \in k..(x - 1) \/ (x = k /\ t = k))
    BY <2>1, LentIs
  <2>5. Lent(d, k, x + 1, p) <=>
            x + 1 <= t /\ (a \in k..((x + 1) - 1) \/ (x + 1 = k /\ t = k))
    BY <2>1, LentIs
  <2>6. (Takes(d, x, p) <=> x = t) /\ (Draws(d, x, p) <=> x = a)
    BY <2>1, <2>2, <2>3
  <2>7. a \in Nat /\ t \in Nat /\ a < t
    BY <1>0, <2>1
  <2>. HIDE DEF a
  <2>8. QED
    BY <1>0, <1>2, <2>4, <2>5, <2>6, <2>7
<1>3. QED
  BY <1>1, <1>2

\* The points after a turn.
LEMMA PointIs ==
    ASSUME NEW d \in Good, NEW i \in DOMAIN d.operations, NEW size \in Nat,
           NEW p \in DOMAIN d.pieces
    PROVE  Redone(Dark(d, i), i, size, p).point =
               IF p \in ToSet(Redraw(d, i, size)) THEN TRUE ELSE Dark(d, i).pieces[p].point
<1>. DEFINE dark == Dark(d, i)
            op == d.operations[i]
<1>1. /\ dark \in Good /\ dark.operations = d.operations /\ dark.pieceMark = d.pieceMark
      /\ DOMAIN dark.pieces = DOMAIN d.pieces
  <2>. DEFINE now == Darkened(Restored(d, op.id), ToSet(op.made))
  <2>1. /\ now \in Good /\ now.operations = d.operations /\ now.pieceMark = d.pieceMark
        /\ DOMAIN now.pieces = DOMAIN d.pieces
    BY DarkenedIs, Zenon
  <2>2. dark = now
    BY DEF Dark
  <2>. HIDE DEF dark, now
  <2>3. QED
    BY <2>1, <2>2
<1>. HIDE DEF dark
<1>2. Redraw(dark, i, size) = Redraw(d, i, size)
  BY <1>1 DEF Redraw
<1>3. dark.pieces[p] \in PieceSet
  BY <1>1, GoodFields, TableFields
<1>. DEFINE made == Redraw(d, i, size)
            lit == IF p \in ToSet(made) THEN Drawn(op.id, CHOOSE r \in 1..size : made[r] = p)
                                        ELSE dark.pieces[p]
            taken == [lit EXCEPT !.curve = FALSE, !.by = op.id]
<1>4. /\ lit.point = IF p \in ToSet(made) THEN TRUE ELSE dark.pieces[p].point
      /\ taken.point = IF p \in ToSet(made) THEN TRUE ELSE dark.pieces[p].point
  BY <1>3 DEF Drawn, PieceSet
<1>5. Redone(dark, i, size, p) = IF p \in op.recipe.takes THEN taken ELSE lit
  BY <1>1, <1>2 DEF Redone
<1>. HIDE DEF made, lit, taken
<1>6. Redone(dark, i, size, p).point =
          IF p \in ToSet(made) THEN TRUE ELSE dark.pieces[p].point
  BY <1>4, <1>5
<1>7. QED
  BY <1>6 DEF dark, made

LEMMA DarkPoint ==
    ASSUME NEW d \in Good, NEW i \in DOMAIN d.operations, NEW p \in DOMAIN d.pieces,
           p \notin ToSet(d.operations[i].made)
    PROVE  Dark(d, i).pieces[p].point = d.pieces[p].point
<1>. DEFINE op == d.operations[i]
            same == IF d.pieces[p].by = op.id
                      THEN [d.pieces[p] EXCEPT !.curve = Owner(d, p).active, !.by = 0]
                      ELSE d.pieces[p]
<1>1. Darkened(Restored(d, op.id), ToSet(op.made)).pieces[p] = same
  BY DarkenedIs, Zenon
<1>2. Dark(d, i).pieces[p] = same
  BY <1>1, Zenon DEF Dark
<1>3. d.pieces[p] \in PieceSet
  BY GoodFields, TableFields
<1>4. same.point = d.pieces[p].point
  BY <1>3 DEF PieceSet
<1>5. QED
  BY <1>2, <1>4

\* A turn in which as much is drawn as was drawn.
LEMMA RedrawSame ==
    ASSUME NEW d \in Good, NEW i \in DOMAIN d.operations
    PROVE  Redraw(d, i, Len(d.operations[i].made)) = d.operations[i].made
<1>. DEFINE made == d.operations[i].made
            kept == Len(made)
            new(r) == IF r <= kept THEN made[r] ELSE d.pieceMark + r - kept
<1>1. made \in Seq(Nat) /\ kept \in Nat
  BY GoodFields, OperationFields
<1>2. made = [r \in 1..kept |-> made[r]]
  BY <1>1
<1>3. Redraw(d, i, kept) = [r \in 1..kept |-> new(r)]
  BY DEF Redraw
<1>. HIDE DEF made, kept
<1>4. \A r \in 1..kept : new(r) = made[r]
  BY <1>1
<1>. HIDE DEF new
<1>5. Redraw(d, i, kept) = made
  BY <1>2, <1>3, <1>4
<1>6. QED
  BY <1>5 DEF made, kept

\* From operation to operation.
LEMMA MidwayTurn ==
    ASSUME NEW d \in Sound, NEW k \in DOMAIN d.operations, Unblocked(d, k),
           NEW x \in k..Len(d.operations), NEW c, Midway(d, k, x, c)
    PROVE  \E b \in Replayed(c, x) : Midway(d, k, x + 1, b)
<1>0. /\ d \in Good /\ Valid(d) /\ CachesAgree(d) /\ TakesOK(d) /\ c \in Good
      /\ c.operations = d.operations /\ DOMAIN c.pieces = DOMAIN d.pieces
      /\ x \in DOMAIN d.operations /\ x \in DOMAIN c.operations
  <2>1. d \in Good /\ Valid(d) /\ CachesAgree(d) /\ TakesOK(d) /\ c \in Good
        /\ c.operations = d.operations /\ DOMAIN c.pieces = DOMAIN d.pieces
    BY DEF Sound, Valid, Midway
  <2>2. k \in 1..Len(d.operations) /\ DOMAIN d.operations = 1..Len(d.operations)
        /\ Len(d.operations) \in Nat
    BY <2>1, GoodFields
  <2>3. QED
    BY <2>1, <2>2
<1>. DEFINE op == d.operations[x]
<1>1. CASE ~op.active
  <2>1. Replayed(c, x) = {c}
    BY <1>0, <1>1 DEF Replayed
  <2>2. \A p \in DOMAIN d.pieces : Lent(d, k, x + 1, p) <=> Lent(d, k, x, p)
    <3>1. TAKE p \in DOMAIN d.pieces
    <3>2. ~Takes(d, x, p) /\ ~Draws(d, x, p)
      BY <1>1 DEF Takes, Draws
    <3>3. Lent(d, k, x, p) => d.pieces[p].by # 0
      BY DEF Lent
    <3>4. QED
      BY <3>2, <3>3, LentNext
  <2>3. Midway(d, k, x + 1, c)
    BY <2>2 DEF Midway
  <2>4. QED
    BY <2>1, <2>3
<1>2. CASE op.active
  <2>. DEFINE size == Len(op.made)
              b == Redrawn(Dark(c, x), x, size)
  <2>1. size \in Sizes(op.recipe) /\ size \in Nat /\ op.id # 0
        /\ \A p \in ToSet(op.made) :
               d.pieces[p].point /\ (d.pieces[p].curve \/ d.pieces[p].by # 0)
    BY <1>0, <1>2, CachesSay, GoodFields, OperationFields DEF OperationsOK
  <2>2. Evaluable(Curves(Dark(c, x)), op.recipe)
    BY <1>2, MidwayEvaluates
  <2>3. b \in Replayed(c, x)
    BY <1>0, <1>2, <2>1, <2>2 DEF Replayed, Dark
  <2>4. DrawnAgain(c, x, size, b)
    BY <1>0, <2>1, TurnIs
  <2>5. Redraw(c, x, size) = op.made
    BY <1>0, RedrawSame
  <2>6. ToSet(op.made) \subseteq DOMAIN d.pieces
    BY <1>0, DrawnBy
  <2>. HIDE DEF size, b
  <2>7. /\ b \in Good /\ Grown(c, b) /\ b.operations = d.operations
        /\ DOMAIN b.pieces = DOMAIN d.pieces
        /\ b.relations = c.relations /\ b.links = c.links /\ b.revision = c.revision
        /\ b.operationMark = c.operationMark /\ b.pieceMark = c.pieceMark
    <3>1. b \in Good /\ Grown(c, b)
      BY <2>4 DEF DrawnAgain, Versions
    <3>2. /\ DOMAIN b.operations = DOMAIN d.operations
          /\ b.operations[x].made = op.made
          /\ \A j \in DOMAIN d.operations :
                 /\ b.operations[j].id = d.operations[j].id
                 /\ b.operations[j].recipe = d.operations[j].recipe
                 /\ b.operations[j].active = d.operations[j].active
                 /\ j # x => b.operations[j] = d.operations[j]
      BY <1>0, <2>4, <2>5 DEF DrawnAgain
    <3>3. \A j \in DOMAIN d.operations : b.operations[j].made = d.operations[j].made
      BY <3>2
    <3>4. b.operations = d.operations
      BY <1>0, <3>1, <3>2, <3>3, SameOperations
    <3>5. DOMAIN b.pieces = DOMAIN d.pieces
      BY <1>0, <2>4, <2>5, <2>6 DEF DrawnAgain
    <3>6. /\ b.relations = c.relations /\ b.links = c.links /\ b.revision = c.revision
          /\ b.operationMark = c.operationMark
      BY <2>4 DEF DrawnAgain
    <3>7. b.pieceMark = c.pieceMark
      <4>1. ~(size > Len(c.operations[x].made))
        BY <1>0, <2>1 DEF size
      <4>2. QED
        BY <2>4, <4>1 DEF DrawnAgain
    <3>8. QED
      BY <3>1, <3>4, <3>5, <3>6, <3>7
  <2>8. ASSUME NEW p \in DOMAIN d.pieces
        PROVE  /\ b.pieces[p].op = d.pieces[p].op /\ b.pieces[p].role = d.pieces[p].role
               /\ b.pieces[p].point = d.pieces[p].point
               /\ b.pieces[p].curve =
                      IF Lent(d, k, x + 1, p) THEN TRUE ELSE d.pieces[p].curve
               /\ b.pieces[p].by = IF Lent(d, k, x + 1, p) THEN 0 ELSE d.pieces[p].by
    <3>1. /\ c.pieces[p].op = d.pieces[p].op /\ c.pieces[p].role = d.pieces[p].role
          /\ c.pieces[p].point = d.pieces[p].point
          /\ c.pieces[p].curve = IF Lent(d, k, x, p) THEN TRUE ELSE d.pieces[p].curve
          /\ c.pieces[p].by = IF Lent(d, k, x, p) THEN 0 ELSE d.pieces[p].by
      BY DEF Midway
    <3>2. /\ b.pieces[p].by = IF p \in op.recipe.takes THEN op.id
                              ELSE IF p \in ToSet(op.made) \/ c.pieces[p].by = op.id THEN 0
                              ELSE c.pieces[p].by
          /\ b.pieces[p].curve = IF p \in op.recipe.takes THEN FALSE
                                 ELSE IF p \in ToSet(op.made) THEN TRUE
                                 ELSE IF c.pieces[p].by = op.id THEN Owner(c, p).active
                                 ELSE c.pieces[p].curve
      <4>1. p \in DOMAIN b.pieces
        BY <2>7
      <4>2. /\ b.pieces[p].by = IF p \in c.operations[x].recipe.takes THEN c.operations[x].id
                                ELSE IF p \in ToSet(Redraw(c, x, size))
                                        \/ c.pieces[p].by = c.operations[x].id THEN 0
                                ELSE c.pieces[p].by
            /\ b.pieces[p].curve = IF p \in c.operations[x].recipe.takes THEN FALSE
                                   ELSE IF p \in ToSet(Redraw(c, x, size)) THEN TRUE
                                   ELSE IF p \in ToSet(c.operations[x].made) THEN FALSE
                                   ELSE IF c.pieces[p].by = c.operations[x].id
                                     THEN Owner(c, p).active
                                   ELSE c.pieces[p].curve
        BY <2>4, <4>1, Zenon DEF DrawnAgain
      <4>. HIDE DEF op
      <4>3. c.operations[x] = op
        BY <1>0 DEF op
      <4>4. QED
        BY <2>5, <4>2, <4>3
    <3>3. b.pieces[p].op = d.pieces[p].op /\ b.pieces[p].role = d.pieces[p].role
      BY <1>0, <2>7, <3>1 DEF Grown
    <3>4. b.pieces[p].point = d.pieces[p].point
      <4>1. b.pieces[p] = Redone(Dark(c, x), x, size, p)
        BY <2>4, <2>7 DEF DrawnAgain
      <4>2. Redone(Dark(c, x), x, size, p).point =
                IF p \in ToSet(op.made) THEN TRUE ELSE Dark(c, x).pieces[p].point
        <5>1. size \in Nat /\ p \in DOMAIN c.pieces
          BY <1>0, <2>1
        <5>2. Redone(Dark(c, x), x, size, p).point =
                  IF p \in ToSet(Redraw(c, x, size)) THEN TRUE
                                                    ELSE Dark(c, x).pieces[p].point
          BY <1>0, <5>1, PointIs, Zenon
        <5>3. QED
          BY <2>5, <5>2, Zenon
      <4>3. p \notin ToSet(op.made) => Dark(c, x).pieces[p].point = c.pieces[p].point
        BY <1>0, DarkPoint
      <4>4. p \in ToSet(op.made) => d.pieces[p].point = TRUE
        BY <1>0, <2>1, GoodFields, TableFields DEF PieceSet
      <4>5. QED
        BY <3>1, <4>1, <4>2, <4>3, <4>4
    <3>5. /\ Takes(d, x, p) <=> p \in op.recipe.takes
          /\ Draws(d, x, p) <=> p \in ToSet(op.made)
      BY <1>0, <1>2 DEF Takes, Draws
    <3>6. Lent(d, k, x + 1, p) <=>
              /\ d.pieces[p].by # 0 /\ p \notin op.recipe.takes
              /\ Lent(d, k, x, p) \/ p \in ToSet(op.made)
      BY <3>5, LentNext
    <3>7. Lent(d, k, x, p) => d.pieces[p].by # 0
      BY DEF Lent
    <3>8. CASE p \in op.recipe.takes
      <4>1. d.pieces[p].by = op.id /\ d.pieces[p].curve = FALSE
        BY <1>0, <3>5, <3>8, TakenIsMarked, GoodFields, TableFields DEF PieceSet
      <4>2. QED
        BY <3>2, <3>3, <3>4, <3>6, <3>8, <4>1
    <3>9. CASE p \notin op.recipe.takes /\ p \in ToSet(op.made)
      <4>1. d.pieces[p].by = 0 => d.pieces[p].curve = TRUE
        BY <1>0, <2>1, <3>9, GoodFields, TableFields DEF PieceSet
      <4>2. QED
        BY <3>2, <3>3, <3>4, <3>6, <3>9, <4>1
    <3>10. CASE p \notin op.recipe.takes /\ p \notin ToSet(op.made)
      <4>1. d.pieces[p].by # op.id
        <5>1. ASSUME d.pieces[p].by = op.id
              PROVE  FALSE
          <6>1. PICK t \in DOMAIN d.operations :
                    Takes(d, t, p) /\ d.operations[t].id = d.pieces[p].by
            BY <2>1, <5>1, MarkedBy
          <6>2. t = x
            BY <1>0, <5>1, <6>1, GoodFields DEF OperationsOK
          <6>3. QED
            BY <3>5, <3>10, <6>1, <6>2
        <5>2. QED
          BY <5>1
      <4>2. c.pieces[p].by # op.id
        BY <2>1, <3>1, <4>1
      <4>3. b.pieces[p].by = c.pieces[p].by /\ b.pieces[p].curve = c.pieces[p].curve
        BY <3>2, <3>10, <4>2
      <4>4. Lent(d, k, x + 1, p) <=> Lent(d, k, x, p)
        BY <3>6, <3>7, <3>10
      <4>5. QED
        BY <3>1, <3>3, <3>4, <4>3, <4>4
    <3>11. QED
      BY <3>8, <3>9, <3>10
  <2>9. Midway(d, k, x + 1, b)
    <3>1. /\ c.relations = d.relations /\ c.links = d.links
          /\ c.revision = d.revision + 1
          /\ c.operationMark = d.operationMark /\ c.pieceMark = d.pieceMark
      BY DEF Midway
    <3>2. QED
      BY <2>7, <2>8, <3>1, Zenon DEF Midway
  <2>10. QED
    BY <2>3, <2>9
<1>3. QED
  BY <1>1, <1>2

LEMMA UnblockedReplay ==
    ASSUME NEW d \in Sound, NEW k \in DOMAIN d.operations, Unblocked(d, k)
    PROVE  [d EXCEPT !.revision = @ + 1]
               \in Replaced(d, d.operations[k].id, d.operations[k].recipe)
<1>. DEFINE L == Len(d.operations)
            N == L - k + 1
            recipe == d.operations[k].recipe
            last == [d EXCEPT !.revision = @ + 1]
<1>0. d \in Good /\ recipe \in RecipeSet /\ L \in Nat /\ k \in 1..L
  BY GoodFields, OperationFields DEF Sound
<1>1. PICK turns :
          /\ turns[0] = {Start(d, k, recipe)}
          /\ \A n \in 1..N :
                 turns[n] = UNION {Replayed(c, k + n - 1) : c \in turns[n - 1]}
          /\ \A n \in 0..N : turns[n] \subseteq Versions(Start(d, k, recipe), 0)
          /\ Replaced(d, d.operations[k].id, recipe) = Checked(turns[N])
  BY <1>0, ReplacedUnfolds, Zenon
<1>2. Midway(d, k, k, Start(d, k, recipe))
  BY MidwayStart
<1>. HIDE DEF L, recipe
<1>3. \A n \in 0..N : \E c \in turns[n] : Midway(d, k, k + n, c)
  <2>. DEFINE G == {n \in 0..N : \E c \in turns[n] : Midway(d, k, k + n, c)}
  <2>1. 0 \in G
    <3>1. Start(d, k, recipe) \in turns[0] /\ k + 0 = k /\ 0 \in 0..N
      BY <1>0, <1>1, TurnNumbers
    <3>. HIDE DEF N
    <3>2. QED
      BY <1>2, <3>1
  <2>2. ASSUME NEW n \in 0..(N - 1), n \in G
        PROVE  n + 1 \in G
    <3>1. n + 1 \in 1..N /\ n + 1 \in 0..N /\ (n + 1) - 1 = n /\ n \in 0..N
          /\ k + (n + 1) - 1 = k + n /\ k + (n + 1) = (k + n) + 1
          /\ k + n \in 1..L
      BY <1>0, TurnNumbers
    <3>2. k + n \in k..L
      BY <1>0, <3>1
    <3>3. turns[n + 1] = UNION {Replayed(c, k + n) : c \in turns[n]}
      BY <1>1, <3>1
    <3>4. PICK c \in turns[n] : Midway(d, k, k + n, c)
      BY <2>2
    <3>. HIDE DEF N
    <3>5. PICK b \in Replayed(c, k + n) : Midway(d, k, (k + n) + 1, b)
      BY <3>2, <3>4, MidwayTurn DEF L
    <3>6. b \in turns[n + 1]
      BY <3>3, <3>4, <3>5
    <3>7. QED
      BY <3>1, <3>5, <3>6
  <2>. HIDE DEF G
  <2>3. \A n \in 0..N : n \in G
    <3>1. N \in Nat
      BY <1>0, TurnNumbers
    <3>. HIDE DEF N
    <3>2. QED
      BY <2>1, <2>2, <3>1, PrefixInduction
  <2>4. QED
    BY <2>3 DEF G
<1>4. N \in 0..N /\ k + N = L + 1
  BY <1>0, TurnNumbers
<1>. HIDE DEF N
<1>5. PICK c \in turns[N] : Midway(d, k, L + 1, c)
  BY <1>3, <1>4
<1>6. c = last
  BY <1>5, MidwayEnd DEF L
<1>7. last \in Sound
  <2>1. d.revision + 1 \in Nat /\ last = [d EXCEPT !.revision = d.revision + 1]
    BY <1>0, GoodFields
  <2>2. QED
    BY <2>1, RevisedSound
<1>. HIDE DEF last
<1>8. last \in Checked(turns[N])
  BY <1>5, <1>6, <1>7 DEF Checked, Sound
<1>9. QED
  BY <1>1, <1>8 DEF last, recipe

\* In c piece p is still as it is in d, where it is taken.
Held(d, p, c) ==
    /\ c \in Good /\ DOMAIN c.operations = DOMAIN d.operations
    /\ \A x \in DOMAIN d.operations :
           /\ c.operations[x].id = d.operations[x].id
           /\ c.operations[x].recipe = d.operations[x].recipe
           /\ c.operations[x].active = d.operations[x].active
    /\ p \in DOMAIN c.pieces /\ c.pieces[p].op = d.pieces[p].op
    /\ c.pieces[p].by = d.pieces[p].by /\ ~c.pieces[p].curve

LEMMA NotMadeBy ==
    ASSUME NEW d \in Sound, NEW p \in DOMAIN d.pieces, NEW x \in DOMAIN d.operations,
           Index(d, d.pieces[p].op) < x, NEW c, Held(d, p, c)
    PROVE  p \notin ToSet(c.operations[x].made)
<1>1. /\ d \in Good /\ c \in Good /\ x \in DOMAIN c.operations /\ x \in Nat
      /\ c.operations[x].id = d.operations[x].id /\ c.pieces[p].op = d.pieces[p].op
  BY GoodFields DEF Sound, Held
<1>2. Index(d, d.operations[x].id) = x
  BY <1>1, IndexOf
<1>3. d.pieces[p].op # c.operations[x].id
  BY <1>1, <1>2
<1>4. QED
  BY <1>1, <1>3, DrawnBy

\* A turn of another than who took it leaves it so, and an operation that
\* reads it has no turn.
LEMMA HeldTurn ==
    ASSUME NEW d \in Sound, NEW p \in DOMAIN d.pieces, NEW x \in DOMAIN d.operations,
           Index(d, d.pieces[p].op) < x, d.pieces[p].by # d.operations[x].id,
           NEW c, Held(d, p, c)
    PROVE  /\ \A b \in Replayed(c, x) : Held(d, p, b)
           /\ d.operations[x].active /\ p \in d.operations[x].recipe.reads =>
                  Replayed(c, x) = {}
<1>. DEFINE op == c.operations[x]
<1>1. /\ d \in Good /\ TakesOK(d) /\ c \in Good /\ x \in DOMAIN c.operations
      /\ op.id = d.operations[x].id /\ op.recipe = d.operations[x].recipe
      /\ op.active = d.operations[x].active
      /\ p \in DOMAIN c.pieces /\ c.pieces[p].by = d.pieces[p].by /\ ~c.pieces[p].curve
  BY DEF Sound, Held
<1>2. p \notin ToSet(op.made) /\ c.pieces[p].by # op.id
  BY <1>1, NotMadeBy
<1>3. ASSUME NEW b \in Replayed(c, x)
      PROVE  Held(d, p, b)
  <2>1. CASE ~op.active
    BY <1>3, <2>1 DEF Replayed
  <2>2. CASE op.active
    <3>1. PICK size \in Sizes(op.recipe) : b = Redrawn(Dark(c, x), x, size)
      BY <1>3, <2>2 DEF Replayed, Dark
    <3>2. size \in Nat
      BY <1>1, GoodFields, OperationFields, SizesAreNumbers
    <3>3. DrawnAgain(c, x, size, b)
      BY <1>1, <3>1, <3>2, TurnIs
    <3>4. /\ b \in Good /\ Grown(c, b) /\ DOMAIN b.operations = DOMAIN c.operations
          /\ b.operations[x].made = Redraw(c, x, size)
          /\ \A j \in DOMAIN c.operations :
                 /\ b.operations[j].id = c.operations[j].id
                 /\ b.operations[j].recipe = c.operations[j].recipe
                 /\ b.operations[j].active = c.operations[j].active
      BY <3>3 DEF DrawnAgain, Versions
    <3>5. p \in DOMAIN b.pieces /\ b.pieces[p].op = c.pieces[p].op
      BY <1>1, <3>4 DEF Grown
    <3>6. p \notin ToSet(Redraw(c, x, size))
      <4>1. Index(d, d.operations[x].id) = x /\ x \in Nat
        BY <1>1, IndexOf, GoodFields
      <4>2. b.pieces[p].op # b.operations[x].id
        BY <1>1, <3>4, <3>5, <4>1 DEF Held
      <4>3. QED
        BY <1>1, <3>4, <4>2, DrawnBy
    <3>7. p \notin op.recipe.takes
      <4>1. ASSUME p \in op.recipe.takes
            PROVE  d.pieces[p].by = d.operations[x].id
        <5>1. Takes(d, x, p)
          BY <1>1, <2>2, <4>1 DEF Takes
        <5>2. QED
          BY <1>1, <5>1 DEF TakesOK
      <4>2. QED
        BY <4>1
    <3>8. b.pieces[p].by = c.pieces[p].by /\ b.pieces[p].curve = c.pieces[p].curve
      BY <1>2, <3>3, <3>5, <3>6, <3>7, Zenon DEF DrawnAgain
    <3>9. QED
      BY <1>1, <3>4, <3>5, <3>8 DEF Held
  <2>3. QED
    BY <2>1, <2>2
<1>4. ASSUME op.active, p \in op.recipe.reads
      PROVE  Replayed(c, x) = {}
  <2>1. ~Dark(c, x).pieces[p].curve
    BY <1>1, <1>2, DarkIs
  <2>2. ~Evaluable(Curves(Dark(c, x)), op.recipe)
    BY <1>4, <2>1 DEF Evaluable, Curves
  <2>3. QED
    BY <1>4, <2>2 DEF Replayed, Dark
<1>5. QED
  BY <1>1, <1>3, <1>4

LEMMA BlockedRefused ==
    ASSUME NEW d \in Sound, NEW k \in DOMAIN d.operations, ~Unblocked(d, k)
    PROVE  Replaced(d, d.operations[k].id, d.operations[k].recipe) = {}
<1>. DEFINE L == Len(d.operations)
            N == L - k + 1
            recipe == d.operations[k].recipe
            s == Start(d, k, recipe)
<1>0. /\ d \in Good /\ CachesAgree(d) /\ recipe \in RecipeSet /\ L \in Nat /\ k \in 1..L
      /\ DOMAIN d.operations = 1..L
  BY GoodFields, OperationFields DEF Sound, Valid
<1>a. L \in Nat /\ k \in 1..L
  BY <1>0
<1>1. PICK turns :
          /\ turns[0] = {Start(d, k, recipe)}
          /\ \A n \in 1..N :
                 turns[n] = UNION {Replayed(c, k + n - 1) : c \in turns[n - 1]}
          /\ \A n \in 0..N : turns[n] \subseteq Versions(Start(d, k, recipe), 0)
          /\ Replaced(d, d.operations[k].id, recipe) = Checked(turns[N])
  BY <1>0, ReplacedUnfolds, Zenon
<1>2. PICK x \in k..L, t \in k..L : \E p \in d.operations[x].recipe.reads :
          /\ x < t /\ d.operations[x].active
          /\ Index(d, d.pieces[p].op) < k /\ d.pieces[p].by = d.operations[t].id
  BY DEF Unblocked
<1>3. PICK p \in d.operations[x].recipe.reads :
          /\ x < t /\ d.operations[x].active
          /\ Index(d, d.pieces[p].op) < k /\ d.pieces[p].by = d.operations[t].id
  BY <1>2
<1>4. x \in 1..L /\ t \in 1..L /\ x \in Nat /\ t \in Nat /\ k \in Nat
  BY <1>0
<1>5. PICK a \in 1..(x - 1) : Draws(d, a, p)
  BY <1>0, <1>3, <1>4, CachesSay
<1>6. p \in DOMAIN d.pieces
  BY <1>0, <1>5, DrawnBy DEF Draws
<1>7. \A j \in 1..L : j # t => d.pieces[p].by # d.operations[j].id
  BY <1>0, <1>3, <1>4, GoodFields DEF OperationsOK
<1>8. Held(d, p, s)
  <2>1. Midway(d, k, k, s)
    BY MidwayStart
  <2>2. StartsFrom(d, k, recipe, s)
    BY <1>0, StartIs
  <2>. HIDE DEF s
  <2>3. d.pieces[p].by # d.operations[k].id /\ d.pieces[p].by # 0
    BY <1>0, <1>3, <1>4, <1>7, GoodFields DEF OperationsOK
  <2>4. s.pieces[p] = d.pieces[p]
    BY <1>0, <1>6, <2>2, <2>3, FreedIs DEF StartsFrom
  <2>5. ~d.pieces[p].curve
    BY <1>6, <2>3, MarkedBy
  <2>6. s \in Good /\ s.operations = d.operations /\ DOMAIN s.pieces = DOMAIN d.pieces
    BY <2>1 DEF Midway
  <2>. QED
    BY <1>6, <2>4, <2>5, <2>6 DEF Held
<1>9. turns[0] = {s}
  BY <1>1, Zenon
<1>. HIDE DEF L, recipe, s
<1>10. \A n \in 0..N : /\ k + n <= x => \A c \in turns[n] : Held(d, p, c)
                       /\ k + n > x => turns[n] = {}
  <2>. DEFINE G == {n \in 0..N : /\ k + n <= x => \A c \in turns[n] : Held(d, p, c)
                                 /\ k + n > x => turns[n] = {}}
  <2>1. 0 \in G
    <3>1. k + 0 = k /\ 0 \in 0..N /\ ~(k > x)
      BY <1>0, <1>4, TurnNumbers
    <3>. HIDE DEF N
    <3>2. QED
      BY <1>8, <1>9, <3>1
  <2>2. ASSUME NEW n \in 0..(N - 1), n \in G
        PROVE  n + 1 \in G
    <3>. HIDE DEF G
    <3>1. n + 1 \in 1..N /\ n + 1 \in 0..N /\ (n + 1) - 1 = n /\ n \in 0..N
          /\ k + (n + 1) - 1 = k + n /\ k + (n + 1) = (k + n) + 1
          /\ k + n \in 1..L
      BY <1>a, TurnNumbers
    <3>2. turns[n + 1] = UNION {Replayed(c, k + n) : c \in turns[n]}
      BY <1>1, <3>1
    <3>. DEFINE y == k + n
    <3>3. k <= y /\ y \in Nat /\ k + (n + 1) = y + 1
      <4>1. n \in Nat
        BY <2>2
      <4>. HIDE DEF N
      <4>2. QED
        BY <1>4, <3>1, <4>1
    <3>4. /\ y <= x => \A c \in turns[n] : Held(d, p, c)
          /\ y > x => turns[n] = {}
      BY <2>2 DEF G
    <3>. HIDE DEF N, y
    <3>5. turns[n + 1] = UNION {Replayed(c, y) : c \in turns[n]} /\ y \in 1..L
      BY <3>1, <3>2 DEF y
    <3>6. ASSUME y + 1 <= x, NEW b \in turns[n + 1]
          PROVE  Held(d, p, b)
      <4>1. y < x /\ y # t /\ Index(d, d.pieces[p].op) < y
        <5>1. Index(d, d.pieces[p].op) \in Nat
          BY <1>0, <1>5, <1>6, DrawnBy DEF Draws
        <5>2. QED
          BY <1>3, <1>4, <3>3, <3>6, <5>1
      <4>2. PICK c \in turns[n] : b \in Replayed(c, y)
        BY <3>5
      <4>3. Held(d, p, c)
        BY <1>4, <3>3, <3>4, <4>1, <4>2
      <4>4. QED
        BY <1>0, <1>6, <1>7, <3>5, <4>1, <4>2, <4>3, HeldTurn
    <3>7. ASSUME y + 1 > x
          PROVE  turns[n + 1] = {}
      <4>1. CASE y = x
        <5>1. Index(d, d.pieces[p].op) < x /\ x # t
          <6>1. Index(d, d.pieces[p].op) \in Nat
            BY <1>0, <1>5, <1>6, DrawnBy DEF Draws
          <6>2. QED
            BY <1>3, <1>4, <3>3, <4>1, <6>1
        <5>2. \A c \in turns[n] : Held(d, p, c)
          BY <1>4, <3>4, <4>1
        <5>3. \A c \in turns[n] : Replayed(c, y) = {}
          BY <1>0, <1>3, <1>4, <1>6, <1>7, <4>1, <5>1, <5>2, HeldTurn
        <5>4. QED
          BY <3>5, <5>3
      <4>2. CASE y > x
        BY <3>4, <3>5, <4>2
      <4>3. QED
        BY <1>4, <3>3, <3>7, <4>1, <4>2
    <3>8. QED
      BY <3>1, <3>3, <3>6, <3>7 DEF G
  <2>. HIDE DEF G
  <2>3. \A n \in 0..N : n \in G
    <3>1. N \in Nat
      BY <1>0, TurnNumbers
    <3>. HIDE DEF N
    <3>2. QED
      BY <2>1, <2>2, <3>1, PrefixInduction
  <2>4. QED
    BY <2>3 DEF G
<1>11. N \in 0..N /\ k + N = L + 1
  BY <1>0, TurnNumbers
<1>. HIDE DEF N
<1>12. k + N > x
  BY <1>0, <1>4, <1>11
<1>13. turns[N] = {}
  BY <1>10, <1>11, <1>12
<1>14. QED
  BY <1>1, <1>13 DEF Checked, recipe

LEMMA BlockedIs ==
    ASSUME NEW d \in Sound, NEW k \in DOMAIN d.operations
    PROVE  BlockedReplay(d, d.operations[k].id) <=> ~Unblocked(d, k)
<1>1. Index(d, d.operations[k].id) = k
  BY IndexOf DEF Sound
<1>2. QED
  BY <1>1 DEF BlockedReplay, Unblocked

LEMMA SoundImplies == SoundInv => ReplayChangesNothing
<1> SUFFICES ASSUME SoundInv, NEW op \in Active(sketch)
             PROVE  LET again == Replaced(sketch, op.id, op.recipe)
                    IN  IF BlockedReplay(sketch, op.id)
                            THEN again = {}
                            ELSE [sketch EXCEPT !.revision = @ + 1] \in again
  BY DEF ReplayChangesNothing
<1>1. sketch \in Sound
  BY DEF SoundInv, Sounds, sketch
<1>2. PICK k \in DOMAIN sketch.operations : op = sketch.operations[k]
  BY DEF Active, ToSet
<1>3. BlockedReplay(sketch, op.id) <=> ~Unblocked(sketch, k)
  BY <1>1, <1>2, BlockedIs
<1>4. CASE Unblocked(sketch, k)
  BY <1>1, <1>2, <1>3, <1>4, UnblockedReplay, Zenon
<1>5. CASE ~Unblocked(sketch, k)
  BY <1>1, <1>2, <1>3, <1>5, BlockedRefused, Zenon
<1>6. QED
  BY <1>4, <1>5

\* To commit an operation with the recipe it has can always come out as the
\* sketch it was, whatever was drawn, trimmed, deleted, dragged, undone and
\* followed before; and it is refused in one case only, where a later operation
\* reads a curve from before the replay that one after it has taken
\* (stage_replace, apply_replacement, restore_entities_superseded_by).
THEOREM ReplayKeepsTheSketch == SketchSpec => []ReplayChangesNothing
  BY SoundHolds, SoundImplies, PTL
=============================================================================
