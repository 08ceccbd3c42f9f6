-------------------------- MODULE Workbench_proofs --------------------------
(***************************************************************************)
(* Proofs about Workbench, for any set of files and any number of tabs and *)
(* edits.                                                                  *)
(***************************************************************************)
EXTENDS Workbench, SequenceTheorems, WellFoundedInduction, TLAPS

-----------------------------------------------------------------------------
(* Types.                                                                  *)

Contents ==
    {c \in [features : Seq(Nat), cursor : Nat, hidden : BOOLEAN] :
         c.cursor <= Len(c.features)}

Path == Files \cup {NoFile}

DocType ==
    [model : Contents, past : Seq(Contents), future : Seq(Contents),
     dirty : BOOLEAN, path : Path,
     pending : {"none", "extrude", "edit", "open"}, edited : Nat, id : Nat,
     base : Seq(Nat), job : Nat,
     target : Path, running : {"none", "computing", "ok", "failed"},
     asking : Path, typing : {"none", "open", "save"},
     kept : Contents, answered : Contents, overtaken : BOOLEAN,
     withdrawn : SUBSET Nat]

LEMMA ContentsAre ==
    ASSUME NEW c \in Contents
    PROVE  /\ c.features \in Seq(Nat) /\ Len(c.features) \in Nat
           /\ c.cursor \in 0..Len(c.features)
           /\ Len(c.features) \in 0..Len(c.features)
BY DEF Contents

LEMMA MovedContents ==
    ASSUME NEW c \in Contents, NEW n \in 0..Len(c.features)
    PROVE  /\ [c EXCEPT !.cursor = n] \in Contents
           /\ [c EXCEPT !.cursor = n].features = c.features
           /\ [c EXCEPT !.cursor = n].cursor = n
<1>. DEFINE m == [c EXCEPT !.cursor = n]
<1>1. m \in [features : Seq(Nat), cursor : Nat, hidden : BOOLEAN]
  BY DEF Contents
<1>2. m.features = c.features /\ m.cursor = n
  BY DEF Contents
<1>3. Len(c.features) \in Nat
  BY ContentsAre
<1>. HIDE DEF m
<1>4. m.cursor <= Len(m.features)
  BY <1>2, <1>3
<1>5. m \in Contents
  BY <1>1, <1>4 DEF Contents
<1>6. QED
  BY <1>2, <1>5 DEF m

LEMMA HiddenContents ==
    ASSUME NEW c \in Contents
    PROVE  /\ [c EXCEPT !.hidden = ~@] \in Contents
           /\ [c EXCEPT !.hidden = ~@].features = c.features
           /\ [c EXCEPT !.hidden = ~@].cursor = c.cursor
<1>. DEFINE m == [c EXCEPT !.hidden = ~@]
<1>1. m.features = c.features /\ m.cursor = c.cursor
  BY DEF Contents
<1>2. m \in [features : Seq(Nat), cursor : Nat, hidden : BOOLEAN]
  BY DEF Contents
<1>3. QED
  BY <1>1, <1>2 DEF Contents

\* A feature is added at the end, and the cursor put behind it.
LEMMA LongerContents ==
    ASSUME NEW c \in Contents, NEW k \in Nat
    PROVE  LET m == ToEnd([c EXCEPT !.features = Append(@, k)])
           IN  /\ m \in Contents
               /\ m.features = Append(c.features, k)
               /\ m.cursor = Len(m.features)
<1>. DEFINE l == [c EXCEPT !.features = Append(@, k)]
            m == ToEnd(l)
<1>1. Append(c.features, k) \in Seq(Nat) /\ Len(Append(c.features, k)) \in Nat
  BY ContentsAre
<1>2. /\ l \in [features : Seq(Nat), cursor : Nat, hidden : BOOLEAN]
      /\ l.features = Append(c.features, k)
  BY <1>1 DEF Contents
<1>3. /\ m \in [features : Seq(Nat), cursor : Nat, hidden : BOOLEAN]
      /\ m.features = Append(c.features, k) /\ m.cursor = Len(m.features)
  BY <1>1, <1>2 DEF ToEnd
<1>. HIDE DEF l, m
<1>4. m \in Contents
  BY <1>1, <1>3 DEF Contents
<1>5. QED
  BY <1>3, <1>4 DEF l, m

\* A feature is replaced by another one (or by itself, if there is none).
LEMMA ReplacedContents ==
    ASSUME NEW c \in Contents, NEW i \in Nat, NEW k \in Nat
    PROVE  LET m == [c EXCEPT !.features[i] = k]
           IN  /\ m \in Contents
               /\ m.features = [c.features EXCEPT ![i] = k]
               /\ Len(m.features) = Len(c.features)
               /\ m.cursor = c.cursor
<1>. DEFINE f == [c.features EXCEPT ![i] = k]
            m == [c EXCEPT !.features[i] = k]
<1>1. f \in Seq(Nat) /\ Len(f) = Len(c.features)
  <2>1. c.features \in Seq(Nat)
    BY ContentsAre
  <2>2. CASE i \in 1..Len(c.features)
    BY <2>1, <2>2, ExceptSeq
  <2>3. CASE i \notin 1..Len(c.features)
    <3>1. f = c.features
      BY <2>1, <2>3
    <3>2. QED
      BY <2>1, <3>1
  <2>4. QED
    BY <2>2, <2>3
<1>2. m.features = f /\ m.cursor = c.cursor
  BY DEF Contents
<1>3. m \in [features : Seq(Nat), cursor : Nat, hidden : BOOLEAN]
  BY <1>1 DEF Contents
<1>. HIDE DEF f, m
<1>4. m \in Contents
  BY <1>1, <1>2, <1>3, ContentsAre DEF Contents
<1>5. QED
  BY <1>1, <1>2, <1>4 DEF f, m

LEMMA BlankTyped == Blank \in Contents /\ Len(Blank.features) = 0
BY DEF Blank, Contents

LEMMA NewDocumentTyped == NewDocument \in DocType
BY BlankTyped DEF NewDocument, DocType, Path

LEMMA CheckpointTyped ==
    ASSUME NEW r \in DocType PROVE Checkpoint(r) \in DocType
<1>1. Append(r.past, r.model) \in Seq(Contents) /\ <<>> \in Seq(Contents)
  BY DEF DocType
<1>2. QED
  BY <1>1 DEF Checkpoint, DocType

LEMMA MoveCursorTyped ==
    ASSUME NEW r \in DocType, NEW n \in 0..Len(r.model.features)
    PROVE  MoveCursor(r, n) \in DocType
<1>1. [r.model EXCEPT !.cursor = n] \in Contents
  BY MovedContents DEF DocType
<1>2. Checkpoint(r) \in DocType /\ Checkpoint(r).model = r.model
  BY CheckpointTyped DEF Checkpoint, DocType
<1>3. [Checkpoint(r) EXCEPT !.model.cursor = n] \in DocType
  BY <1>1, <1>2 DEF DocType
<1>4. QED
  BY <1>3 DEF MoveCursor

LEMMA AppendedTyped ==
    ASSUME NEW r \in DocType PROVE Appended(r) \in DocType
<1>. DEFINE m == [r.model EXCEPT !.features = Append(@, r.job)]
            e == ToEnd(m)
            c == Checkpoint(r)
<1>1. e \in Contents
  BY LongerContents DEF DocType
<1>2. c \in DocType
  BY CheckpointTyped
<1>. HIDE DEF e, c
<1>3. [c EXCEPT !.model = e] \in DocType
  BY <1>1, <1>2 DEF DocType
<1>4. QED
  BY <1>3 DEF Appended, c, e

LEMMA StageOpenTyped ==
    ASSUME NEW r \in DocType, NEW p \in Files
    PROVE  StageOpen(r, p) \in DocType /\ RequestOpen(r, p) \in DocType
<1>1. p \in Path /\ NoFile \in Path
  BY DEF Path
<1>2. StageOpen(r, p) \in DocType
  BY <1>1, ZenonT(60) DEF StageOpen, DocType
<1>3. [r EXCEPT !.asking = p] \in DocType
  BY <1>1 DEF DocType
<1>4. QED
  BY <1>2, <1>3 DEF RequestOpen

LEMMA SavedAtTyped ==
    ASSUME NEW r \in DocType, NEW p \in Files PROVE SavedAt(r, p) \in DocType
BY DEF SavedAt, DocType, Path

LEMMA LoadedTyped ==
    ASSUME NEW r \in DocType, NEW p \in Files, NEW suppressed \in BOOLEAN,
           file[p] \in Contents
    PROVE  Loaded(r, p, suppressed) \in DocType
<1>. DEFINE opened == IF suppressed THEN [file[p] EXCEPT !.hidden = ~@] ELSE file[p]
<1>1. opened \in Contents
  BY HiddenContents
<1>2. <<>> \in Seq(Contents) /\ p \in Path /\ NoFile \in Path
  BY DEF Path
<1>. HIDE DEF opened
<1>3. [r EXCEPT !.model = opened, !.past = <<>>, !.future = <<>>,
                !.dirty = suppressed, !.path = p,
                !.pending = "none", !.target = NoFile,
                !.kept = file[p], !.overtaken = FALSE] \in DocType
  BY <1>1, <1>2 DEF DocType
<1>4. QED
  BY <1>3 DEF Loaded, opened

LEMMA WithdrawnTyped ==
    ASSUME NEW r \in DocType PROVE Withdrawn(r) \in DocType
BY DEF Withdrawn, DocType

LEMMA CancelledTyped ==
    ASSUME NEW r \in DocType PROVE Cancelled(r) \in DocType
<1>. DEFINE idle == [r EXCEPT !.pending = "none", !.answered = Blank]
<1>1. idle \in DocType /\ [idle EXCEPT !.target = NoFile] \in DocType
      /\ idle.model = r.model
  BY BlankTyped DEF DocType, Path
<1>. HIDE DEF idle
<1>2. Withdrawn(idle) \in DocType /\ Withdrawn(idle).model = r.model
  BY <1>1, WithdrawnTyped DEF Withdrawn, DocType
<1>3. Len(r.model.features) \in 0..Len(Withdrawn(idle).model.features)
  BY <1>2, ContentsAre DEF DocType
<1>4. MoveCursor(Withdrawn(idle), Len(r.model.features)) \in DocType
  BY <1>2, <1>3, MoveCursorTyped
<1>5. QED
  BY <1>1, <1>2, <1>4 DEF Cancelled, idle

LEMMA EditAppliedTyped ==
    ASSUME NEW r \in DocType, NEW accepted \in BOOLEAN
    PROVE  EditApplied(r, accepted) \in DocType
<1>. DEFINE idle == [r EXCEPT !.pending = "none"]
            stored == Checkpoint(idle)
            changed == [r.model EXCEPT !.features[r.edited] = r.id]
            replaced == [stored EXCEPT !.model = changed]
<1>1. idle \in DocType /\ idle.model = r.model
  BY DEF DocType
<1>. HIDE DEF idle
<1>2. stored \in DocType
  BY <1>1, CheckpointTyped
<1>3. stored.model = r.model
  BY <1>1 DEF Checkpoint, DocType
<1>4. changed \in Contents /\ Len(changed.features) = Len(r.model.features)
  BY ReplacedContents DEF DocType
<1>. HIDE DEF changed, stored
<1>5. replaced \in DocType /\ replaced.model = changed
  BY <1>2, <1>4 DEF DocType
<1>. HIDE DEF replaced
<1>6. /\ Len(r.model.features) \in 0..Len(idle.model.features)
      /\ Len(r.model.features) \in 0..Len(replaced.model.features)
  BY <1>1, <1>4, <1>5, ContentsAre DEF DocType
<1>7. /\ MoveCursor(idle, Len(r.model.features)) \in DocType
      /\ MoveCursor(replaced, Len(r.model.features)) \in DocType
  BY <1>1, <1>5, <1>6, MoveCursorTyped
<1>8. [stored EXCEPT !.model.features[r.edited] = r.id] = replaced
  BY <1>3 DEF replaced, changed
<1>9. QED
  BY <1>7, <1>8 DEF EditApplied, idle, stored

LEMMA LandedTyped ==
    ASSUME NEW r \in DocType
    PROVE  Landed(r) \in DocType /\ Rejected(r) \in DocType
<1>. DEFINE a == Appended(r)
<1>1. a \in DocType
  BY AppendedTyped
<1>. HIDE DEF a
<1>2. [a EXCEPT !.pending = "none", !.running = "none"] \in DocType
  BY <1>1 DEF DocType
<1>3. [r EXCEPT !.running = "none"] \in DocType
  BY DEF DocType
<1>4. QED
  BY <1>2, <1>3 DEF Landed, Rejected, a

-----------------------------------------------------------------------------
(* The features a document can show: those of its present, and of the      *)
(* states undo and redo can bring back.                                    *)

Named(c) == ToSet(c.features)
States(r) == {r.model} \cup ToSet(r.past) \cup ToSet(r.future)
Ids(r) == UNION {Named(c) : c \in States(r)}

\* What an operation does not touch that only changes what the document holds.
Untouched(r, s) ==
    /\ s.pending = r.pending /\ s.edited = r.edited /\ s.id = r.id
    /\ s.base = r.base /\ s.job = r.job /\ s.running = r.running
    /\ s.kept = r.kept /\ s.answered = r.answered
    /\ s.overtaken = r.overtaken /\ s.withdrawn = r.withdrawn

LEMMA SetOfLonger ==
    ASSUME NEW S, NEW s \in Seq(S), NEW x \in S
    PROVE  ToSet(Append(s, x)) = ToSet(s) \cup {x}
<1>1. /\ DOMAIN Append(s, x) = 1..(Len(s) + 1) /\ DOMAIN s = 1..Len(s)
      /\ Len(s) \in Nat
  OBVIOUS
<1>2. \A i \in 1..(Len(s) + 1) :
          Append(s, x)[i] = IF i = Len(s) + 1 THEN x ELSE s[i]
  OBVIOUS
<1>3. QED
  BY <1>1, <1>2 DEF ToSet

LEMMA FrontAndLast ==
    ASSUME NEW S, NEW s \in Seq(S), s # <<>>
    PROVE  /\ Front(s) \in Seq(S) /\ Last(s) \in S
           /\ ToSet(Front(s)) \subseteq ToSet(s) /\ Last(s) \in ToSet(s)
<1>1. Len(s) \in Nat \ {0} /\ DOMAIN s = 1..Len(s)
  OBVIOUS
<1>2. /\ Front(s) \in Seq(S) /\ Len(Front(s)) = Len(s) - 1
      /\ \A i \in 1..(Len(s) - 1) : Front(s)[i] = s[i]
  BY <1>1 DEF Front
<1>3. DOMAIN Front(s) = 1..(Len(s) - 1)
  BY <1>1, <1>2
<1>4. QED
  BY <1>1, <1>2, <1>3 DEF ToSet, Last

LEMMA StatesAreContents ==
    ASSUME NEW r \in DocType
    PROVE  /\ States(r) \subseteq Contents
           /\ r.model \in States(r)
           /\ Named(r.model) \subseteq Ids(r)
<1>1. r.model \in Contents /\ r.past \in Seq(Contents) /\ r.future \in Seq(Contents)
  BY DEF DocType
<1>2. ToSet(r.past) \subseteq Contents /\ ToSet(r.future) \subseteq Contents
  BY <1>1 DEF ToSet
<1>3. QED
  BY <1>1, <1>2 DEF States, Ids

LEMMA CheckpointFacts ==
    ASSUME NEW r \in DocType
    PROVE  LET s == Checkpoint(r)
           IN  /\ s \in DocType /\ Untouched(r, s)
               /\ s.model = r.model /\ s.dirty
               /\ s.past = Append(r.past, r.model) /\ s.future = <<>>
               /\ ToSet(s.past) \cup ToSet(s.future) \subseteq States(r)
<1>. DEFINE s == Checkpoint(r)
<1>1. /\ Untouched(r, s) /\ s.model = r.model /\ s.dirty
      /\ s.past = Append(r.past, r.model) /\ s.future = <<>>
  BY DEF Checkpoint, DocType, Untouched
<1>2. r.model \in Contents /\ r.past \in Seq(Contents)
  BY DEF DocType
<1>3. ToSet(Append(r.past, r.model)) = ToSet(r.past) \cup {r.model}
  BY <1>2, SetOfLonger
<1>4. ToSet(<<>>) = {}
  BY DEF ToSet
<1>5. QED
  BY <1>1, <1>3, <1>4, CheckpointTyped DEF States

\* A checkpoint, and a present of its own.
LEMMA CheckpointWith ==
    ASSUME NEW r \in DocType, NEW m \in Contents
    PROVE  LET s == [Checkpoint(r) EXCEPT !.model = m]
           IN  /\ s \in DocType /\ Untouched(r, s)
               /\ s.model = m /\ s.dirty
               /\ Ids(s) \subseteq Ids(r) \cup Named(m)
<1>. DEFINE c == Checkpoint(r)
            s == [c EXCEPT !.model = m]
<1>1. /\ c \in DocType /\ Untouched(r, c) /\ c.dirty
      /\ ToSet(c.past) \cup ToSet(c.future) \subseteq States(r)
  BY CheckpointFacts
<1>. HIDE DEF c
<1>2. /\ s \in DocType /\ s.model = m /\ s.dirty
      /\ s.past = c.past /\ s.future = c.future
  BY <1>1 DEF DocType
<1>3. Untouched(r, s)
  BY <1>1 DEF DocType, Untouched
<1>. HIDE DEF s
<1>4. States(s) \subseteq States(r) \cup {m}
  BY <1>1, <1>2 DEF States
<1>5. Ids(s) \subseteq Ids(r) \cup Named(m)
  BY <1>4 DEF Ids
<1>6. QED
  BY <1>2, <1>3, <1>5 DEF s, c

LEMMA MoveCursorFacts ==
    ASSUME NEW r \in DocType, NEW n \in 0..Len(r.model.features)
    PROVE  LET s == MoveCursor(r, n)
           IN  /\ s \in DocType /\ Untouched(r, s)
               /\ s.model.features = r.model.features /\ s.model.cursor = n
               /\ s.dirty \/ (s.model = r.model /\ s.dirty = r.dirty)
               /\ Ids(s) \subseteq Ids(r)
<1>1. CASE r.model.cursor = n
  <2>1. MoveCursor(r, n) = r
    BY <1>1 DEF MoveCursor
  <2>2. QED
    BY <1>1, <2>1 DEF Untouched
<1>2. CASE r.model.cursor # n
  <2>. DEFINE m == [r.model EXCEPT !.cursor = n]
  <2>1. m \in Contents /\ m.features = r.model.features /\ m.cursor = n
    BY MovedContents DEF DocType
  <2>2. MoveCursor(r, n) = [Checkpoint(r) EXCEPT !.model = m]
    BY <1>2, CheckpointFacts DEF MoveCursor, DocType
  <2>3. Named(m) \subseteq Ids(r)
    BY <2>1, StatesAreContents DEF Named
  <2>. HIDE DEF m
  <2>. DEFINE s == [Checkpoint(r) EXCEPT !.model = m]
  <2>4. /\ s \in DocType /\ Untouched(r, s) /\ s.model = m /\ s.dirty
        /\ Ids(s) \subseteq Ids(r) \cup Named(m)
    BY <2>1, CheckpointWith
  <2>. HIDE DEF s
  <2>5. MoveCursor(r, n) = s
    BY <2>2 DEF s
  <2>6. Ids(s) \subseteq Ids(r)
    BY <2>3, <2>4
  <2>7. QED
    BY <2>1, <2>4, <2>5, <2>6
<1>3. QED
  BY <1>1, <1>2

LEMMA AppendedFacts ==
    ASSUME NEW r \in DocType
    PROVE  LET s == Appended(r)
           IN  /\ s \in DocType /\ Untouched(r, s)
               /\ AtEnd(s.model) /\ s.dirty
               /\ Ids(s) \subseteq Ids(r) \cup {r.job}
<1>. DEFINE m == ToEnd([r.model EXCEPT !.features = Append(@, r.job)])
<1>1. /\ m \in Contents /\ AtEnd(m)
      /\ m.features = Append(r.model.features, r.job)
  BY LongerContents DEF DocType, AtEnd
<1>2. Named(m) = Named(r.model) \cup {r.job}
  <2>1. r.model.features \in Seq(Nat) /\ r.job \in Nat
    BY ContentsAre DEF DocType
  <2>2. ToSet(Append(r.model.features, r.job)) = ToSet(r.model.features) \cup {r.job}
    <3>1. ASSUME NEW f \in Seq(Nat), NEW k \in Nat
          PROVE  ToSet(Append(f, k)) = ToSet(f) \cup {k}
      BY SetOfLonger
    <3>2. QED
      BY ONLY <2>1, <3>1
  <2>. HIDE DEF m
  <2>3. QED
    BY <1>1, <2>2 DEF Named
<1>. HIDE DEF m
<1>. DEFINE s == [Checkpoint(r) EXCEPT !.model = m]
<1>3. /\ s \in DocType /\ Untouched(r, s) /\ s.model = m /\ s.dirty
      /\ Ids(s) \subseteq Ids(r) \cup Named(m)
  BY <1>1, CheckpointWith
<1>. HIDE DEF s
<1>4. Appended(r) = s
  BY DEF Appended, s, m
<1>5. Named(r.model) \subseteq Ids(r)
  BY StatesAreContents
<1>6. Ids(s) \subseteq Ids(r) \cup {r.job}
  BY <1>2, <1>3, <1>5
<1>7. QED
  BY <1>1, <1>3, <1>4, <1>6

LEMMA ReplacedFacts ==
    ASSUME NEW r \in DocType, NEW k \in Nat, NEW i \in Nat
    PROVE  LET s == [Checkpoint(r) EXCEPT !.model.features[i] = k]
           IN  /\ s \in DocType /\ Untouched(r, s)
               /\ Len(s.model.features) = Len(r.model.features)
               /\ s.dirty /\ Ids(s) \subseteq Ids(r) \cup {k}
<1>. DEFINE m == [r.model EXCEPT !.features[i] = k]
<1>1. /\ m \in Contents /\ Len(m.features) = Len(r.model.features)
      /\ m.features = [r.model.features EXCEPT ![i] = k]
  BY ReplacedContents DEF DocType
<1>2. Named(m) \subseteq Named(r.model) \cup {k}
  <2>1. r.model.features \in Seq(Nat)
    BY ContentsAre DEF DocType
  <2>. DEFINE f == r.model.features
              g == [f EXCEPT ![i] = k]
  <2>2. DOMAIN g = DOMAIN f /\ \A j \in DOMAIN f : g[j] \in {f[j], k}
    BY <2>1
  <2>3. m.features = g
    BY <1>1
  <2>. HIDE DEF m, g
  <2>4. QED
    BY <2>2, <2>3 DEF Named, ToSet
<1>3. Checkpoint(r).model = r.model
  BY DEF Checkpoint, DocType
<1>. DEFINE c == Checkpoint(r)
            s == [c EXCEPT !.model = m]
<1>4. [c EXCEPT !.model.features[i] = k] = s
  BY <1>3
<1>. HIDE DEF m
<1>5. /\ s \in DocType /\ Untouched(r, s) /\ s.model = m /\ s.dirty
      /\ Ids(s) \subseteq Ids(r) \cup Named(m)
  BY <1>1, CheckpointWith
<1>. HIDE DEF s
<1>6. Named(r.model) \subseteq Ids(r)
  BY StatesAreContents
<1>7. Ids(s) \subseteq Ids(r) \cup {k}
  BY <1>2, <1>5, <1>6
<1>8. QED
  BY <1>1, <1>4, <1>5, <1>7

-----------------------------------------------------------------------------
(* What every operation keeps of a document, and what becomes of the names *)
(* of features.                                                            *)

\* A document that is not marked holds what its file was given.
Honest(r) == r.dirty \/ r.model = r.kept

\* OneOperationAtATime of a document, with what it needs: an extrusion is
\* staged at the end of history, whether it is computed yet or not.
Steady(r) ==
    ~r.overtaken =>
        /\ r.running # "none" => r.pending = "extrude" /\ r.base = r.model.features
        /\ r.pending = "extrude" => AtEnd(r.model)
        /\ r.pending = "edit" => r.model.cursor = r.edited - 1

DocOK(r) == r \in DocType /\ Honest(r) /\ Steady(r)

\* The features that are still to come: of the extrusion that is computed and
\* of the edit that is pending.
Coming(r) ==
    (IF r.running = "none" THEN {} ELSE {r.job})
        \cup (IF r.pending = "edit" THEN {r.id} ELSE {})

\* A feature comes to a document from a file or from what was still to come;
\* it is taken back only while it was, and never both; and a new one is new
\* (n is spent before, m after).
Fate(r, s, disk, n, m) ==
    /\ Ids(s) \subseteq Ids(r) \cup disk \cup (Coming(r) \ Coming(s))
    /\ s.withdrawn \subseteq r.withdrawn \cup (Coming(r) \ Coming(s))
    /\ Ids(s) \subseteq Ids(r) \cup disk \/ s.withdrawn \subseteq r.withdrawn
    /\ Coming(s) \subseteq Coming(r) \cup {k \in Nat : n < k /\ k <= m}

\* Most operations bring nothing.
Quiet(r, s) ==
    /\ Ids(s) \subseteq Ids(r)
    /\ s.withdrawn = r.withdrawn
    /\ Coming(s) \subseteq Coming(r)

LEMMA QuietFate ==
    ASSUME NEW r, NEW s, Quiet(r, s), NEW disk, NEW n, NEW m
    PROVE  Fate(r, s, disk, n, m)
BY DEF Quiet, Fate

\* The present and the journals stay as they are.
LEMMA SameIds ==
    ASSUME NEW r, NEW s,
           s.model = r.model, s.past = r.past, s.future = r.future
    PROVE  Ids(s) = Ids(r)
BY DEF Ids, States

LEMMA StageExtrusionKeeps ==
    ASSUME NEW r, DocOK(r), r.pending = "none", AtEnd(r.model)
    PROVE  LET s == [r EXCEPT !.pending = "extrude", !.base = r.model.features]
           IN  DocOK(s) /\ Quiet(r, s)
<1>. DEFINE s == [r EXCEPT !.pending = "extrude", !.base = r.model.features]
<1>1. /\ s.pending = "extrude" /\ s.base = r.model.features
      /\ s.model = r.model /\ s.past = r.past /\ s.future = r.future
      /\ s.dirty = r.dirty /\ s.kept = r.kept /\ s.running = r.running
      /\ s.overtaken = r.overtaken /\ s.withdrawn = r.withdrawn /\ s.job = r.job
  BY DEF DocOK, DocType
<1>2. s \in DocType
  BY ContentsAre DEF DocOK, DocType
<1>. HIDE DEF s
<1>3. DocOK(s)
  BY <1>1, <1>2 DEF DocOK, Honest, Steady
<1>4. Quiet(r, s)
  BY <1>1, SameIds DEF Quiet, Coming
<1>5. QED
  BY <1>3, <1>4 DEF s

LEMMA MoveCursorKeeps ==
    ASSUME NEW r, DocOK(r), NEW n \in 0..Len(r.model.features),
           r.overtaken \/ r.pending \notin {"extrude", "edit"}
    PROVE  DocOK(MoveCursor(r, n)) /\ Quiet(r, MoveCursor(r, n))
<1>. DEFINE s == MoveCursor(r, n)
<1>1. /\ s \in DocType /\ Untouched(r, s) /\ Ids(s) \subseteq Ids(r)
      /\ s.dirty \/ (s.model = r.model /\ s.dirty = r.dirty)
      /\ s.model.features = r.model.features
  BY MoveCursorFacts DEF DocOK
<1>. HIDE DEF s
<1>2. Honest(s)
  BY <1>1 DEF DocOK, Honest, Untouched
<1>3. Steady(s)
  BY <1>1 DEF DocOK, Steady, Untouched
<1>4. Quiet(r, s)
  BY <1>1 DEF Quiet, Coming, Untouched
<1>5. QED
  BY <1>1, <1>2, <1>3, <1>4 DEF s, DocOK

LEMMA StageEditKeeps ==
    ASSUME NEW r, DocOK(r), r.pending = "none", NEW n \in Nat, NEW disk,
           NEW i \in 1..Len(r.model.features)
    PROVE  LET rolled == MoveCursor(r, i - 1)
               s == [rolled EXCEPT !.pending = "edit", !.edited = i, !.id = n + 1]
               back == MoveCursor(rolled, Len(rolled.model.features))
           IN  /\ DocOK(s) /\ Fate(r, s, disk, n, n + 1)
               /\ DocOK(back) /\ Quiet(r, back)
<1>. DEFINE rolled == MoveCursor(r, i - 1)
            s == [rolled EXCEPT !.pending = "edit", !.edited = i, !.id = n + 1]
            back == MoveCursor(rolled, Len(rolled.model.features))
<1>1. r \in DocType /\ Len(r.model.features) \in Nat
  BY ContentsAre DEF DocOK, DocType
<1>2. i - 1 \in 0..Len(r.model.features)
  BY <1>1
<1>3. /\ rolled \in DocType /\ Untouched(r, rolled)
      /\ rolled.model.features = r.model.features /\ rolled.model.cursor = i - 1
  BY <1>1, <1>2, MoveCursorFacts
<1>4. DocOK(rolled) /\ Quiet(r, rolled)
  BY <1>2, MoveCursorKeeps
<1>5. Len(rolled.model.features) \in 0..Len(rolled.model.features)
  BY <1>1, <1>3
<1>. HIDE DEF rolled
<1>6. DocOK(back) /\ Quiet(r, back)
  <2>1. DocOK(back) /\ Quiet(rolled, back)
    BY <1>3, <1>4, <1>5, MoveCursorKeeps DEF Untouched
  <2>2. QED
    BY <1>4, <2>1 DEF Quiet
<1>7. /\ s.pending = "edit" /\ s.edited = i /\ s.id = n + 1
      /\ s.model = rolled.model /\ s.past = rolled.past /\ s.future = rolled.future
      /\ s.dirty = rolled.dirty /\ s.kept = rolled.kept
      /\ s.running = rolled.running /\ s.overtaken = rolled.overtaken
      /\ s.withdrawn = rolled.withdrawn /\ s.job = rolled.job
  BY <1>3 DEF DocType
<1>8. s \in DocType
  <2>1. ASSUME NEW j \in Nat, NEW k \in Nat
        PROVE  [rolled EXCEPT !.pending = "edit", !.edited = j, !.id = k] \in DocType
    BY <1>3 DEF DocType
  <2>2. i \in Nat /\ n + 1 \in Nat
    BY <1>1
  <2>3. QED
    BY <2>1, <2>2
<1>. HIDE DEF s
<1>9. DocOK(s)
  BY <1>3, <1>4, <1>7, <1>8 DEF DocOK, Honest, Steady, Untouched
<1>10. Fate(r, s, disk, n, n + 1)
  <2>1. Ids(s) \subseteq Ids(r)
    BY <1>4, <1>7, SameIds DEF Quiet
  <2>2. s.withdrawn = r.withdrawn
    BY <1>4, <1>7 DEF Quiet
  <2>3. Coming(s) \subseteq Coming(r) \cup {n + 1}
    BY <1>3, <1>7 DEF Coming, Untouched
  <2>4. QED
    BY <2>1, <2>2, <2>3 DEF Fate
<1>11. QED
  BY <1>6, <1>9, <1>10 DEF s, rolled

LEMMA ConfirmExtrusionKeeps ==
    ASSUME NEW r, DocOK(r), r.pending = "extrude", r.running = "none",
           r.base = r.model.features, NEW n \in Nat, NEW disk
    PROVE  LET s == [r EXCEPT !.running = "computing", !.job = n + 1]
           IN  DocOK(s) /\ Fate(r, s, disk, n, n + 1)
<1>. DEFINE s == [r EXCEPT !.running = "computing", !.job = n + 1]
<1>1. /\ s.pending = "extrude" /\ s.base = r.base
      /\ s.model = r.model /\ s.past = r.past /\ s.future = r.future
      /\ s.dirty = r.dirty /\ s.kept = r.kept /\ s.running = "computing"
      /\ s.overtaken = r.overtaken /\ s.withdrawn = r.withdrawn /\ s.job = n + 1
  BY DEF DocOK, DocType
<1>2. s \in DocType
  <2>1. ASSUME NEW k \in Nat
        PROVE  [r EXCEPT !.running = "computing", !.job = k] \in DocType
    BY DEF DocOK, DocType
  <2>2. n + 1 \in Nat
    OBVIOUS
  <2>3. QED
    BY <2>1, <2>2
<1>. HIDE DEF s
<1>3. DocOK(s)
  BY <1>1, <1>2 DEF DocOK, Honest, Steady
<1>4. Fate(r, s, disk, n, n + 1)
  <2>1. Ids(s) = Ids(r) /\ Coming(s) = {n + 1}
    BY <1>1, SameIds DEF Coming
  <2>2. QED
    BY <1>1, <2>1 DEF Fate
<1>5. QED
  BY <1>3, <1>4 DEF s

LEMMA StageOpenKeeps ==
    ASSUME NEW r, DocOK(r), NEW p \in Files
    PROVE  /\ DocOK(StageOpen(r, p)) /\ Quiet(r, StageOpen(r, p))
           /\ DocOK(RequestOpen(r, p)) /\ Quiet(r, RequestOpen(r, p))
<1>. DEFINE s == StageOpen(r, p)
            a == [r EXCEPT !.asking = p]
<1>1. s \in DocType /\ RequestOpen(r, p) \in DocType
  BY StageOpenTyped DEF DocOK
<1>2. /\ s.pending = "open" /\ s.model = r.model /\ s.past = r.past
      /\ s.future = r.future /\ s.dirty = r.dirty /\ s.kept = r.kept
      /\ s.running = r.running /\ s.withdrawn = r.withdrawn /\ s.job = r.job
      /\ s.overtaken = (r.overtaken \/ r.pending # "none" \/ r.running # "none")
  BY DEF StageOpen, DocOK, DocType
<1>3. /\ a.model = r.model /\ a.past = r.past /\ a.future = r.future
      /\ a.dirty = r.dirty /\ a.kept = r.kept /\ a.withdrawn = r.withdrawn
      /\ a.pending = r.pending /\ a.base = r.base /\ a.edited = r.edited
      /\ a.id = r.id /\ a.running = r.running /\ a.job = r.job
      /\ a.overtaken = r.overtaken
  BY DEF DocOK, DocType
<1>. HIDE DEF s, a
<1>4. DocOK(s) /\ Quiet(r, s)
  BY <1>1, <1>2, SameIds DEF DocOK, Honest, Steady, Quiet, Coming
<1>5. /\ Honest(a) /\ Steady(a) /\ Quiet(r, a)
  BY <1>3, SameIds DEF DocOK, Honest, Steady, Quiet, Coming
<1>6. RequestOpen(r, p) \in {s, a}
  BY DEF RequestOpen, s, a
<1>7. QED
  BY <1>1, <1>4, <1>5, <1>6 DEF DocOK, s

LEMMA SavedAtKeeps ==
    ASSUME NEW r, DocOK(r), NEW p \in Files
    PROVE  /\ DocOK(SavedAt(r, p)) /\ Quiet(r, SavedAt(r, p))
           /\ Ids(SavedAt(r, p)) = Ids(r) /\ Coming(SavedAt(r, p)) = Coming(r)
           /\ SavedAt(r, p).model = r.model /\ SavedAt(r, p).kept = r.model
           /\ SavedAt(r, p).answered = r.answered
<1>. DEFINE s == SavedAt(r, p)
<1>1. /\ s.model = r.model /\ s.past = r.past /\ s.future = r.future
      /\ s.kept = r.model /\ s.withdrawn = r.withdrawn
      /\ s.pending = r.pending /\ s.base = r.base /\ s.edited = r.edited
      /\ s.id = r.id /\ s.running = r.running /\ s.job = r.job
      /\ s.overtaken = r.overtaken /\ s.answered = r.answered
  BY DEF SavedAt, DocOK, DocType
<1>2. s \in DocType
  BY SavedAtTyped DEF DocOK
<1>. HIDE DEF s
<1>3. QED
  BY <1>1, <1>2, SameIds DEF DocOK, Honest, Steady, Quiet, Coming, s

LEMMA LoadedKeeps ==
    ASSUME NEW r, DocOK(r), NEW p \in Files, NEW suppressed \in BOOLEAN,
           file[p] \in Contents, r.running = "none",
           NEW disk, Named(file[p]) \subseteq disk, NEW n, NEW m
    PROVE  LET s == Loaded(r, p, suppressed)
           IN  DocOK(s) /\ Fate(r, s, disk, n, m)
<1>. DEFINE opened == IF suppressed THEN [file[p] EXCEPT !.hidden = ~@] ELSE file[p]
            s == Loaded(r, p, suppressed)
<1>1. opened.features = file[p].features
  BY HiddenContents
<1>2. ~suppressed => opened = file[p]
  OBVIOUS
<1>3. s = [r EXCEPT !.model = opened, !.past = <<>>, !.future = <<>>,
                    !.dirty = suppressed, !.path = p,
                    !.pending = "none", !.target = NoFile,
                    !.kept = file[p], !.overtaken = FALSE]
  BY DEF Loaded
<1>4. s \in DocType
  BY LoadedTyped DEF DocOK
<1>. HIDE DEF opened
<1>5. /\ s.model = opened /\ s.past = <<>> /\ s.future = <<>>
      /\ s.dirty = suppressed /\ s.kept = file[p] /\ s.pending = "none"
      /\ s.running = "none" /\ s.withdrawn = r.withdrawn
  BY <1>3 DEF DocOK, DocType
<1>. HIDE DEF s
<1>6. DocOK(s)
  BY <1>2, <1>4, <1>5 DEF DocOK, Honest, Steady
<1>7. Ids(s) \subseteq disk
  <2>1. States(s) = {opened}
    BY <1>5 DEF States, ToSet
  <2>2. QED
    BY <1>1, <2>1 DEF Ids, Named
<1>8. Coming(s) = {}
  BY <1>5 DEF Coming
<1>9. Fate(r, s, disk, n, m)
  BY <1>5, <1>7, <1>8 DEF Fate
<1>10. QED
  BY <1>6, <1>9 DEF s

LEMMA WithdrawnKeeps ==
    ASSUME NEW r, r \in DocType
    PROVE  LET s == Withdrawn(r)
           IN  /\ s \in DocType /\ Ids(s) = Ids(r) /\ s.running = "none"
               /\ s.model = r.model /\ s.dirty = r.dirty /\ s.kept = r.kept
               /\ s.pending = r.pending
               /\ s.withdrawn =
                      IF r.running = "none" THEN r.withdrawn ELSE r.withdrawn \cup {r.job}
<1>. DEFINE s == Withdrawn(r)
<1>1. /\ s.model = r.model /\ s.past = r.past /\ s.future = r.future
      /\ s.dirty = r.dirty /\ s.kept = r.kept
      /\ s.running = "none" /\ s.pending = r.pending
      /\ s.withdrawn =
             IF r.running = "none" THEN r.withdrawn ELSE r.withdrawn \cup {r.job}
  BY DEF Withdrawn, DocType
<1>2. s \in DocType
  BY WithdrawnTyped
<1>. HIDE DEF s
<1>3. QED
  BY <1>1, <1>2, SameIds DEF s

LEMMA CancelledKeeps ==
    ASSUME NEW r, DocOK(r), r.pending # "none", NEW disk, NEW n, NEW m
    PROVE  DocOK(Cancelled(r)) /\ Fate(r, Cancelled(r), disk, n, m)
<1>. DEFINE idle == [r EXCEPT !.pending = "none", !.answered = Blank]
            free == [idle EXCEPT !.target = NoFile]
            w == Withdrawn(idle)
            back == MoveCursor(w, Len(r.model.features))
<1>1. /\ idle.model = r.model /\ idle.past = r.past /\ idle.future = r.future
      /\ idle.dirty = r.dirty /\ idle.kept = r.kept /\ idle.pending = "none"
      /\ idle.running = r.running /\ idle.withdrawn = r.withdrawn
      /\ idle.job = r.job /\ idle.overtaken = r.overtaken
  BY DEF DocOK, DocType
<1>2. /\ free.model = r.model /\ free.past = r.past /\ free.future = r.future
      /\ free.dirty = r.dirty /\ free.kept = r.kept /\ free.pending = "none"
      /\ free.running = r.running /\ free.withdrawn = r.withdrawn
      /\ free.job = r.job /\ free.overtaken = r.overtaken
  BY DEF DocOK, DocType
<1>3. idle \in DocType /\ free \in DocType
  BY BlankTyped DEF DocOK, DocType, Path
<1>4. /\ r.pending = "open" => Cancelled(r) = free
      /\ r.pending = "extrude" => Cancelled(r) = w
      /\ r.pending = "edit" => Cancelled(r) = back
  BY DEF Cancelled
<1>5. r.pending \in {"extrude", "edit", "open"}
  BY DEF DocOK, DocType
<1>. HIDE DEF idle, free
<1>6. Ids(idle) = Ids(r) /\ Ids(free) = Ids(r)
  BY <1>1, <1>2, SameIds
<1>7. /\ w \in DocType /\ Ids(w) = Ids(r) /\ w.running = "none"
      /\ w.model = r.model /\ w.dirty = r.dirty /\ w.kept = r.kept
      /\ w.pending = "none"
      /\ w.withdrawn =
             IF r.running = "none" THEN r.withdrawn ELSE r.withdrawn \cup {r.job}
  BY <1>1, <1>3, <1>6, WithdrawnKeeps
<1>. HIDE DEF w
<1>8. CASE r.pending = "open"
  <2>1. DocOK(free)
    BY <1>2, <1>3, <1>8 DEF DocOK, Honest, Steady
  <2>2. Quiet(r, free)
    BY <1>2, <1>6 DEF Quiet, Coming
  <2>3. QED
    BY <1>4, <1>8, <2>1, <2>2, QuietFate
<1>9. CASE r.pending = "extrude"
  <2>1. DocOK(w)
    BY <1>7 DEF DocOK, Honest, Steady
  <2>2. Coming(w) = {} /\ (r.running # "none" => r.job \in Coming(r))
    BY <1>7 DEF Coming
  <2>3. Fate(r, w, disk, n, m)
    BY <1>7, <2>2 DEF Fate
  <2>4. QED
    BY <1>4, <1>9, <2>1, <2>3
<1>10. CASE r.pending = "edit"
  <2>1. DocOK(w)
    BY <1>7 DEF DocOK, Honest, Steady
  <2>2. Len(r.model.features) \in 0..Len(w.model.features)
    BY <1>7, ContentsAre DEF DocType
  <2>3. DocOK(back) /\ Quiet(w, back)
    BY <1>7, <2>1, <2>2, MoveCursorKeeps
  <2>. HIDE DEF back
  <2>4. Coming(w) = {} /\ (r.running # "none" => r.job \in Coming(r))
    BY <1>7 DEF Coming
  <2>5. Fate(r, back, disk, n, m)
    BY <1>7, <2>3, <2>4 DEF Fate, Quiet
  <2>6. QED
    BY <1>4, <1>10, <2>3, <2>5
<1>11. QED
  BY <1>5, <1>8, <1>9, <1>10

LEMMA EditAppliedKeeps ==
    ASSUME NEW r, DocOK(r), r.pending = "edit", r.running = "none",
           NEW accepted \in BOOLEAN, NEW disk, NEW n, NEW m
    PROVE  LET s == EditApplied(r, accepted)
           IN  DocOK(s) /\ Fate(r, s, disk, n, m)
<1>. DEFINE idle == [r EXCEPT !.pending = "none"]
            Renamed(i, k) == [Checkpoint(idle) EXCEPT !.model.features[i] = k]
            replaced == Renamed(r.edited, r.id)
            c == IF accepted THEN replaced ELSE idle
            s == MoveCursor(c, Len(r.model.features))
<1>1. /\ idle.model = r.model /\ idle.past = r.past /\ idle.future = r.future
      /\ idle.dirty = r.dirty /\ idle.kept = r.kept /\ idle.pending = "none"
      /\ idle.running = "none" /\ idle.withdrawn = r.withdrawn
  BY DEF DocOK, DocType
<1>2. idle \in DocType /\ r.edited \in Nat /\ r.id \in Nat
  BY DEF DocOK, DocType
<1>. HIDE DEF idle
<1>3. Ids(idle) = Ids(r)
  BY <1>1, SameIds
<1>4. /\ replaced \in DocType /\ Untouched(idle, replaced) /\ replaced.dirty
      /\ Len(replaced.model.features) = Len(r.model.features)
      /\ Ids(replaced) \subseteq Ids(r) \cup {r.id}
  <2>1. ASSUME NEW i \in Nat, NEW k \in Nat
        PROVE  /\ Renamed(i, k) \in DocType /\ Untouched(idle, Renamed(i, k))
               /\ Renamed(i, k).dirty
               /\ Len(Renamed(i, k).model.features) = Len(idle.model.features)
               /\ Ids(Renamed(i, k)) \subseteq Ids(idle) \cup {k}
    BY <1>2, ReplacedFacts
  <2>. HIDE DEF Renamed
  <2>2. QED
    BY <1>1, <1>2, <1>3, <2>1
<1>. HIDE DEF replaced
<1>5. /\ c \in DocType /\ Honest(c) /\ c.pending = "none" /\ c.running = "none"
      /\ Len(c.model.features) = Len(r.model.features)
      /\ Ids(c) \subseteq Ids(r) \cup {r.id} /\ c.withdrawn = r.withdrawn
  BY <1>1, <1>2, <1>3, <1>4 DEF DocOK, Honest, Untouched
<1>. HIDE DEF c
<1>6. DocOK(c) /\ Len(r.model.features) \in 0..Len(c.model.features)
  BY <1>5, ContentsAre DEF DocOK, Steady, DocType
<1>7. DocOK(s) /\ Quiet(c, s)
  BY <1>5, <1>6, MoveCursorKeeps
<1>8. EditApplied(r, accepted) = s
  BY DEF EditApplied, c, replaced, Renamed, idle
<1>. HIDE DEF s
<1>9. Coming(c) = {} /\ r.id \in Coming(r)
  BY <1>5 DEF Coming
<1>10. Fate(r, s, disk, n, m)
  BY <1>5, <1>7, <1>9 DEF Fate, Quiet
<1>11. QED
  BY <1>7, <1>8, <1>10

LEMMA LandedKeeps ==
    ASSUME NEW r, DocOK(r), r.running = "ok", NEW disk, NEW n, NEW m
    PROVE  DocOK(Landed(r)) /\ Fate(r, Landed(r), disk, n, m)
<1>. DEFINE a == Appended(r)
            s == [a EXCEPT !.pending = "none", !.running = "none"]
<1>1. /\ a \in DocType /\ Untouched(r, a) /\ a.dirty
      /\ Ids(a) \subseteq Ids(r) \cup {r.job}
  BY AppendedFacts DEF DocOK
<1>2. Landed(r) = s
  BY DEF Landed
<1>. HIDE DEF a
<1>3. /\ s.model = a.model /\ s.past = a.past /\ s.future = a.future
      /\ s.dirty = a.dirty /\ s.withdrawn = a.withdrawn
      /\ s.pending = "none" /\ s.running = "none"
  BY <1>1 DEF DocType
<1>4. s \in DocType
  BY <1>1 DEF DocType
<1>. HIDE DEF s
<1>5. DocOK(s)
  BY <1>1, <1>3, <1>4 DEF DocOK, Honest, Steady
<1>6. Ids(s) \subseteq Ids(r) \cup {r.job} /\ s.withdrawn = r.withdrawn
  BY <1>1, <1>3, SameIds DEF Untouched
<1>7. Coming(s) = {} /\ r.job \in Coming(r)
  BY <1>3 DEF Coming
<1>8. Fate(r, s, disk, n, m)
  BY <1>6, <1>7 DEF Fate
<1>9. QED
  BY <1>2, <1>5, <1>8

LEMMA RunningKeeps ==
    ASSUME NEW r, DocOK(r), r.running # "none", NEW result \in {"none", "ok", "failed"}
    PROVE  LET s == [r EXCEPT !.running = result]
           IN  DocOK(s) /\ Quiet(r, s)
<1>. DEFINE s == [r EXCEPT !.running = result]
<1>1. /\ s.model = r.model /\ s.past = r.past /\ s.future = r.future
      /\ s.dirty = r.dirty /\ s.kept = r.kept /\ s.withdrawn = r.withdrawn
      /\ s.pending = r.pending /\ s.base = r.base /\ s.edited = r.edited
      /\ s.id = r.id /\ s.running = result /\ s.job = r.job
      /\ s.overtaken = r.overtaken
  BY DEF DocOK, DocType
<1>2. s \in DocType
  BY DEF DocOK, DocType
<1>. HIDE DEF s
<1>3. QED
  BY <1>1, <1>2, SameIds DEF DocOK, Honest, Steady, Quiet, Coming, s

LEMMA HideKeeps ==
    ASSUME NEW r, DocOK(r)
    PROVE  LET s == [Checkpoint(r) EXCEPT !.model.hidden = ~@]
           IN  DocOK(s) /\ Quiet(r, s)
<1>. DEFINE m == [r.model EXCEPT !.hidden = ~@]
            s == [Checkpoint(r) EXCEPT !.model = m]
<1>1. r \in DocType
  BY DEF DocOK
<1>2. /\ m \in Contents /\ m.features = r.model.features
      /\ m.cursor = r.model.cursor
  BY <1>1, HiddenContents DEF DocType
<1>3. [Checkpoint(r) EXCEPT !.model.hidden = ~@] = s
  BY <1>1, CheckpointFacts DEF DocType
<1>. HIDE DEF m
<1>4. /\ s \in DocType /\ Untouched(r, s) /\ s.model = m /\ s.dirty
      /\ Ids(s) \subseteq Ids(r) \cup Named(m)
  BY <1>1, <1>2, CheckpointWith
<1>. HIDE DEF s
<1>5. Named(m) \subseteq Ids(r)
  BY <1>1, <1>2, StatesAreContents DEF Named
<1>6. DocOK(s)
  BY <1>2, <1>4 DEF DocOK, Honest, Steady, Untouched, AtEnd
<1>7. Quiet(r, s)
  BY <1>4, <1>5 DEF Quiet, Coming, Untouched
<1>8. QED
  BY <1>3, <1>6, <1>7

LEMMA UndoKeeps ==
    ASSUME NEW r, DocOK(r), r.pending = "none", r.past # <<>>
    PROVE  LET s == [r EXCEPT !.model = Last(r.past), !.past = Front(@),
                              !.future = Append(@, r.model), !.dirty = TRUE]
           IN  DocOK(s) /\ Quiet(r, s)
<1>. DEFINE s == [r EXCEPT !.model = Last(r.past), !.past = Front(@),
                           !.future = Append(@, r.model), !.dirty = TRUE]
<1>1. /\ r.model \in Contents /\ r.past \in Seq(Contents)
      /\ r.future \in Seq(Contents)
  BY DEF DocOK, DocType
<1>2. /\ Front(r.past) \in Seq(Contents) /\ Last(r.past) \in Contents
      /\ ToSet(Front(r.past)) \subseteq ToSet(r.past) /\ Last(r.past) \in ToSet(r.past)
  BY <1>1, FrontAndLast
<1>3. /\ Append(r.future, r.model) \in Seq(Contents)
      /\ ToSet(Append(r.future, r.model)) = ToSet(r.future) \cup {r.model}
  BY <1>1, SetOfLonger
<1>4. /\ s.model = Last(r.past) /\ s.past = Front(r.past)
      /\ s.future = Append(r.future, r.model) /\ s.dirty = TRUE
      /\ s.withdrawn = r.withdrawn /\ s.pending = r.pending /\ s.id = r.id
      /\ s.running = r.running /\ s.job = r.job /\ s.overtaken = r.overtaken
  BY DEF DocOK, DocType
<1>5. s \in DocType
  BY <1>2, <1>3 DEF DocOK, DocType
<1>. HIDE DEF s
<1>6. DocOK(s)
  BY <1>4, <1>5 DEF DocOK, Honest, Steady
<1>7. States(s) \subseteq States(r)
  BY <1>2, <1>3, <1>4 DEF States
<1>8. Quiet(r, s)
  BY <1>4, <1>7 DEF Quiet, Ids, Coming
<1>9. QED
  BY <1>6, <1>8 DEF s

LEMMA RedoKeeps ==
    ASSUME NEW r, DocOK(r), r.pending = "none", r.future # <<>>
    PROVE  LET s == [r EXCEPT !.model = Last(r.future), !.future = Front(@),
                              !.past = Append(@, r.model), !.dirty = TRUE]
           IN  DocOK(s) /\ Quiet(r, s)
<1>. DEFINE s == [r EXCEPT !.model = Last(r.future), !.future = Front(@),
                           !.past = Append(@, r.model), !.dirty = TRUE]
<1>1. /\ r.model \in Contents /\ r.past \in Seq(Contents)
      /\ r.future \in Seq(Contents)
  BY DEF DocOK, DocType
<1>2. /\ Front(r.future) \in Seq(Contents) /\ Last(r.future) \in Contents
      /\ ToSet(Front(r.future)) \subseteq ToSet(r.future)
      /\ Last(r.future) \in ToSet(r.future)
  BY <1>1, FrontAndLast
<1>3. /\ Append(r.past, r.model) \in Seq(Contents)
      /\ ToSet(Append(r.past, r.model)) = ToSet(r.past) \cup {r.model}
  BY <1>1, SetOfLonger
<1>4. /\ s.model = Last(r.future) /\ s.future = Front(r.future)
      /\ s.past = Append(r.past, r.model) /\ s.dirty = TRUE
      /\ s.withdrawn = r.withdrawn /\ s.pending = r.pending /\ s.id = r.id
      /\ s.running = r.running /\ s.job = r.job /\ s.overtaken = r.overtaken
  BY DEF DocOK, DocType
<1>5. s \in DocType
  BY <1>2, <1>3 DEF DocOK, DocType
<1>. HIDE DEF s
<1>6. DocOK(s)
  BY <1>4, <1>5 DEF DocOK, Honest, Steady
<1>7. States(s) \subseteq States(r)
  BY <1>2, <1>3, <1>4 DEF States
<1>8. Quiet(r, s)
  BY <1>4, <1>7 DEF Quiet, Ids, Coming
<1>9. QED
  BY <1>6, <1>8 DEF s

\* A prompt comes or goes, or the user says not to save.
LEMMA AsideKeeps ==
    ASSUME NEW r, DocOK(r), NEW x \in {"none", "open", "save"}
    PROVE  LET Aside(s) == /\ DocOK(s) /\ Quiet(r, s) /\ Ids(s) = Ids(r)
                           /\ Coming(s) = Coming(r) /\ s.model = r.model
                           /\ s.kept = r.kept /\ s.path = r.path
           IN  /\ Aside([r EXCEPT !.typing = x])
               /\ Aside([r EXCEPT !.asking = NoFile])
               /\ Aside([r EXCEPT !.answered = r.model])
               /\ [r EXCEPT !.answered = r.model].answered = r.model
<1>. DEFINE Same(s) ==
              /\ s \in DocType
              /\ s.model = r.model /\ s.past = r.past /\ s.future = r.future
              /\ s.dirty = r.dirty /\ s.kept = r.kept /\ s.withdrawn = r.withdrawn
              /\ s.pending = r.pending /\ s.base = r.base /\ s.edited = r.edited
              /\ s.id = r.id /\ s.running = r.running /\ s.job = r.job
              /\ s.overtaken = r.overtaken /\ s.path = r.path
            Aside(s) ==
              /\ DocOK(s) /\ Quiet(r, s) /\ Ids(s) = Ids(r)
              /\ Coming(s) = Coming(r) /\ s.model = r.model
              /\ s.kept = r.kept /\ s.path = r.path
<1>1. ASSUME NEW s, Same(s) PROVE Aside(s)
  BY <1>1, SameIds DEF DocOK, Honest, Steady, Quiet, Coming
<1>2. Same([r EXCEPT !.typing = x])
  BY DEF DocOK, DocType
<1>3. Same([r EXCEPT !.asking = NoFile])
  <2>1. NoFile \in Path
    BY DEF Path
  <2>2. QED
    BY <2>1 DEF DocOK, DocType
<1>4. /\ Same([r EXCEPT !.answered = r.model])
      /\ [r EXCEPT !.answered = r.model].answered = r.model
  BY DEF DocOK, DocType
<1>. HIDE DEF Same, Aside
<1>5. /\ Aside([r EXCEPT !.typing = x]) /\ Aside([r EXCEPT !.asking = NoFile])
      /\ Aside([r EXCEPT !.answered = r.model])
  BY <1>1, <1>2, <1>3, <1>4
<1>6. QED
  BY <1>4, <1>5 DEF Aside

-----------------------------------------------------------------------------
(* Where the names of features are: on disk, in a document, still to come, *)
(* or taken back.                                                          *)

UpTo(n) == {k \in Nat : k <= n}

Pools(docs, disk, n) ==
    /\ disk \subseteq UpTo(n)
    /\ \A d \in Doc :
        /\ Ids(docs[d]) \cup Coming(docs[d]) \cup docs[d].withdrawn \subseteq UpTo(n)
        /\ (docs[d].withdrawn \cup Coming(docs[d])) \cap disk = {}
    /\ \A d, e \in Doc :
        /\ docs[d].withdrawn \cap (Ids(docs[e]) \cup Coming(docs[e])) = {}
        /\ Coming(docs[d]) \cap Ids(docs[e]) = {}
        /\ d # e => Coming(docs[d]) \cap Coming(docs[e]) = {}

\* One document changes, and may be saved first.
LEMMA PoolsOfOne ==
    ASSUME NEW docs, NEW docs2, NEW disk, NEW disk2, NEW n \in Nat, NEW m \in Nat,
           n <= m, Pools(docs, disk, n), NEW d0 \in Doc,
           Fate(docs[d0], docs2[d0], disk, n, m),
           \A d \in Doc : d # d0 => docs2[d] = docs[d],
           disk2 \subseteq disk \cup Ids(docs[d0])
    PROVE  Pools(docs2, disk2, m)
<1>. DEFINE r == docs[d0]
            s == docs2[d0]
            new == {k \in Nat : n < k /\ k <= m}
<1>1. UpTo(n) \subseteq UpTo(m) /\ new \subseteq UpTo(m) /\ new \cap UpTo(n) = {}
  BY DEF UpTo
<1>2. /\ Ids(s) \subseteq Ids(r) \cup disk \cup (Coming(r) \ Coming(s))
      /\ s.withdrawn \subseteq r.withdrawn \cup (Coming(r) \ Coming(s))
      /\ Ids(s) \subseteq Ids(r) \cup disk \/ s.withdrawn \subseteq r.withdrawn
      /\ Coming(s) \subseteq Coming(r) \cup new
  BY DEF Fate
<1>3. /\ disk \subseteq UpTo(n)
      /\ \A d \in Doc :
           /\ Ids(docs[d]) \subseteq UpTo(n) /\ Coming(docs[d]) \subseteq UpTo(n)
           /\ docs[d].withdrawn \subseteq UpTo(n)
           /\ docs[d].withdrawn \cap disk = {} /\ Coming(docs[d]) \cap disk = {}
  BY DEF Pools
<1>4. \A d, e \in Doc :
        /\ docs[d].withdrawn \cap Ids(docs[e]) = {}
        /\ docs[d].withdrawn \cap Coming(docs[e]) = {}
        /\ Coming(docs[d]) \cap Ids(docs[e]) = {}
        /\ d # e => Coming(docs[d]) \cap Coming(docs[e]) = {}
  BY DEF Pools
<1>. HIDE DEF r, s, new
<1>5. r = docs[d0] /\ s = docs2[d0]
  BY DEF r, s
<1>6. disk2 \subseteq UpTo(m)
  BY <1>1, <1>3
<1>7. ASSUME NEW d \in Doc
      PROVE  /\ Ids(docs2[d]) \cup Coming(docs2[d]) \cup docs2[d].withdrawn
                    \subseteq UpTo(m)
             /\ (docs2[d].withdrawn \cup Coming(docs2[d])) \cap disk2 = {}
  <2>1. CASE d = d0
    <3>1. docs2[d] = s
      BY <1>5, <2>1
    <3>2. Ids(s) \cup Coming(s) \cup s.withdrawn \subseteq UpTo(m)
      BY <1>1, <1>2, <1>3, <1>5
    <3>3. s.withdrawn \cap disk2 = {}
      BY <1>2, <1>3, <1>4, <1>5
    <3>4. Coming(s) \cap disk2 = {}
      BY <1>1, <1>2, <1>3, <1>4, <1>5
    <3>5. QED
      BY <3>1, <3>2, <3>3, <3>4
  <2>2. CASE d # d0
    <3>1. docs2[d] = docs[d]
      BY <2>2
    <3>2. QED
      BY <1>1, <1>3, <1>4, <1>5, <3>1
  <2>3. QED
    BY <2>1, <2>2
<1>8. ASSUME NEW d \in Doc, NEW e \in Doc
      PROVE  /\ docs2[d].withdrawn \cap (Ids(docs2[e]) \cup Coming(docs2[e])) = {}
             /\ Coming(docs2[d]) \cap Ids(docs2[e]) = {}
             /\ d # e => Coming(docs2[d]) \cap Coming(docs2[e]) = {}
  <2>1. CASE d # d0 /\ e # d0
    BY <1>4, <2>1
  <2>2. CASE d = d0 /\ e = d0
    <3>1. s.withdrawn \cap Ids(s) = {}
      BY <1>2, <1>3, <1>4, <1>5
    <3>2. s.withdrawn \cap Coming(s) = {}
      BY <1>1, <1>2, <1>3, <1>4, <1>5
    <3>3. Coming(s) \cap Ids(s) = {}
      BY <1>1, <1>2, <1>3, <1>4, <1>5
    <3>4. QED
      BY <1>5, <2>2, <3>1, <3>2, <3>3
  <2>3. CASE d = d0 /\ e # d0
    <3>1. docs2[d] = s /\ docs2[e] = docs[e]
      BY <1>5, <2>3
    <3>2. s.withdrawn \cap Ids(docs[e]) = {}
      BY <1>2, <1>3, <1>4, <1>5
    <3>3. s.withdrawn \cap Coming(docs[e]) = {}
      BY <1>2, <1>4, <1>5, <2>3
    <3>4. Coming(s) \cap Ids(docs[e]) = {}
      BY <1>1, <1>2, <1>3, <1>4, <1>5
    <3>5. Coming(s) \cap Coming(docs[e]) = {}
      BY <1>1, <1>2, <1>3, <1>4, <1>5, <2>3
    <3>6. QED
      BY <3>1, <3>2, <3>3, <3>4, <3>5
  <2>4. CASE d # d0 /\ e = d0
    <3>1. docs2[d] = docs[d] /\ docs2[e] = s
      BY <1>5, <2>4
    <3>2. docs[d].withdrawn \cap Ids(s) = {}
      BY <1>2, <1>3, <1>4, <1>5
    <3>3. docs[d].withdrawn \cap Coming(s) = {}
      BY <1>1, <1>2, <1>3, <1>4, <1>5
    <3>4. Coming(docs[d]) \cap Ids(s) = {}
      BY <1>2, <1>3, <1>4, <1>5, <2>4
    <3>5. Coming(docs[d]) \cap Coming(s) = {}
      BY <1>1, <1>2, <1>3, <1>4, <1>5, <2>4
    <3>6. QED
      BY <3>1, <3>2, <3>3, <3>4, <3>5
  <2>5. QED
    BY <2>1, <2>2, <2>3, <2>4
<1>9. QED
  BY <1>6, <1>7, <1>8 DEF Pools

\* Any number of documents are saved, or said not to be.
LEMMA PoolsOfMany ==
    ASSUME NEW docs, NEW docs2, NEW disk, NEW disk2, NEW n \in Nat,
           Pools(docs, disk, n),
           \A d \in Doc : /\ Ids(docs2[d]) = Ids(docs[d])
                          /\ Coming(docs2[d]) = Coming(docs[d])
                          /\ docs2[d].withdrawn = docs[d].withdrawn,
           \A k \in disk2 : k \in disk \/ \E d \in Doc : k \in Ids(docs[d])
    PROVE  Pools(docs2, disk2, n)
<1>1. disk2 \subseteq UpTo(n)
  BY DEF Pools
<1>2. \A d \in Doc : (docs[d].withdrawn \cup Coming(docs[d])) \cap disk2 = {}
  BY DEF Pools
<1>3. QED
  BY <1>1, <1>2 DEF Pools

-----------------------------------------------------------------------------
(* The invariant.                                                          *)

OnDisk == UNION {Named(file[p]) : p \in Files}

TabsOK(open, front, next) ==
    /\ open \in Seq(Doc) /\ front \in 1..Len(open) /\ next \in Nat
    /\ \A i \in 1..Len(open) : open[i] < next
    /\ \A i, j \in 1..Len(open) : open[i] = open[j] => i = j

PromptOK(about, shown, open) ==
    /\ about \in {<<>>, <<"window">>} \cup ({"tab"} \X (Nat \ {0}))
    /\ shown \in BOOLEAN
    /\ shown => about # <<>> /\ (about[1] = "tab" => about[2] <= Len(open))

DocsOK == doc \in [Doc -> DocType] /\ \A d \in Doc : DocOK(doc[d])

\* What was answered is the present of every document, or its file's, from
\* the answer until the window is gone.
Answered(d) == doc[d].model \in {doc[d].kept, doc[d].answered}
WindowOK ==
    /\ window \in {"open", "confirmed", "gone"}
    /\ window = "confirmed" => \A d \in Doc : IsOpen(d) => Answered(d)

Safe ==
    /\ TabsOK(tabs, active, serial)
    /\ PromptOK(prompt, drawn, tabs)
    /\ WindowOK
    /\ DocsOK
    /\ file \in [Files -> Contents \cup {Absent}]
    /\ spent \in Nat
    /\ Pools(doc, OnDisk, spent)

LEMMA InFrontIsADocument ==
    Safe => /\ InFront \in Doc /\ DocOK(doc[InFront]) /\ doc[InFront] \in DocType
            /\ Len(doc[InFront].model.features) \in Nat
<1> SUFFICES ASSUME Safe
             PROVE  /\ InFront \in Doc /\ DocOK(doc[InFront])
                    /\ doc[InFront] \in DocType
                    /\ Len(doc[InFront].model.features) \in Nat
  OBVIOUS
<1>1. InFront \in Doc
  BY DEF Safe, TabsOK, InFront
<1>2. DocOK(doc[InFront]) /\ doc[InFront] \in DocType
  BY <1>1 DEF Safe, DocsOK, DocOK
<1>3. doc[InFront].model \in Contents
  BY <1>2 DEF DocType
<1>4. QED
  BY <1>1, <1>2, <1>3, ContentsAre

LEMMA SafeInit == WorkbenchInit => Safe
<1> SUFFICES ASSUME WorkbenchInit PROVE Safe
  OBVIOUS
<1> USE DEF WorkbenchInit
<1>1. 1 \in Doc
  BY WorkbenchAssumption DEF Doc
<1>2. TabsOK(tabs, active, serial) /\ PromptOK(prompt, drawn, tabs)
  <2>1. <<1>> \in Seq(Doc) /\ Len(<<1>>) = 1 /\ <<1>>[1] = 1
    BY <1>1
  <2>2. TabsOK(tabs, active, serial)
    BY <2>1 DEF TabsOK
  <2>3. PromptOK(prompt, drawn, tabs)
    BY DEF PromptOK
  <2>4. QED
    BY <2>2, <2>3
<1>3. WindowOK
  BY DEF WindowOK
<1>4. NewDocument \in DocType /\ DocOK(NewDocument)
  BY NewDocumentTyped DEF NewDocument, DocOK, Honest, Steady
<1>5. DocsOK
  BY <1>4 DEF DocsOK
<1>6. PICK saved \in Files :
          file = [p \in Files |->
              IF p = saved THEN [Blank EXCEPT !.features = <<1>>, !.cursor = 1]
              ELSE Absent]
  OBVIOUS
<1>7. /\ [Blank EXCEPT !.features = <<1>>, !.cursor = 1] \in Contents
      /\ Named([Blank EXCEPT !.features = <<1>>, !.cursor = 1]) = {1}
      /\ Named(Absent) = {} /\ Named(Blank) = {}
  <2>. DEFINE c == [Blank EXCEPT !.features = <<1>>, !.cursor = 1]
  <2>1. /\ c.features = <<1>> /\ c.cursor = 1
        /\ Absent.features = <<>> /\ Blank.features = <<>>
    BY DEF Blank, Absent
  <2>2. <<1>> \in Seq(Nat) /\ Len(<<1>>) = 1 /\ ToSet(<<1>>) = {1} /\ ToSet(<<>>) = {}
    BY DEF ToSet
  <2>3. c \in [features : Seq(Nat), cursor : Nat, hidden : BOOLEAN]
    <3>1. ASSUME NEW f \in Seq(Nat)
          PROVE  [Blank EXCEPT !.features = f, !.cursor = 1]
                     \in [features : Seq(Nat), cursor : Nat, hidden : BOOLEAN]
      BY DEF Blank
    <3>2. QED
      BY <2>2, <3>1
  <2>. HIDE DEF c
  <2>4. c \in Contents
    <3>1. Len(c.features) = 1
      BY <2>1, <2>2
    <3>2. c.cursor <= Len(c.features)
      BY <2>1, <3>1
    <3>3. QED
      BY <2>3, <3>2 DEF Contents
  <2>5. Named(c) = {1} /\ Named(Absent) = {} /\ Named(Blank) = {}
    BY <2>1, <2>2 DEF Named
  <2>6. QED
    BY <2>4, <2>5 DEF c
<1>8. file \in [Files -> Contents \cup {Absent}]
  BY <1>6, <1>7
<1>9. OnDisk \subseteq {1}
  BY <1>6, <1>7 DEF OnDisk
<1>10. /\ Ids(NewDocument) = {} /\ Coming(NewDocument) = {}
       /\ NewDocument.withdrawn = {}
  <2>1. States(NewDocument) = {Blank}
    BY DEF NewDocument, States, ToSet
  <2>2. Ids(NewDocument) = {}
    BY <1>7, <2>1 DEF Ids
  <2>3. /\ NewDocument.running = "none" /\ NewDocument.pending = "none"
        /\ NewDocument.withdrawn = {}
    BY DEF NewDocument
  <2>4. QED
    BY <2>2, <2>3 DEF Coming
<1>11. Pools(doc, OnDisk, spent)
  BY <1>9, <1>10 DEF Pools, UpTo
<1>12. QED
  BY <1>2, <1>3, <1>5, <1>8, <1>11 DEF Safe

\* One document becomes another one, and its file perhaps what it held.
LEMMA OneDocumentMoves ==
    ASSUME Safe, NEW d0 \in Doc, NEW s, DocOK(s), window = "open",
           doc' = [doc EXCEPT ![d0] = s],
           UNCHANGED <<tabs, active, prompt, drawn, window, serial>>,
           spent' \in Nat, spent <= spent',
           Fate(doc[d0], s, OnDisk, spent, spent'),
           \/ UNCHANGED file
           \/ \E p \in Files : file' = [file EXCEPT ![p] = doc[d0].model]
    PROVE  Safe'
<1>1. doc \in [Doc -> DocType] /\ doc[d0] \in DocType /\ s \in DocType
  BY DEF Safe, DocsOK, DocOK
<1>2. doc'[d0] = s /\ \A d \in Doc : d # d0 => doc'[d] = doc[d]
  BY <1>1
<1>3. DocsOK'
  BY <1>1, <1>2 DEF Safe, DocsOK
<1>4. /\ file' \in [Files -> Contents \cup {Absent}]
      /\ OnDisk' \subseteq OnDisk \cup Ids(doc[d0])
  <2>1. CASE UNCHANGED file
    BY <2>1 DEF Safe, OnDisk
  <2>2. ASSUME NEW p \in Files, file' = [file EXCEPT ![p] = doc[d0].model]
        PROVE  /\ file' \in [Files -> Contents \cup {Absent}]
               /\ OnDisk' \subseteq OnDisk \cup Ids(doc[d0])
    <3>1. doc[d0].model \in Contents /\ Named(doc[d0].model) \subseteq Ids(doc[d0])
      BY <1>1, StatesAreContents DEF DocType
    <3>2. file \in [Files -> Contents \cup {Absent}]
      BY DEF Safe
    <3>3. \A q \in Files : file'[q] = file[q] \/ file'[q] = doc[d0].model
      BY <2>2, <3>2
    <3>4. QED
      BY <2>2, <3>1, <3>2, <3>3 DEF OnDisk
  <2>3. QED
    BY <2>1, <2>2
<1>5. Pools(doc, OnDisk, spent)' 
  <2>1. Pools(doc, OnDisk, spent) /\ spent \in Nat
    BY DEF Safe
  <2>2. Fate(doc[d0], doc'[d0], OnDisk, spent, spent')
    BY <1>2
  <2>. DEFINE docs2 == doc'
              disk2 == OnDisk'
              m == spent'
  <2>. HIDE DEF docs2, disk2, m
  <2>4. Pools(docs2, disk2, m)
    <3>1. /\ m \in Nat /\ spent <= m /\ Fate(doc[d0], docs2[d0], OnDisk, spent, m)
          /\ \A d \in Doc : d # d0 => docs2[d] = doc[d]
          /\ disk2 \subseteq OnDisk \cup Ids(doc[d0])
      BY <1>2, <1>4, <2>2 DEF docs2, disk2, m
    <3>2. QED
      BY <2>1, <3>1, PoolsOfOne, ZenonT(60)
  <2>5. QED
    BY <2>4 DEF Pools, docs2, disk2, m
<1>6. TabsOK(tabs, active, serial)' /\ PromptOK(prompt, drawn, tabs)'
  BY DEF Safe, TabsOK, PromptOK
<1>7. WindowOK'
  BY DEF Safe, WindowOK
<1>8. QED
  BY <1>3, <1>4, <1>5, <1>6, <1>7 DEF Safe

\* The document in front moves, and no edit begins.
LEMMA FrontMoves ==
    ASSUME Safe, window = "open", NEW s, DocOK(s), Becomes(s), UNCHANGED spent,
           Quiet(doc[InFront], s) \/ Fate(doc[InFront], s, OnDisk, spent, spent),
           \/ UNCHANGED file
           \/ \E p \in Files : file' = [file EXCEPT ![p] = doc[InFront].model]
    PROVE  Safe'
<1>1. spent \in Nat
  BY DEF Safe
<1>2. Fate(doc[InFront], s, OnDisk, spent, spent)
  BY QuietFate
<1>3. InFront \in Doc
  BY InFrontIsADocument
<1>4. /\ doc' = [doc EXCEPT ![InFront] = s]
      /\ UNCHANGED <<tabs, active, prompt, drawn, window, serial>>
      /\ spent' \in Nat /\ spent <= spent'
      /\ Fate(doc[InFront], s, OnDisk, spent, spent')
  BY <1>1, <1>2 DEF Becomes
<1>5. ASSUME NEW d0 \in Doc, d0 = InFront PROVE Safe'
  BY <1>4, <1>5, OneDocumentMoves
<1>6. QED
  BY <1>3, <1>5

\* The document in front moves, and an edit begins.
LEMMA FrontMovesOn ==
    ASSUME Safe, window = "open", NEW s, DocOK(s), Becomes(s), Spend, UNCHANGED file,
           Fate(doc[InFront], s, OnDisk, spent, spent + 1)
    PROVE  Safe'
<1>1. spent \in Nat /\ spent' = spent + 1
  BY DEF Safe, Spend
<1>2. InFront \in Doc
  BY InFrontIsADocument
<1>3. /\ doc' = [doc EXCEPT ![InFront] = s]
      /\ UNCHANGED <<tabs, active, prompt, drawn, window, serial>>
      /\ spent' \in Nat /\ spent <= spent'
      /\ Fate(doc[InFront], s, OnDisk, spent, spent')
  BY <1>1 DEF Becomes
<1>4. ASSUME NEW d0 \in Doc, d0 = InFront PROVE Safe'
  BY <1>3, <1>4, OneDocumentMoves
<1>5. QED
  BY <1>2, <1>4

-----------------------------------------------------------------------------
(* The document in front keeps the invariant.                              *)

LEMMA ModellingSafe == Safe /\ Modelling => Safe'
<1> SUFFICES ASSUME Safe, Modelling PROVE Safe'
  OBVIOUS
<1>. DEFINE r == doc[InFront]
<1>1. /\ DocOK(r) /\ r \in DocType /\ Len(r.model.features) \in Nat
      /\ spent \in Nat
  BY InFrontIsADocument DEF Safe
<1> USE DEF Keyboard, Pointer, Idle
<1>2. CASE StageExtrusion
  BY <1>1, <1>2, StageExtrusionKeeps, FrontMoves DEF StageExtrusion
<1>3. CASE ConfirmExtrusion
  <2>1. spent' = spent + 1
    BY <1>3 DEF ConfirmExtrusion, Spend
  <2>2. QED
    BY <1>1, <1>3, <2>1, ConfirmExtrusionKeeps, FrontMovesOn DEF ConfirmExtrusion
<1>4. CASE CancelOperation
  BY <1>1, <1>4, CancelledKeeps, FrontMoves DEF CancelOperation
<1>5. CASE Hide
  <2>1. /\ DocOK([Checkpoint(r) EXCEPT !.model.hidden = ~@])
        /\ Quiet(r, [Checkpoint(r) EXCEPT !.model.hidden = ~@])
    BY <1>1, HideKeeps
  <2>2. Fate(r, [Checkpoint(r) EXCEPT !.model.hidden = ~@], OnDisk, spent, spent + 1)
    BY <2>1, QuietFate
  <2>3. QED
    BY <1>5, <2>1, <2>2, FrontMovesOn DEF Hide
<1>6. CASE Undo
  BY <1>1, <1>6, UndoKeeps, FrontMoves DEF Undo
<1>7. CASE Redo
  BY <1>1, <1>7, RedoKeeps, FrontMoves DEF Redo
<1>8. ASSUME NEW i \in 1..Len(r.model.features), NEW opens \in BOOLEAN,
             StageEdit(i, opens)
      PROVE  Safe'
  <2>. DEFINE rolled == MoveCursor(r, i - 1)
              s == [rolled EXCEPT !.pending = "edit", !.edited = i, !.id = spent + 1]
              back == MoveCursor(rolled, Len(rolled.model.features))
  <2>1. spent' = spent + 1 /\ Spend
    BY <1>8 DEF StageEdit, Spend
  <2>2. /\ DocOK(s) /\ Fate(r, s, OnDisk, spent, spent + 1)
        /\ DocOK(back) /\ Quiet(r, back)
    BY <1>1, <1>8, StageEditKeeps DEF StageEdit
  <2>3. Fate(r, back, OnDisk, spent, spent + 1)
    BY <2>2, QuietFate
  <2>4. /\ window = "open" /\ UNCHANGED file
        /\ Becomes(IF opens THEN s ELSE back)
    BY <1>8, <2>1 DEF StageEdit
  <2>. HIDE DEF s, back
  <2>5. CASE opens
    BY <2>1, <2>2, <2>4, <2>5, FrontMovesOn
  <2>6. CASE ~opens
    BY <2>1, <2>2, <2>3, <2>4, <2>6, FrontMovesOn
  <2>7. QED
    BY <2>5, <2>6
<1>9. ASSUME NEW accepted \in BOOLEAN, ConfirmEdit(accepted) PROVE Safe'
  BY <1>1, <1>9, EditAppliedKeeps, FrontMoves DEF ConfirmEdit
<1>10. ASSUME NEW position \in 0..Len(r.model.features), Scrub(position) PROVE Safe'
  <2>1. DocOK(MoveCursor(r, position)) /\ Quiet(r, MoveCursor(r, position))
    BY <1>1, <1>10, MoveCursorKeeps DEF Scrub
  <2>2. Fate(r, MoveCursor(r, position), OnDisk, spent, spent + 1)
    BY <2>1, QuietFate
  <2>3. QED
    BY <1>10, <2>1, <2>2, FrontMovesOn DEF Scrub
<1>11. QED
  BY <1>2, <1>3, <1>4, <1>5, <1>6, <1>7, <1>8, <1>9, <1>10 DEF Modelling

LEMMA FilingSafe == Safe /\ Filing => Safe'
<1> SUFFICES ASSUME Safe, Filing PROVE Safe'
  OBVIOUS
<1>. DEFINE r == doc[InFront]
<1>1. DocOK(r) /\ r \in DocType /\ InFront \in Doc
  BY InFrontIsADocument
<1> USE DEF Keyboard, Pointer, Idle
<1>2. ASSUME NEW p \in Files, Open(p) PROVE Safe'
  BY <1>1, <1>2, StageOpenKeeps, FrontMoves DEF Open
<1>3. ASSUME NEW p \in Files, AcceptPath(p) PROVE Safe'
  <2>. DEFINE s == [r EXCEPT !.typing = "none"]
  <2>1. /\ DocOK(s) /\ Quiet(r, s) /\ s.model = r.model
    BY <1>1, AsideKeeps
  <2>2. /\ DocOK(RequestOpen(s, p)) /\ Quiet(s, RequestOpen(s, p))
        /\ DocOK(SavedAt(s, p)) /\ Quiet(s, SavedAt(s, p))
    BY <2>1, StageOpenKeeps, SavedAtKeeps
  <2>3. Quiet(r, RequestOpen(s, p)) /\ Quiet(r, SavedAt(s, p))
    BY <2>1, <2>2 DEF Quiet
  <2>4. /\ window = "open" /\ UNCHANGED spent
        /\ \/ Becomes(RequestOpen(s, p)) /\ UNCHANGED file
           \/ file' = [file EXCEPT ![p] = s.model] /\ Becomes(SavedAt(s, p))
           \/ UNCHANGED file /\ Becomes(s)
    BY <1>3 DEF AcceptPath
  <2>. HIDE DEF s
  <2>5. CASE Becomes(RequestOpen(s, p)) /\ UNCHANGED file
    BY <2>2, <2>3, <2>4, <2>5, FrontMoves
  <2>6. CASE file' = [file EXCEPT ![p] = s.model] /\ Becomes(SavedAt(s, p))
    <3>1. \E q \in Files : file' = [file EXCEPT ![q] = doc[InFront].model]
      BY <2>1, <2>6
    <3>2. QED
      BY <2>2, <2>3, <2>4, <2>6, <3>1, FrontMoves
  <2>7. CASE UNCHANGED file /\ Becomes(s)
    BY <2>1, <2>4, <2>7, FrontMoves
  <2>8. QED
    BY <2>4, <2>5, <2>6, <2>7
<1>4. ASSUME NEW p \in Files, Save(p) PROVE Safe'
  <2>1. DocOK(SavedAt(r, p)) /\ Quiet(r, SavedAt(r, p))
    BY <1>1, SavedAtKeeps
  <2>2. \E q \in Files : file' = [file EXCEPT ![q] = doc[InFront].model]
    BY <1>4 DEF Save
  <2>3. QED
    BY <1>4, <2>1, <2>2, FrontMoves DEF Save
<1>5. ASSUME NEW purpose \in {"open", "save"}, TypePath(purpose) PROVE Safe'
  <2>1. /\ DocOK([r EXCEPT !.typing = purpose])
        /\ Quiet(r, [r EXCEPT !.typing = purpose])
    BY <1>1, AsideKeeps
  <2>2. QED
    BY <1>5, <2>1, FrontMoves DEF TypePath
<1>6. CASE DismissPath
  <2>1. /\ DocOK([r EXCEPT !.typing = "none"])
        /\ Quiet(r, [r EXCEPT !.typing = "none"])
    BY <1>1, AsideKeeps
  <2>2. QED
    BY <1>6, <2>1, FrontMoves DEF DismissPath
<1>7. CASE AnswerOpen
  <2>. DEFINE s == [r EXCEPT !.asking = NoFile]
              p == r.asking
              u == [s EXCEPT !.answered = s.model]
  <2>1. DocOK(s) /\ Quiet(r, s) /\ s.model = r.model /\ s.path = r.path
    BY <1>1, AsideKeeps
  <2>2. p \in Files
    BY <1>1, <1>7 DEF AnswerOpen, DocType, Path
  <2>. HIDE DEF s
  <2>3. DocOK(u) /\ Quiet(s, u)
    BY <2>1, AsideKeeps
  <2>. HIDE DEF u, p
  <2>4. DocOK(StageOpen(u, p)) /\ Quiet(u, StageOpen(u, p))
    BY <2>2, <2>3, StageOpenKeeps
  <2>5. Quiet(r, StageOpen(u, p))
    BY <2>1, <2>3, <2>4 DEF Quiet
  <2>6. ASSUME NEW home \in Files
        PROVE  /\ DocOK(StageOpen(SavedAt(s, home), p))
               /\ Quiet(r, StageOpen(SavedAt(s, home), p))
    <3>1. DocOK(SavedAt(s, home)) /\ Quiet(s, SavedAt(s, home))
      BY <2>1, SavedAtKeeps
    <3>2. /\ DocOK(StageOpen(SavedAt(s, home), p))
          /\ Quiet(SavedAt(s, home), StageOpen(SavedAt(s, home), p))
      BY <2>2, <3>1, StageOpenKeeps
    <3>3. QED
      BY <2>1, <3>1, <3>2 DEF Quiet
  <2>7. /\ window = "open" /\ UNCHANGED spent
        /\ \/ \E home \in IF s.path = NoFile THEN Files ELSE {s.path} :
                /\ file' = [file EXCEPT ![home] = s.model]
                /\ Becomes(StageOpen(SavedAt(s, home), p))
           \/ Becomes(StageOpen(u, p)) /\ UNCHANGED file
           \/ Becomes(s) /\ UNCHANGED file
    BY <1>7 DEF AnswerOpen, s, u, p
  <2>8. ASSUME NEW home \in IF s.path = NoFile THEN Files ELSE {s.path},
               file' = [file EXCEPT ![home] = s.model],
               Becomes(StageOpen(SavedAt(s, home), p))
        PROVE  Safe'
    <3>1. home \in Files
      BY <1>1, <2>1, <2>8 DEF DocType, Path
    <3>2. \E q \in Files : file' = [file EXCEPT ![q] = doc[InFront].model]
      BY <2>1, <2>8, <3>1
    <3>3. QED
      BY <2>6, <2>7, <2>8, <3>1, <3>2, FrontMoves
  <2>9. CASE Becomes(StageOpen(u, p)) /\ UNCHANGED file
    BY <2>4, <2>5, <2>7, <2>9, FrontMoves
  <2>10. CASE Becomes(s) /\ UNCHANGED file
    BY <2>1, <2>7, <2>10, FrontMoves
  <2>11. QED
    BY <2>7, <2>8, <2>9, <2>10
<1>8. ASSUME NEW suppressed \in BOOLEAN, ConfirmOpen(suppressed) PROVE Safe'
  <2>. DEFINE p == IF r.target = NoFile THEN r.path ELSE r.target
  <2>1. /\ window = "open" /\ r.running = "none" /\ p # NoFile /\ file[p] # Absent
        /\ Becomes(Loaded(r, p, suppressed)) /\ UNCHANGED <<file, spent>>
    BY <1>8 DEF ConfirmOpen
  <2>2. p \in Files
    BY <1>1, <2>1 DEF DocType, Path
  <2>. HIDE DEF p
  <2>3. file[p] \in Contents /\ Named(file[p]) \subseteq OnDisk
    BY <2>1, <2>2 DEF Safe, OnDisk
  <2>4. /\ DocOK(Loaded(r, p, suppressed))
        /\ Fate(r, Loaded(r, p, suppressed), OnDisk, spent, spent)
    BY <1>1, <2>1, <2>2, <2>3, LoadedKeeps
  <2>5. QED
    BY <2>1, <2>4, FrontMoves
<1>9. ASSUME NEW p \in IF r.path = NoFile THEN Files ELSE {r.path}, Save(p)
      PROVE  Safe'
  <2>1. p \in Files
    BY <1>1, <1>9 DEF DocType, Path
  <2>2. QED
    BY <1>4, <1>9, <2>1
<1>10. QED
  BY <1>2, <1>3, <1>5, <1>6, <1>7, <1>8, <1>9 DEF Filing

LEMMA PollSafe == Safe /\ Poll => Safe'
<1> SUFFICES ASSUME Safe, Poll PROVE Safe'
  OBVIOUS
<1>. DEFINE r == doc[InFront]
<1>1. DocOK(r)
  BY InFrontIsADocument
<1>2. CASE r.running = "ok" /\ Becomes(Landed(r))
  BY <1>1, <1>2, LandedKeeps, FrontMoves DEF Poll
<1>3. CASE r.running \in {"ok", "failed"} /\ Becomes(Rejected(r))
  <2>1. DocOK(Rejected(r)) /\ Quiet(r, Rejected(r))
    BY <1>1, <1>3, RunningKeeps DEF Rejected
  <2>2. QED
    BY <1>3, <2>1, FrontMoves DEF Poll
<1>4. QED
  BY <1>2, <1>3 DEF Poll

LEMMA WorkerSafe == ASSUME NEW d \in Doc PROVE Safe /\ Worker(d) => Safe'
<1> SUFFICES ASSUME Safe, NEW result \in {"ok", "failed"}, Compute(d, result)
             PROVE  Safe'
  BY DEF Worker
<1>. DEFINE s == [doc[d] EXCEPT !.running = result]
<1>1. DocOK(doc[d]) /\ doc \in [Doc -> DocType] /\ spent \in Nat
  BY DEF Safe, DocsOK
<1>2. DocOK(s) /\ Quiet(doc[d], s)
  <2>1. doc[d].running # "none"
    BY DEF Compute
  <2>2. QED
    BY <1>1, <2>1, RunningKeeps
<1>3. /\ window = "open" /\ doc' = [doc EXCEPT ![d] = s]
      /\ UNCHANGED <<tabs, active, prompt, drawn, window, serial>>
      /\ UNCHANGED file /\ spent' \in Nat /\ spent <= spent'
  BY <1>1 DEF Compute
<1>. HIDE DEF s
<1>4. Fate(doc[d], s, OnDisk, spent, spent')
  BY <1>2, QuietFate
<1>5. QED
  BY <1>2, <1>3, <1>4, OneDocumentMoves

-----------------------------------------------------------------------------
(* The shell keeps the invariant.                                          *)

\* A bounded set of naturals has a greatest member.
LEMMA GreatestIsIn ==
    ASSUME NEW n \in Nat, NEW S \in SUBSET (1..n), S # {}
    PROVE  Max(S) \in S /\ \A x \in S : x <= Max(S)
<1>. DEFINE below == {k \in Nat : \E x \in S : k + x = n}
<1>1. below \subseteq Nat /\ below # {}
  <2>1. PICK x \in S : x \in 1..n
    OBVIOUS
  <2>2. n - x \in Nat /\ (n - x) + x = n
    BY <2>1
  <2>3. QED
    BY <2>1, <2>2
<1>2. PICK b \in below : \A c \in below : <<c, b>> \notin OpToRel(<, Nat)
  <2> HIDE DEF below
  <2>1. QED
    BY <1>1, NatLessThanWellFounded, WFMin, Zenon
<1>3. PICK x \in S : b + x = n
  BY <1>2
<1>4. ASSUME NEW y \in S PROVE x >= y
  <2>1. n - y \in below /\ n - y \in Nat /\ b \in Nat
    BY <1>1
  <2>2. ~(n - y < b)
    BY <1>2, <2>1 DEF OpToRel
  <2>3. QED
    BY <1>3, <2>1, <2>2
<1>5. Max(S) \in S /\ \A y \in S : Max(S) >= y
  BY <1>3, <1>4 DEF Max
<1>6. QED
  BY <1>5

LEMMA WithoutOne ==
    ASSUME NEW S, NEW s \in Seq(S), NEW i \in 1..Len(s)
    PROVE  /\ RemoveAt(s, i) \in Seq(S)
           /\ Len(RemoveAt(s, i)) = Len(s) - 1
           /\ \A j \in 1..(Len(s) - 1) :
                  RemoveAt(s, i)[j] = IF j < i THEN s[j] ELSE s[j + 1]
<1>. DEFINE a == SubSeq(s, 1, i - 1)
            b == SubSeq(s, i + 1, Len(s))
<1>1. Len(s) \in Nat /\ i \in Nat /\ 1 <= i /\ i <= Len(s)
  OBVIOUS
<1>2. /\ a \in Seq(S) /\ Len(a) = i - 1
      /\ \A j \in 1..(i - 1) : a[j] = s[j]
  BY <1>1
<1>3. /\ b \in Seq(S) /\ Len(b) = Len(s) - i
      /\ \A j \in 1..(Len(s) - i) : b[j] = s[i + j]
  BY <1>1
<1>. HIDE DEF a, b
<1>4. /\ a \o b \in Seq(S) /\ Len(a \o b) = Len(s) - 1
      /\ \A j \in 1..(Len(s) - 1) :
             (a \o b)[j] = IF j <= i - 1 THEN a[j] ELSE b[j - (i - 1)]
  <2>1. /\ a \o b \in Seq(S) /\ Len(a \o b) = Len(a) + Len(b)
        /\ \A j \in 1..(Len(a) + Len(b)) :
               (a \o b)[j] = IF j <= Len(a) THEN a[j] ELSE b[j - Len(a)]
    BY ONLY <1>2, <1>3, ConcatProperties
  <2>2. Len(a) + Len(b) = Len(s) - 1
    BY <1>1, <1>2, <1>3
  <2>3. QED
    BY <1>2, <2>1, <2>2
<1>5. ASSUME NEW j \in 1..(Len(s) - 1)
      PROVE  (a \o b)[j] = IF j < i THEN s[j] ELSE s[j + 1]
  <2>1. CASE j < i
    BY <1>1, <1>2, <1>4, <2>1
  <2>2. CASE ~(j < i)
    <3>1. /\ j - (i - 1) \in 1..(Len(s) - i) /\ ~(j <= i - 1)
          /\ i + (j - (i - 1)) = j + 1
      BY <1>1, <2>2
    <3>2. QED
      BY <1>3, <1>4, <2>2, <3>1
  <2>3. QED
    BY <2>1, <2>2
<1>6. RemoveAt(s, i) = a \o b
  BY DEF RemoveAt, a, b
<1>7. QED
  BY <1>4, <1>5, <1>6

\* A tab is closed, or there is nothing to close.
LEMMA CloseKeeps ==
    ASSUME TabsOK(tabs, active, serial), NEW i \in Nat \ {0},
           NEW f \in 1..Len(tabs), Close(i, f)
    PROVE  /\ TabsOK(tabs', active', serial)
           /\ \A d \in Doc : d \in ToSet(tabs') => d \in ToSet(tabs)
           /\ \A d \in Doc : d \in ToSet(tabs) /\ d \notin ToSet(tabs')
                  => i <= Len(tabs) /\ d = tabs[i]
<1>1. /\ tabs \in Seq(Doc) /\ Len(tabs) \in Nat /\ DOMAIN tabs = 1..Len(tabs)
      /\ serial \in Nat
      /\ \A j \in 1..Len(tabs) : tabs[j] < serial
      /\ \A j, k \in 1..Len(tabs) : tabs[j] = tabs[k] => j = k
  BY DEF TabsOK
<1>2. CASE i > Len(tabs) \/ Len(tabs) = 1
  BY <1>2 DEF Close, TabsOK
<1>3. CASE ~(i > Len(tabs) \/ Len(tabs) = 1)
  <2>1. i \in 1..Len(tabs) /\ Len(tabs) >= 2
    BY <1>1, <1>3
  <2>. DEFINE t == RemoveAt(tabs, i)
  <2>2. /\ tabs' = t
        /\ active' = IF f > i \/ f = Len(tabs) THEN f - 1 ELSE f
    BY <1>3, SMTT(60) DEF Close
  <2>3. /\ t \in Seq(Doc) /\ Len(t) = Len(tabs) - 1
        /\ \A j \in 1..(Len(tabs) - 1) :
               t[j] = IF j < i THEN tabs[j] ELSE tabs[j + 1]
    <3>1. ASSUME NEW s \in Seq(Doc), NEW k \in 1..Len(s)
          PROVE  /\ RemoveAt(s, k) \in Seq(Doc) /\ Len(RemoveAt(s, k)) = Len(s) - 1
                 /\ \A j \in 1..(Len(s) - 1) :
                        RemoveAt(s, k)[j] = IF j < k THEN s[j] ELSE s[j + 1]
      BY WithoutOne
    <3>2. QED
      BY <1>1, <2>1, <3>1, ZenonT(60)
  <2>. HIDE DEF t
  <2>4. DOMAIN t = 1..(Len(tabs) - 1)
    BY <2>3
  <2>5. active' \in 1..Len(t)
    <3>1. f \in Nat /\ 1 <= f /\ f <= Len(tabs) /\ Len(t) = Len(tabs) - 1
      BY <1>1, <2>3
    <3>2. CASE f > i \/ f = Len(tabs)
      <4>1. active' = f - 1
        BY <2>2, <3>2
      <4>2. i \in Nat /\ 1 <= i /\ Len(tabs) >= 2
        BY <2>1
      <4>3. f >= 2
        BY <3>1, <3>2, <4>2
      <4>4. QED
        BY <1>1, <3>1, <4>1, <4>3
    <3>3. CASE ~(f > i \/ f = Len(tabs))
      <4>1. active' = f
        BY <2>2, <3>3
      <4>2. f # Len(tabs)
        BY <3>3
      <4>3. f < Len(tabs)
        <5>1. \A a, b \in Nat : a <= b /\ a # b => a < b
          OBVIOUS
        <5>2. Len(tabs) \in Nat
          BY <1>1
        <5>3. QED
          BY ONLY <3>1, <4>2, <5>1, <5>2
      <4>4. QED
        BY <1>1, <3>1, <4>1, <4>3
    <3>4. QED
      BY <3>2, <3>3
  <2>6. \A j \in 1..Len(t) : t[j] < serial
    BY <1>1, <2>3
  <2>7. ASSUME NEW j \in 1..Len(t), NEW k \in 1..Len(t), t[j] = t[k] PROVE j = k
    <3>. DEFINE at(x) == IF x < i THEN x ELSE x + 1
    <3>1. /\ at(j) \in 1..Len(tabs) /\ at(k) \in 1..Len(tabs)
          /\ t[j] = tabs[at(j)] /\ t[k] = tabs[at(k)]
      BY <1>1, <2>1, <2>3
    <3>2. at(j) = at(k)
      BY <1>1, <2>7, <3>1
    <3>3. QED
      BY <1>1, <2>1, <2>3, <3>2
  <2>8. TabsOK(t, active', serial)
    BY <1>1, <2>3, <2>5, <2>6, <2>7 DEF TabsOK
  <2>9. ASSUME NEW d \in Doc, d \in ToSet(t) PROVE d \in ToSet(tabs)
    BY <1>1, <2>1, <2>3, <2>4, <2>9 DEF ToSet
  <2>10. ASSUME NEW d \in Doc, d \in ToSet(tabs), d \notin ToSet(t)
         PROVE  d = tabs[i]
    <3>1. PICK k \in 1..Len(tabs) : d = tabs[k]
      BY <1>1, <2>10 DEF ToSet
    <3>2. CASE k < i
      <4>1. k \in 1..(Len(tabs) - 1) /\ t[k] = tabs[k]
        BY <1>1, <2>1, <2>3, <3>2
      <4>2. QED
        BY <2>4, <2>10, <3>1, <4>1 DEF ToSet
    <3>3. CASE k > i
      <4>1. k - 1 \in 1..(Len(tabs) - 1) /\ t[k - 1] = tabs[k]
        BY <1>1, <2>1, <2>3, <3>3
      <4>2. QED
        BY <2>4, <2>10, <3>1, <4>1 DEF ToSet
    <3>4. CASE k = i
      BY <3>1, <3>4
    <3>5. QED
      BY <2>1, <3>2, <3>3, <3>4
  <2>11. QED
    BY <2>1, <2>2, <2>8, <2>9, <2>10
<1>4. QED
  BY <1>2, <1>3

\* The tabs or the window change, and no document does.
LEMMA ShellMoves ==
    ASSUME Safe, UNCHANGED <<doc, file, spent>>,
           TabsOK(tabs, active, serial)', PromptOK(prompt, drawn, tabs)', WindowOK'
    PROVE  Safe'
<1>1. DocsOK' /\ file' \in [Files -> Contents \cup {Absent}] /\ spent' \in Nat
  BY DEF Safe, DocsOK
<1>2. Pools(doc, OnDisk, spent)'
  <2>1. OnDisk' = OnDisk
    BY DEF OnDisk
  <2>2. QED
    BY <2>1 DEF Safe, Pools
<1>3. QED
  BY <1>1, <1>2 DEF Safe

LEMMA AskedAreTabs ==
    ASSUME Safe, Modal
    PROVE  /\ Asked \subseteq 1..Len(tabs) /\ Len(tabs) \in Nat
           /\ \A i \in Asked : tabs[i] \in Doc
           /\ prompt = <<"window">> => Asked = DirtyTabs
           /\ prompt # <<"window">> =>
                  /\ prompt[2] \in 1..Len(tabs) /\ Asked = {prompt[2]}
<1>1. /\ tabs \in Seq(Doc) /\ Len(tabs) \in Nat
      /\ \A i \in 1..Len(tabs) : tabs[i] \in Doc
  BY DEF Safe, TabsOK
<1>2. CASE prompt = <<"window">>
  BY <1>1, <1>2 DEF Asked, DirtyTabs
<1>3. CASE prompt # <<"window">>
  <2>1. prompt[1] = "tab" /\ prompt[2] \in Nat \ {0} /\ prompt[2] <= Len(tabs)
    BY <1>3 DEF Safe, PromptOK, Modal
  <2>2. Asked = {prompt[2]}
    BY <1>3 DEF Asked
  <2>3. QED
    BY <1>1, <1>3, <2>1, <2>2
<1>4. QED
  BY <1>2, <1>3

\* What the user was asked about is saved or given up, and the tab or the
\* window may go.
LEMMA CarriedOut ==
    ASSUME Safe, Modal, window = "open", NEW f \in 1..Len(tabs), CarryOut(f),
           UNCHANGED serial, prompt' = <<>>, drawn' = FALSE,
           \A d \in Doc : IsOpen(d) /\ ~(\E i \in Asked : d = tabs[i]) /\ ~doc[d].dirty =>
               doc'[d].model \in {doc'[d].kept, doc'[d].answered},
           \A i \in Asked :
               doc'[tabs[i]].model \in {doc'[tabs[i]].kept, doc'[tabs[i]].answered}
    PROVE  TabsOK(tabs, active, serial)' /\ PromptOK(prompt, drawn, tabs)' /\ WindowOK'
<1>1. PromptOK(prompt, drawn, tabs)'
  BY DEF PromptOK
<1>2. /\ TabsOK(tabs, active, serial) /\ tabs \in Seq(Doc) /\ Len(tabs) \in Nat
      /\ DOMAIN tabs = 1..Len(tabs)
  BY DEF Safe, TabsOK
<1>3. CASE prompt = <<"window">>
  <2>1. window' = "confirmed" /\ active' = f /\ UNCHANGED tabs
    BY <1>3 DEF CarryOut
  <2>2. TabsOK(tabs, active, serial)'
    BY <1>2, <2>1 DEF TabsOK
  <2>3. ASSUME NEW d \in Doc, d \in ToSet(tabs)
        PROVE  doc'[d].model \in {doc'[d].kept, doc'[d].answered}
    <3>1. PICK i \in 1..Len(tabs) : d = tabs[i]
      BY <1>2, <2>3 DEF ToSet
    <3>2. CASE doc[d].dirty
      <4>1. i \in Asked
        BY <1>3, <3>1, <3>2 DEF Asked, DirtyTabs
      <4>2. QED
        BY <3>1, <4>1
    <3>3. CASE ~doc[d].dirty
      BY <2>3, <3>3 DEF IsOpen
    <3>4. QED
      BY <3>2, <3>3
  <2>4. WindowOK'
    BY <2>1, <2>3 DEF WindowOK, IsOpen, Answered
  <2>5. QED
    BY <1>1, <2>2, <2>4
<1>4. CASE prompt # <<"window">>
  <2>1. Close(prompt[2], f) /\ UNCHANGED window
    BY <1>4 DEF CarryOut
  <2>2. prompt[2] \in Nat \ {0}
    BY <1>4, AskedAreTabs
  <2>3. TabsOK(tabs', active', serial)
    BY <1>2, <2>1, <2>2, CloseKeeps
  <2>4. TabsOK(tabs, active, serial)'
    BY <2>3 DEF TabsOK
  <2>5. WindowOK'
    BY <2>1 DEF WindowOK
  <2>6. QED
    BY <1>1, <2>4, <2>5
<1>5. QED
  BY <1>3, <1>4

\* What the user's "Save" does, to the first document that refuses.
LEMMA SavesFacts ==
    ASSUME Safe, AnswerSave
    PROVE  \E saved \in SUBSET {tabs[i] : i \in Asked}, all \in BOOLEAN :
             /\ \A d \in Doc :
                    /\ d \in saved => \E p \in Files : doc'[d] = SavedAt(doc[d], p)
                    /\ d \notin saved => doc'[d] = doc[d]
             /\ doc' \in [Doc -> DocType]
             /\ file' \in [Files -> Contents \cup {Absent}]
             /\ \A p \in Files : \/ file'[p] = file[p]
                                 \/ \E d \in saved : file'[p] = doc[d].model
             /\ all => /\ saved = {tabs[i] : i \in Asked}
                       /\ \E f \in 1..Len(tabs) : CarryOut(f)
             /\ ~all => /\ active' \in 1..Len(tabs)
                        /\ UNCHANGED <<tabs, window>>
<1>1. PICK refused \in Asked \cup {Len(tabs) + 1} :
         LET done == {i \in Asked : i < refused}
             saved == {tabs[i] : i \in done}
         IN  \E home \in [saved -> Files] :
                 LET writers(p) == {i \in done : home[tabs[i]] = p} IN
                 /\ \A d \in saved : doc[d].path \in {NoFile, home[d]}
                 /\ file' = [p \in Files |->
                        IF writers(p) = {} THEN file[p]
                        ELSE doc[tabs[Max(writers(p))]].model]
                 /\ doc' = [d \in Doc |->
                        IF d \in saved THEN SavedAt(doc[d], home[d]) ELSE doc[d]]
                 /\ IF refused \in Asked
                    THEN active' = refused /\ UNCHANGED <<tabs, window>>
                    ELSE CarryOut(IF Asked = {} THEN active ELSE Max(Asked))
  BY DEF AnswerSave
<1>. DEFINE done == {i \in Asked : i < refused}
            saved == {tabs[i] : i \in done}
<1>2. PICK home \in [saved -> Files] :
         /\ file' = [p \in Files |->
                IF {i \in done : home[tabs[i]] = p} = {} THEN file[p]
                ELSE doc[tabs[Max({i \in done : home[tabs[i]] = p})]].model]
         /\ doc' = [d \in Doc |->
                IF d \in saved THEN SavedAt(doc[d], home[d]) ELSE doc[d]]
         /\ IF refused \in Asked
            THEN active' = refused /\ UNCHANGED <<tabs, window>>
            ELSE CarryOut(IF Asked = {} THEN active ELSE Max(Asked))
  BY <1>1
<1>3. /\ Asked \subseteq 1..Len(tabs) /\ Len(tabs) \in Nat
      /\ \A i \in Asked : tabs[i] \in Doc
  BY AskedAreTabs DEF AnswerSave
<1>4. /\ doc \in [Doc -> DocType] /\ file \in [Files -> Contents \cup {Absent}]
      /\ \A d \in Doc : DocOK(doc[d])
      /\ active \in 1..Len(tabs)
  BY DEF Safe, DocsOK, TabsOK
<1>5. saved \in SUBSET {tabs[i] : i \in Asked} /\ saved \subseteq Doc
  BY <1>3
<1>6. ASSUME NEW d \in Doc
      PROVE  /\ d \in saved => \E p \in Files : doc'[d] = SavedAt(doc[d], p)
             /\ d \notin saved => doc'[d] = doc[d]
             /\ doc'[d] \in DocType
  <2>1. CASE d \in saved
    <3>1. home[d] \in Files
      BY <2>1
    <3>2. doc'[d] = SavedAt(doc[d], home[d])
      BY <1>2, <2>1
    <3>3. SavedAt(doc[d], home[d]) \in DocType
      BY <1>4, <3>1, SavedAtTyped
    <3>4. QED
      BY <2>1, <3>1, <3>2, <3>3
  <2>2. CASE d \notin saved
    BY <1>2, <1>4, <2>2
  <2>3. QED
    BY <2>1, <2>2
<1>7. doc' \in [Doc -> DocType]
  <2>1. doc' = [d \in Doc |-> doc'[d]]
    BY <1>2
  <2>2. QED
    BY <1>6, <2>1
<1>8. ASSUME NEW p \in Files
      PROVE  \/ file'[p] = file[p]
             \/ \E d \in saved : file'[p] = doc[d].model
  <2>. DEFINE writers == {i \in done : home[tabs[i]] = p}
  <2>1. writers \in SUBSET (1..Len(tabs)) /\ writers \subseteq done
    BY <1>3
  <2>2. file'[p] = IF writers = {} THEN file[p] ELSE doc[tabs[Max(writers)]].model
    BY <1>2
  <2>. HIDE DEF writers
  <2>3. CASE writers = {}
    BY <2>2, <2>3
  <2>4. CASE writers # {}
    <3>1. Max(writers) \in writers
      BY <1>3, <2>1, <2>4, GreatestIsIn
    <3>2. tabs[Max(writers)] \in saved
      BY <2>1, <3>1
    <3>3. QED
      BY <2>2, <2>4, <3>2
  <2>5. QED
    BY <2>3, <2>4
<1>9. file' \in [Files -> Contents \cup {Absent}]
  <2>1. file' = [p \in Files |-> file'[p]]
    BY <1>2
  <2>2. \A d \in saved : doc[d].model \in Contents
    BY <1>4, <1>5 DEF DocType
  <2>3. QED
    BY <1>4, <1>8, <2>1, <2>2
<1>10. CASE refused \in Asked
  <2>1. active' \in 1..Len(tabs) /\ UNCHANGED <<tabs, window>>
    BY <1>2, <1>3, <1>10
  <2>. HIDE DEF saved
  <2>2. QED
    BY <1>5, <1>6, <1>7, <1>8, <1>9, <2>1
<1>11. CASE refused \notin Asked
  <2>1. refused = Len(tabs) + 1
    BY <1>11
  <2>2. done = Asked
    <3>1. \A i \in Asked : i < refused
      BY <1>3, <2>1
    <3>2. QED
      BY <3>1
  <2>3. CarryOut(IF Asked = {} THEN active ELSE Max(Asked))
    BY <1>2, <1>11
  <2>4. (IF Asked = {} THEN active ELSE Max(Asked)) \in 1..Len(tabs)
    <3>1. CASE Asked = {}
      BY <1>4, <3>1
    <3>2. CASE Asked # {}
      <4>1. Max(Asked) \in Asked
        BY <1>3, <3>2, GreatestIsIn
      <4>2. QED
        BY <1>3, <3>2, <4>1
    <3>3. QED
      BY <3>1, <3>2
  <2>5. \E f \in 1..Len(tabs) : CarryOut(f)
    BY <2>3, <2>4
  <2>6. saved = {tabs[i] : i \in Asked}
    BY <2>2
  <2>. HIDE DEF saved
  <2>7. QED
    BY <1>5, <1>6, <1>7, <1>8, <1>9, <2>5, <2>6
<1>12. QED
  BY <1>10, <1>11

LEMMA AnswerSaveSafe == Safe /\ AnswerSave => Safe'
<1> SUFFICES ASSUME Safe, AnswerSave PROVE Safe'
  OBVIOUS
<1>1. PICK saved \in SUBSET {tabs[i] : i \in Asked}, all \in BOOLEAN :
        /\ \A d \in Doc :
               /\ d \in saved => \E p \in Files : doc'[d] = SavedAt(doc[d], p)
               /\ d \notin saved => doc'[d] = doc[d]
        /\ doc' \in [Doc -> DocType]
        /\ file' \in [Files -> Contents \cup {Absent}]
        /\ \A p \in Files : \/ file'[p] = file[p]
                            \/ \E d \in saved : file'[p] = doc[d].model
        /\ all => /\ saved = {tabs[i] : i \in Asked}
                  /\ \E f \in 1..Len(tabs) : CarryOut(f)
        /\ ~all => active' \in 1..Len(tabs) /\ UNCHANGED <<tabs, window>>
  BY SavesFacts
<1>2. /\ window = "open" /\ Modal /\ prompt' = <<>> /\ drawn' = FALSE
      /\ UNCHANGED <<serial, spent>>
  BY DEF AnswerSave
<1>3. \A i \in Asked : tabs[i] \in Doc
  BY <1>2, AskedAreTabs
<1>4. /\ \A d \in Doc : DocOK(doc[d]) /\ doc[d] \in DocType
      /\ spent \in Nat /\ Pools(doc, OnDisk, spent)
      /\ file \in [Files -> Contents \cup {Absent}]
      /\ TabsOK(tabs, active, serial) /\ WindowOK
  BY DEF Safe, DocsOK
<1>5. ASSUME NEW d \in Doc
      PROVE  /\ DocOK(doc'[d]) /\ Ids(doc'[d]) = Ids(doc[d])
             /\ Coming(doc'[d]) = Coming(doc[d])
             /\ doc'[d].withdrawn = doc[d].withdrawn
             /\ d \in saved => doc'[d].model = doc'[d].kept
  <2>1. CASE d \in saved
    <3>1. PICK p \in Files : doc'[d] = SavedAt(doc[d], p)
      BY <1>1, <2>1
    <3>2. QED
      BY <1>4, <3>1, SavedAtKeeps DEF Quiet
  <2>2. CASE d \notin saved
    BY <1>1, <1>4, <2>2
  <2>3. QED
    BY <2>1, <2>2
<1>6. DocsOK'
  BY <1>1, <1>5 DEF DocsOK
<1>7. Pools(doc, OnDisk, spent)'
  <2>1. ASSUME NEW k \in OnDisk'
        PROVE  k \in OnDisk \/ \E d \in Doc : k \in Ids(doc[d])
    <3>1. PICK p \in Files : k \in Named(file'[p])
      BY DEF OnDisk
    <3>2. CASE file'[p] = file[p]
      BY <3>1, <3>2 DEF OnDisk
    <3>3. ASSUME NEW d \in saved, file'[p] = doc[d].model
          PROVE  k \in Ids(doc[d]) /\ d \in Doc
      <4>1. d \in Doc
        BY <1>3
      <4>2. Named(doc[d].model) \subseteq Ids(doc[d])
        BY <1>4, <4>1, StatesAreContents
      <4>3. QED
        BY <3>1, <3>3, <4>1, <4>2
    <3>4. QED
      BY <1>1, <3>2, <3>3
  <2>. DEFINE docs2 == doc'
              disk2 == OnDisk'
  <2>2. /\ \A d \in Doc : /\ Ids(docs2[d]) = Ids(doc[d])
                          /\ Coming(docs2[d]) = Coming(doc[d])
                          /\ docs2[d].withdrawn = doc[d].withdrawn
        /\ \A k \in disk2 : k \in OnDisk \/ \E d \in Doc : k \in Ids(doc[d])
    BY <1>5, <2>1
  <2>. HIDE DEF docs2, disk2
  <2>3. Pools(docs2, disk2, spent)
    BY <1>4, <2>2, PoolsOfMany
  <2>4. QED
    BY <1>2, <2>3 DEF Pools, docs2, disk2
<1>8. TabsOK(tabs, active, serial)' /\ PromptOK(prompt, drawn, tabs)' /\ WindowOK'
  <2>1. CASE all
    <3>1. PICK f \in 1..Len(tabs) : CarryOut(f)
      BY <1>1, <2>1
    <3>2. \A i \in Asked :
            doc'[tabs[i]].model \in {doc'[tabs[i]].kept, doc'[tabs[i]].answered}
      BY <1>1, <1>3, <1>5, <2>1
    <3>3. ASSUME NEW d \in Doc, ~(\E i \in Asked : d = tabs[i]), ~doc[d].dirty
          PROVE  doc'[d].model \in {doc'[d].kept, doc'[d].answered}
      <4>1. d \notin saved
        BY <3>3
      <4>2. doc'[d] = doc[d] /\ doc[d].model = doc[d].kept
        BY <1>1, <1>4, <3>3, <4>1 DEF DocOK, Honest
      <4>3. QED
        BY <4>2
    <3>4. QED
      BY <1>2, <3>1, <3>2, <3>3, CarriedOut
  <2>2. CASE ~all
    <3>1. TabsOK(tabs, active, serial)'
      BY <1>1, <1>2, <1>4, <2>2 DEF TabsOK
    <3>2. PromptOK(prompt, drawn, tabs)'
      BY <1>2 DEF PromptOK
    <3>3. WindowOK'
      BY <1>1, <1>2, <2>2 DEF WindowOK
    <3>4. QED
      BY <3>1, <3>2, <3>3
  <2>3. QED
    BY <2>1, <2>2
<1>9. QED
  BY <1>1, <1>2, <1>4, <1>6, <1>7, <1>8 DEF Safe

LEMMA AnswerDiscardSafe == Safe /\ AnswerDiscard => Safe'
<1> SUFFICES ASSUME Safe, AnswerDiscard PROVE Safe'
  OBVIOUS
<1>. DEFINE given == {tabs[i] : i \in Asked}
<1>1. /\ window = "open" /\ Modal /\ prompt' = <<>> /\ drawn' = FALSE
      /\ UNCHANGED <<serial, file, spent>> /\ CarryOut(active)
      /\ doc' = [d \in Doc |-> IF d \in given
                              THEN [doc[d] EXCEPT !.answered = doc[d].model] ELSE doc[d]]
  BY DEF AnswerDiscard
<1>2. \A i \in Asked : tabs[i] \in Doc
  BY <1>1, AskedAreTabs
<1>3. /\ \A d \in Doc : DocOK(doc[d]) /\ doc[d] \in DocType
      /\ spent \in Nat /\ Pools(doc, OnDisk, spent)
      /\ file \in [Files -> Contents \cup {Absent}]
      /\ active \in 1..Len(tabs)
  BY DEF Safe, DocsOK, TabsOK
<1>. HIDE DEF given
<1>4. ASSUME NEW d \in Doc
      PROVE  /\ DocOK(doc'[d]) /\ Ids(doc'[d]) = Ids(doc[d])
             /\ Coming(doc'[d]) = Coming(doc[d])
             /\ doc'[d].withdrawn = doc[d].withdrawn
             /\ d \in given => doc'[d].model = doc'[d].answered
             /\ d \notin given => doc'[d] = doc[d]
  <2>1. CASE d \in given
    <3>. DEFINE s == [doc[d] EXCEPT !.answered = doc[d].model]
    <3>1. doc'[d] = s
      BY <1>1, <2>1
    <3>2. ASSUME NEW r, DocOK(r)
          PROVE  LET t == [r EXCEPT !.answered = r.model]
                 IN  /\ DocOK(t) /\ Quiet(r, t) /\ Ids(t) = Ids(r)
                     /\ Coming(t) = Coming(r) /\ t.model = r.model
                     /\ t.answered = r.model
      <4>1. "none" \in {"none", "open", "save"}
        OBVIOUS
      <4>2. QED
        BY ONLY <3>2, <4>1, AsideKeeps
    <3>3. /\ DocOK(s) /\ Quiet(doc[d], s) /\ Ids(s) = Ids(doc[d])
          /\ Coming(s) = Coming(doc[d]) /\ s.model = doc[d].model
          /\ s.answered = doc[d].model
      BY <1>3, <3>2
    <3>. HIDE DEF s
    <3>4. QED
      BY <2>1, <3>1, <3>3 DEF Quiet
  <2>2. CASE d \notin given
    BY <1>1, <1>3, <2>2
  <2>3. QED
    BY <2>1, <2>2
<1>5. DocsOK'
  <2>1. doc' = [d \in Doc |-> doc'[d]]
    BY <1>1
  <2>2. QED
    BY <1>4, <2>1 DEF DocsOK, DocOK
<1>6. Pools(doc, OnDisk, spent)'
  <2>1. OnDisk' = OnDisk
    BY <1>1 DEF OnDisk
  <2>2. Pools(doc', OnDisk, spent)
    <3>. DEFINE docs2 == doc'
    <3>1. \A d \in Doc : /\ Ids(docs2[d]) = Ids(doc[d])
                        /\ Coming(docs2[d]) = Coming(doc[d])
                        /\ docs2[d].withdrawn = doc[d].withdrawn
      BY <1>4
    <3>. HIDE DEF docs2
    <3>2. Pools(docs2, OnDisk, spent)
      BY <1>3, <3>1, PoolsOfMany
    <3>3. QED
      BY <3>2 DEF docs2
  <2>3. QED
    BY <1>1, <2>1, <2>2, ZenonT(60) DEF Pools
<1>7. TabsOK(tabs, active, serial)' /\ PromptOK(prompt, drawn, tabs)' /\ WindowOK'
  <2>1. \A i \in Asked :
          doc'[tabs[i]].model \in {doc'[tabs[i]].kept, doc'[tabs[i]].answered}
    BY <1>2, <1>4 DEF given
  <2>2. ASSUME NEW d \in Doc, ~(\E i \in Asked : d = tabs[i]), ~doc[d].dirty
        PROVE  doc'[d].model \in {doc'[d].kept, doc'[d].answered}
    <3>1. doc'[d] = doc[d] /\ doc[d].model = doc[d].kept
      BY <1>3, <1>4, <2>2 DEF given, DocOK, Honest
    <3>2. QED
      BY <3>1
  <2>3. QED
    BY <1>1, <1>3, <2>1, <2>2, CarriedOut
<1>8. QED
  BY <1>1, <1>3, <1>5, <1>6, <1>7 DEF Safe

LEMMA ShellSafe == Safe /\ Shell => Safe'
<1> SUFFICES ASSUME Safe, Shell PROVE Safe'
  OBVIOUS
<1>1. /\ TabsOK(tabs, active, serial) /\ PromptOK(prompt, drawn, tabs) /\ WindowOK
      /\ tabs \in Seq(Doc) /\ Len(tabs) \in Nat /\ active \in 1..Len(tabs)
      /\ serial \in Nat
      /\ \A i \in 1..Len(tabs) : tabs[i] < serial
      /\ \A i, j \in 1..Len(tabs) : tabs[i] = tabs[j] => i = j
  BY DEF Safe, TabsOK
<1>2. CASE OpenTab
  <2>1. /\ window = "open" /\ ~Modal /\ serial \in Doc
        /\ tabs' = Append(tabs, serial) /\ active' = Len(tabs) + 1
        /\ serial' = serial + 1
        /\ UNCHANGED <<prompt, drawn, window, doc, file, spent>>
    BY <1>2 DEF OpenTab
  <2>2. /\ tabs' \in Seq(Doc) /\ Len(tabs') = Len(tabs) + 1
        /\ \A i \in 1..(Len(tabs) + 1) :
               tabs'[i] = IF i = Len(tabs) + 1 THEN serial ELSE tabs[i]
    BY <1>1, <2>1
  <2>3. ASSUME NEW i \in 1..Len(tabs') PROVE tabs'[i] < serial'
    <3>1. CASE i = Len(tabs) + 1
      <4>1. tabs'[i] = serial
        BY <2>2, <3>1
      <4>2. QED
        BY <1>1, <2>1, <4>1
    <3>2. CASE i # Len(tabs) + 1
      <4>1. i \in 1..Len(tabs) /\ tabs'[i] = tabs[i]
        BY <1>1, <2>2, <3>2
      <4>2. tabs[i] \in Doc /\ tabs[i] < serial
        BY <1>1, <4>1
      <4>3. tabs[i] \in Nat
        BY <4>2 DEF Doc
      <4>4. QED
        BY <1>1, <2>1, <4>1, <4>2, <4>3
    <3>3. QED
      BY <3>1, <3>2
  <2>4. ASSUME NEW i \in 1..Len(tabs'), NEW j \in 1..Len(tabs'), tabs'[i] = tabs'[j]
        PROVE  i = j
    BY <1>1, <2>2, <2>4
  <2>5. TabsOK(tabs, active, serial)'
    BY <1>1, <2>1, <2>2, <2>3, <2>4 DEF TabsOK
  <2>6. PromptOK(prompt, drawn, tabs)'
    BY <1>1, <2>1 DEF PromptOK, Modal
  <2>7. WindowOK'
    BY <2>1 DEF WindowOK
  <2>8. QED
    BY <2>1, <2>5, <2>6, <2>7, ShellMoves
<1>3. CASE CloseWindow
  <2>1. /\ UNCHANGED <<tabs, active, serial, doc, file, spent>>
        /\ window' \in {"open", "gone"}
        /\ \/ UNCHANGED <<prompt, drawn>>
           \/ prompt' = <<"window">> /\ drawn' = FALSE
    BY <1>3 DEF CloseWindow
  <2>2. TabsOK(tabs, active, serial)' /\ PromptOK(prompt, drawn, tabs)'
    <3>1. TabsOK(tabs, active, serial)'
      BY <1>1, <2>1 DEF TabsOK
    <3>2. PromptOK(prompt, drawn, tabs)'
      <4>1. CASE UNCHANGED <<prompt, drawn>>
        BY <1>1, <2>1, <4>1 DEF PromptOK
      <4>2. CASE prompt' = <<"window">> /\ drawn' = FALSE
        BY <4>2 DEF PromptOK
      <4>3. QED
        BY <2>1, <4>1, <4>2
    <3>3. QED
      BY <3>1, <3>2
  <2>3. WindowOK'
    BY <2>1 DEF WindowOK
  <2>4. QED
    BY <2>1, <2>2, <2>3, ShellMoves
<1>4. CASE DrawPrompt
  <2>1. /\ window = "open" /\ prompt # <<>>
        /\ UNCHANGED <<tabs, active, window, serial, doc, file, spent>>
        /\ IF prompt[1] = "tab" /\ prompt[2] > Len(tabs)
           THEN prompt' = <<>> /\ drawn' = FALSE
           ELSE drawn' = TRUE /\ UNCHANGED prompt
    BY <1>4, <1>1 DEF DrawPrompt, PromptOK
  <2>2. TabsOK(tabs, active, serial)' /\ WindowOK'
    BY <1>1, <2>1 DEF TabsOK, WindowOK
  <2>3. PromptOK(prompt, drawn, tabs)'
    <3>1. CASE prompt[1] = "tab" /\ prompt[2] > Len(tabs)
      BY <2>1, <3>1 DEF PromptOK
    <3>2. CASE ~(prompt[1] = "tab" /\ prompt[2] > Len(tabs))
      <4>1. /\ prompt \in {<<>>, <<"window">>} \cup ({"tab"} \X (Nat \ {0}))
            /\ prompt' = prompt /\ drawn' = TRUE /\ tabs' = tabs /\ prompt # <<>>
        BY <1>1, <2>1, <3>2 DEF PromptOK
      <4>2. prompt[1] = "tab" => prompt[2] <= Len(tabs)
        <5>1. CASE prompt = <<"window">>
          BY <5>1
        <5>2. CASE prompt \in {"tab"} \X (Nat \ {0})
          <6>1. prompt[2] \in Nat
            BY <5>2
          <6>2. prompt[1] = "tab" => ~(prompt[2] > Len(tabs))
            BY <3>2
          <6>3. QED
            BY <1>1, <6>1, <6>2
        <5>3. QED
          BY <4>1, <5>1, <5>2
      <4>3. QED
        BY <4>1, <4>2 DEF PromptOK
    <3>3. QED
      BY <3>1, <3>2
  <2>4. QED
    BY <2>1, <2>2, <2>3, ShellMoves
<1>5. CASE WindowGoes
  <2>1. /\ window' = "gone"
        /\ UNCHANGED <<tabs, active, prompt, drawn, serial, doc, file, spent>>
    BY <1>5 DEF WindowGoes
  <2>2. /\ TabsOK(tabs, active, serial)' /\ PromptOK(prompt, drawn, tabs)'
        /\ WindowOK'
    BY <1>1, <2>1 DEF TabsOK, PromptOK, WindowOK
  <2>3. QED
    BY <2>1, <2>2, ShellMoves
<1>6. CASE AnswerCancel
  <2>1. /\ window = "open" /\ prompt' = <<>> /\ drawn' = FALSE
        /\ UNCHANGED <<tabs, active, window, serial, doc, file, spent>>
    BY <1>6 DEF AnswerCancel
  <2>2. /\ TabsOK(tabs, active, serial)' /\ PromptOK(prompt, drawn, tabs)'
        /\ WindowOK'
    BY <1>1, <2>1 DEF TabsOK, PromptOK, WindowOK
  <2>3. QED
    BY <2>1, <2>2, ShellMoves
<1>7. ASSUME NEW i \in 1..Len(tabs), RequestClose(i) PROVE Safe'
  <2>1. /\ window = "open" /\ ~Modal
        /\ UNCHANGED <<window, serial, doc, file, spent>>
        /\ \/ /\ prompt' = <<"tab", i>> /\ drawn' = FALSE
              /\ UNCHANGED <<tabs, active>>
           \/ Close(i, active) /\ UNCHANGED <<prompt, drawn>>
    BY <1>7 DEF RequestClose, Modal
  <2>2. WindowOK'
    BY <2>1 DEF WindowOK
  <2>3. i \in Nat \ {0}
    BY <1>1
  <2>4. TabsOK(tabs, active, serial)' /\ PromptOK(prompt, drawn, tabs)'
    <3>1. CASE prompt' = <<"tab", i>> /\ drawn' = FALSE /\ UNCHANGED <<tabs, active>>
      BY <1>1, <2>1, <2>3, <3>1 DEF TabsOK, PromptOK
    <3>2. CASE Close(i, active) /\ UNCHANGED <<prompt, drawn>>
      <4>1. TabsOK(tabs', active', serial)
        BY <1>1, <2>3, <3>2, CloseKeeps
      <4>2. TabsOK(tabs, active, serial)'
        BY <2>1, <4>1 DEF TabsOK
      <4>3. PromptOK(prompt, drawn, tabs)'
        BY <1>1, <2>1, <3>2 DEF PromptOK, Modal
      <4>4. QED
        BY <4>2, <4>3
    <3>3. QED
      BY <2>1, <3>1, <3>2
  <2>5. QED
    BY <2>1, <2>2, <2>4, ShellMoves
<1>8. ASSUME NEW i \in 1..Len(tabs), Activate(i) PROVE Safe'
  <2>1. /\ window = "open" /\ active' = i
        /\ UNCHANGED <<tabs, prompt, drawn, window, serial, doc, file, spent>>
    BY <1>8 DEF Activate
  <2>2. /\ TabsOK(tabs, active, serial)' /\ PromptOK(prompt, drawn, tabs)'
        /\ WindowOK'
    BY <1>1, <2>1 DEF TabsOK, PromptOK, WindowOK
  <2>3. QED
    BY <2>1, <2>2, ShellMoves
<1>9. QED
  BY <1>2, <1>3, <1>4, <1>5, <1>6, <1>7, <1>8, AnswerSaveSafe, AnswerDiscardSafe DEF Shell

LEMMA SafeNext == Safe /\ [WorkbenchNext]_workbenchVars => Safe'
<1> SUFFICES ASSUME Safe, [WorkbenchNext]_workbenchVars PROVE Safe'
  OBVIOUS
<1>1. CASE UNCHANGED workbenchVars
  <2>1. UNCHANGED <<tabs, active, prompt, drawn, window, serial, doc, file, spent>>
    BY <1>1 DEF workbenchVars
  <2>2. /\ TabsOK(tabs, active, serial)' /\ PromptOK(prompt, drawn, tabs)'
        /\ WindowOK'
    BY <2>1 DEF Safe, TabsOK, PromptOK, WindowOK, IsOpen, Answered
  <2>3. QED
    BY <2>1, <2>2, ShellMoves
<1>2. QED
  BY <1>1, ShellSafe, ModellingSafe, FilingSafe, PollSafe, WorkerSafe DEF WorkbenchNext

LEMMA AlwaysSafe == WorkbenchSpec => []Safe
BY SafeInit, SafeNext, PTL DEF WorkbenchSpec
-----------------------------------------------------------------------------
(* What the invariant says of the runs' properties.                        *)

LEMMA SafeIsTyped == Safe => WorkbenchTypeOK
<1> SUFFICES ASSUME Safe PROVE WorkbenchTypeOK
  OBVIOUS
<1>1. /\ tabs \in Seq(Doc) /\ Len(tabs) \in Nat /\ DOMAIN tabs = 1..Len(tabs)
      /\ active \in 1..Len(tabs) /\ serial \in Nat
      /\ \A i \in 1..Len(tabs) : tabs[i] \in Doc /\ tabs[i] < serial
      /\ \A i, j \in 1..Len(tabs) : tabs[i] = tabs[j] => i = j
  BY DEF Safe, TabsOK
<1>2. IsInjective(tabs)
  BY <1>1 DEF IsInjective
<1>3. ToSet(tabs) \subseteq 1..(serial - 1)
  <2>1. ASSUME NEW d \in ToSet(tabs) PROVE d \in 1..(serial - 1)
    <3>1. d \in Doc /\ d < serial
      BY <1>1, <2>1 DEF ToSet
    <3>2. d \in Nat /\ 1 <= d
      BY <3>1 DEF Doc
    <3>3. QED
      BY <1>1, <3>1, <3>2
  <2>2. QED
    BY <2>1
<1>4. /\ prompt \in {<<>>, <<"window">>} \cup ({"tab"} \X (Nat \ {0}))
      /\ drawn => prompt # <<>> /\ (prompt[1] = "tab" => prompt[2] <= Len(tabs))
  BY DEF Safe, PromptOK
<1>5. ASSUME NEW d \in Doc
      PROVE  /\ doc[d].model.cursor \in 0..Len(doc[d].model.features)
             /\ doc[d].pending \in {"none", "extrude", "edit", "open"}
             /\ doc[d].running \in {"none", "computing", "ok", "failed"}
             /\ doc[d].target \in Files \cup {NoFile}
             /\ doc[d].asking \in Files \cup {NoFile}
  <2>1. doc[d] \in DocType
    BY DEF Safe, DocsOK
  <2>2. doc[d].model \in Contents
    BY <2>1 DEF DocType
  <2>3. QED
    BY <2>1, <2>2, ContentsAre DEF DocType, Path
<1>6. QED
  BY <1>1, <1>2, <1>3, <1>4, <1>5 DEF WorkbenchTypeOK

\* Whatever is opened, closed, saved, edited and undone, the window shows one
\* of its tabs, its tabs are distinct documents, its prompt is about a tab
\* and every document is well-formed.
THEOREM TypeCorrect == WorkbenchSpec => []WorkbenchTypeOK
BY AlwaysSafe, SafeIsTyped, PTL

LEMMA SafeIsSteady == Safe => OneOperationAtATime
<1> SUFFICES ASSUME Safe, NEW d \in Doc PROVE Steady(doc[d])
  BY DEF OneOperationAtATime, Steady
<1>1. QED
  BY DEF Safe, DocsOK, DocOK

\* What is computed is what is staged, on the features and at the cursor it
\* was staged at, until an open is staged over it.
THEOREM OperationsTakeTurns == WorkbenchSpec => []OneOperationAtATime
BY AlwaysSafe, SafeIsSteady, PTL

LEMMA SafeKeepsOut == Safe => WithdrawnNeverLands
<1> SUFFICES ASSUME Safe, NEW d \in Doc, NEW k \in doc[d].withdrawn
             PROVE  /\ \A e \in Doc : \A c \in States(doc[e]) : k \notin Named(c)
                    /\ \A p \in Files : k \notin Named(file[p])
  BY DEF WithdrawnNeverLands, States, Named
<1>1. /\ \A e \in Doc : k \notin Ids(doc[e])
      /\ k \notin OnDisk
  BY DEF Safe, Pools
<1>2. QED
  BY <1>1 DEF Ids, OnDisk

\* An extrusion taken back is in no state of any document and in no file, for
\* any number of documents, extrusions and answers that come late.
THEOREM WithdrawnStaysOut == WorkbenchSpec => []WithdrawnNeverLands
BY AlwaysSafe, SafeKeepsOut, PTL

-----------------------------------------------------------------------------
(* A document leaves the window only by the shell's actions.               *)

Leaves(d) ==
    \/ IsOpen(d) /\ ~IsOpen(d)'
    \/ IsOpen(d) /\ window # "gone" /\ window' = "gone"

LEMMA OnlyTheShellCloses ==
    ASSUME Modelling \/ Filing \/ Poll \/ \E e \in Doc : Worker(e)
    PROVE  \A d \in Doc : ~Leaves(d)
<1>1. UNCHANGED <<tabs, window>>
  <2>1. CASE Modelling
    <3>1. StageExtrusion => UNCHANGED <<tabs, window>>
      BY DEF StageExtrusion, Becomes
    <3>2. ConfirmExtrusion => UNCHANGED <<tabs, window>>
      BY DEF ConfirmExtrusion, Becomes
    <3>3. CancelOperation \/ Hide => UNCHANGED <<tabs, window>>
      BY DEF CancelOperation, Hide, Becomes
    <3>4. Undo \/ Redo => UNCHANGED <<tabs, window>>
      BY DEF Undo, Redo, Becomes
    <3>5. ASSUME NEW i, NEW opens
          PROVE  StageEdit(i, opens) => UNCHANGED <<tabs, window>>
      BY DEF StageEdit, Becomes
    <3>6. ASSUME NEW accepted
          PROVE  ConfirmEdit(accepted) => UNCHANGED <<tabs, window>>
      BY DEF ConfirmEdit, Becomes
    <3>7. ASSUME NEW position PROVE  Scrub(position) => UNCHANGED <<tabs, window>>
      BY DEF Scrub, Becomes
    <3>8. QED
      BY <2>1, <3>1, <3>2, <3>3, <3>4, <3>5, <3>6, <3>7 DEF Modelling
  <2>2. CASE Filing
    <3>1. ASSUME NEW p
          PROVE  /\ Open(p) => UNCHANGED <<tabs, window>>
                 /\ AcceptPath(p) => UNCHANGED <<tabs, window>>
      BY DEF Open, AcceptPath, Becomes
    <3>2. ASSUME NEW p
          PROVE  /\ Save(p) => UNCHANGED <<tabs, window>>
                 /\ TypePath(p) => UNCHANGED <<tabs, window>>
      BY DEF Save, TypePath, Becomes
    <3>3. DismissPath \/ AnswerOpen => UNCHANGED <<tabs, window>>
      BY DEF DismissPath, AnswerOpen, Becomes
    <3>4. ASSUME NEW suppressed
          PROVE  ConfirmOpen(suppressed) => UNCHANGED <<tabs, window>>
      BY DEF ConfirmOpen, Becomes
    <3>5. QED
      BY <2>2, <3>1, <3>2, <3>3, <3>4 DEF Filing
  <2>3. CASE Poll
    BY <2>3 DEF Poll, Becomes
  <2>4. CASE \E e \in Doc : Worker(e)
    BY <2>4 DEF Worker, Compute
  <2>5. QED
    BY <2>1, <2>2, <2>3, <2>4
<1>2. QED
  BY <1>1 DEF Leaves, IsOpen

\* A tab that is closed, by CarryOut or directly, takes only itself away.
LEMMA OnlyTheTabLeaves ==
    ASSUME Safe, NEW i \in Nat \ {0}, NEW f \in 1..Len(tabs), Close(i, f),
           UNCHANGED window, NEW d \in Doc, Leaves(d)
    PROVE  i <= Len(tabs) /\ d = tabs[i]
<1>1. TabsOK(tabs, active, serial)
  BY DEF Safe
<1>2. d \in ToSet(tabs) /\ d \notin ToSet(tabs')
  BY DEF Leaves, IsOpen
<1>3. QED
  BY <1>1, <1>2, CloseKeeps

LEMMA OnlyTheAskedLeave ==
    ASSUME Safe, Modal, window = "open", NEW f \in 1..Len(tabs), CarryOut(f),
           NEW d \in Doc, Leaves(d)
    PROVE  \E i \in Asked : d = tabs[i]
<1>1. CASE prompt = <<"window">>
  <2>1. window' = "confirmed" /\ UNCHANGED tabs
    BY <1>1 DEF CarryOut
  <2>2. QED
    BY <2>1 DEF Leaves, IsOpen
<1>2. CASE prompt # <<"window">>
  <2>1. Close(prompt[2], f) /\ UNCHANGED window
    BY <1>2 DEF CarryOut
  <2>2. prompt[2] \in Nat \ {0} /\ Asked = {prompt[2]}
    BY <1>2, AskedAreTabs
  <2>3. d = tabs[prompt[2]]
    BY <2>1, <2>2, OnlyTheTabLeaves
  <2>4. QED
    BY <2>2, <2>3
<1>3. QED
  BY <1>1, <1>2

LEMMA LeavesUnasked ==
    ASSUME Safe, WorkbenchNext, NEW d \in Doc, Leaves(d)
    PROVE  doc[d].model \in {doc'[d].kept, doc'[d].answered}
<1>1. /\ DocOK(doc[d]) /\ Honest(doc[d]) /\ active \in 1..Len(tabs)
      /\ Len(tabs) \in Nat /\ DOMAIN tabs = 1..Len(tabs)
      /\ \A i \in 1..Len(tabs) : tabs[i] \in Doc
  BY DEF Safe, DocsOK, DocOK, TabsOK
<1>2. PICK i \in 1..Len(tabs) : d = tabs[i]
  BY <1>1 DEF Leaves, IsOpen, ToSet
<1>3. CASE OpenTab
  <2>1. tabs' = Append(tabs, serial) /\ UNCHANGED window /\ serial \in Doc
        /\ tabs \in Seq(Doc)
    BY <1>3 DEF OpenTab, Safe, TabsOK
  <2>2. ToSet(tabs') = ToSet(tabs) \cup {serial}
    BY <2>1, SetOfLonger
  <2>3. QED
    BY <2>1, <2>2 DEF Leaves, IsOpen
<1>4. CASE CloseWindow
  <2>1. UNCHANGED <<tabs, doc>> /\ (DirtyTabs = {} \/ UNCHANGED window)
    BY <1>4 DEF CloseWindow
  <2>2. DirtyTabs = {}
    BY <2>1 DEF Leaves, IsOpen
  <2>3. ~doc[d].dirty
    BY <1>2, <2>2 DEF DirtyTabs
  <2>4. QED
    BY <1>1, <2>1, <2>3 DEF Honest
<1>5. CASE DrawPrompt \/ AnswerCancel
  <2>1. UNCHANGED <<tabs, window>>
    BY <1>5 DEF DrawPrompt, AnswerCancel
  <2>2. QED
    BY <2>1 DEF Leaves, IsOpen
<1>6. CASE WindowGoes
  <2>1. window = "confirmed" /\ UNCHANGED <<tabs, doc>>
    BY <1>6 DEF WindowGoes
  <2>2. IsOpen(d)
    BY DEF Leaves
  <2>3. Answered(d)
    BY <2>1, <2>2 DEF Safe, WindowOK
  <2>4. QED
    BY <2>1, <2>3 DEF Answered
<1>7. ASSUME NEW j \in 1..Len(tabs), RequestClose(j)
      PROVE  doc[d].model \in {doc'[d].kept, doc'[d].answered}
  <2>1. /\ UNCHANGED <<window, doc>>
        /\ UNCHANGED tabs \/ (Close(j, active) /\ ~doc[tabs[j]].dirty)
    BY <1>7 DEF RequestClose
  <2>2. CASE UNCHANGED tabs
    BY <2>1, <2>2 DEF Leaves, IsOpen
  <2>3. CASE Close(j, active) /\ ~doc[tabs[j]].dirty
    <3>1. j \in Nat \ {0}
      BY <1>1
    <3>2. d = tabs[j]
      BY <1>1, <2>1, <2>3, <3>1, OnlyTheTabLeaves
    <3>3. QED
      BY <1>1, <2>1, <2>3, <3>2 DEF Honest
  <2>4. QED
    BY <2>1, <2>2, <2>3
<1>8. ASSUME NEW j \in 1..Len(tabs), Activate(j)
      PROVE  doc[d].model \in {doc'[d].kept, doc'[d].answered}
  <2>1. UNCHANGED <<tabs, window>>
    BY <1>8 DEF Activate
  <2>2. QED
    BY <2>1 DEF Leaves, IsOpen
<1>9. CASE AnswerSave
  <2>1. Modal /\ window = "open"
    BY <1>9 DEF AnswerSave
  <2>2. PICK saved \in SUBSET {tabs[k] : k \in Asked}, all \in BOOLEAN :
          /\ \A e \in Doc :
                 /\ e \in saved => \E p \in Files : doc'[e] = SavedAt(doc[e], p)
                 /\ e \notin saved => doc'[e] = doc[e]
          /\ all => /\ saved = {tabs[k] : k \in Asked}
                    /\ \E f \in 1..Len(tabs) : CarryOut(f)
          /\ ~all => UNCHANGED <<tabs, window>>
    BY <1>9, SavesFacts
  <2>3. CASE all
    <3>1. \E k \in Asked : d = tabs[k]
      BY <2>1, <2>2, <2>3, OnlyTheAskedLeave
    <3>2. PICK p \in Files : doc'[d] = SavedAt(doc[d], p)
      BY <2>2, <2>3, <3>1
    <3>3. doc'[d].kept = doc[d].model
      BY <1>1, <3>2 DEF SavedAt, DocOK, DocType
    <3>4. QED
      BY <3>3
  <2>4. CASE ~all
    BY <2>2, <2>4 DEF Leaves, IsOpen
  <2>5. QED
    BY <2>3, <2>4
<1>10. CASE AnswerDiscard
  <2>1. /\ Modal /\ window = "open" /\ CarryOut(active)
        /\ doc' = [e \in Doc |-> IF e \in {tabs[k] : k \in Asked}
                                THEN [doc[e] EXCEPT !.answered = doc[e].model]
                                ELSE doc[e]]
    BY <1>10 DEF AnswerDiscard
  <2>2. d \in {tabs[k] : k \in Asked}
    BY <1>1, <2>1, OnlyTheAskedLeave
  <2>3. doc'[d] = [doc[d] EXCEPT !.answered = doc[d].model]
    BY <2>1, <2>2
  <2>4. doc'[d].answered = doc[d].model
    BY <1>1, <2>3 DEF DocOK, DocType
  <2>5. QED
    BY <2>4
<1>11. QED
  BY <1>3, <1>4, <1>5, <1>6, <1>7, <1>8, <1>9, <1>10, OnlyTheShellCloses
  DEF WorkbenchNext, Shell

LEMMA NothingStaysBehind ==
    Safe /\ [WorkbenchNext]_workbenchVars =>
        [\A d \in Doc :
             \/ IsOpen(d) /\ ~IsOpen(d)'
             \/ IsOpen(d) /\ window # "gone" /\ window' = "gone"
             => doc[d].model \in {doc'[d].kept, doc'[d].answered}]_workbenchVars
<1> SUFFICES ASSUME Safe, WorkbenchNext, NEW d \in Doc, Leaves(d)
             PROVE  doc[d].model \in {doc'[d].kept, doc'[d].answered}
  BY DEF Leaves
<1>1. QED
  BY LeavesUnasked

\* No document leaves the window, alone or with it, holding what neither its
\* file was given nor the user, asked about it, gave up; for any number of
\* documents, files and edits.
THEOREM NothingLeavesUnasked == WorkbenchSpec => ClosingAsks
<1>1. WorkbenchSpec => [][WorkbenchNext]_workbenchVars
  BY PTL DEF WorkbenchSpec
<1>2. QED
  BY <1>1, AlwaysSafe, NothingStaysBehind, PTL DEF ClosingAsks
=============================================================================
