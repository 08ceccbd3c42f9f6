------------------------ MODULE KernelSession_proofs ------------------------
(***************************************************************************)
(* Proofs about the kernel session: it is what its journal builds, and     *)
(* undo and redo walk along one line.                                      *)
(*                                                                         *)
(* A command that is done Adds to the session it is done on: steps whose   *)
(* labels are new and belong to it, above the steps that were there, and   *)
(* the newest of those is a journal entry of its own.  That is why taking  *)
(* back the newest steps that belong to a label gives back the very        *)
(* session it was done on, whether an instance was refused or the command  *)
(* is undone.  The session is then the last of a Trail of sessions, each   *)
(* by the next command of the journal, and the replay is that trail.       *)
(***************************************************************************)
EXTENDS KernelSession, PrefixTheorems, SequenceTheorems, TLAPS

Labels == Seq(Nat)
Steps == [step : Labels, read : Nat]
Bodies == Seq(Steps)
Snapshots == UNION {[D -> Bodies] : D \in SUBSET Labels}
Undoables == [body : Bodies, command : Menu]
SessionSet ==
    [journal : Seq(Menu), order : Seq(Labels), steps : Snapshots,
     sketches : SUBSET Labels, body : Bodies, undo : Seq(Undoables), redo : Seq(Menu)]

LEMMA MenuFacts ==
    ASSUME NEW c \in Menu
    PROVE  c.kind \in Kinds /\ c.label \in Labels
  BY SessionAssumption DEF Labels

LEMMA SessionFields ==
    ASSUME NEW s \in SessionSet
    PROVE  /\ s.journal \in Seq(Menu) /\ Len(s.journal) \in Nat
           /\ DOMAIN s.journal = 1..Len(s.journal)
           /\ s.order \in Seq(Labels) /\ Len(s.order) \in Nat
           /\ DOMAIN s.order = 1..Len(s.order)
           /\ \A i \in 1..Len(s.order) : s.order[i] \in Labels
           /\ s.steps \in Snapshots /\ DOMAIN s.steps \subseteq Labels
           /\ s.steps \in [DOMAIN s.steps -> Bodies]
           /\ \A l \in DOMAIN s.steps : s.steps[l] \in Bodies
           /\ s.sketches \subseteq Labels /\ s.body \in Bodies
           /\ s.undo \in Seq(Undoables) /\ Len(s.undo) \in Nat
           /\ s.redo \in Seq(Menu) /\ Len(s.redo) \in Nat
<1>1. /\ s.journal \in Seq(Menu) /\ s.order \in Seq(Labels) /\ s.steps \in Snapshots
      /\ s.sketches \subseteq Labels /\ s.body \in Bodies
      /\ s.undo \in Seq(Undoables) /\ s.redo \in Seq(Menu)
  BY DEF SessionSet
<1>2. PICK D \in SUBSET Labels : s.steps \in [D -> Bodies]
  BY <1>1 DEF Snapshots
<1>3. DOMAIN s.steps = D
  BY <1>2
<1>4. /\ s.steps \in [DOMAIN s.steps -> Bodies] /\ DOMAIN s.steps \subseteq Labels
      /\ \A l \in DOMAIN s.steps : s.steps[l] \in Bodies
  BY <1>2, <1>3
<1>5. QED
  BY <1>1, <1>4

\* A function on labels is in Snapshots.
LEMMA SnapshotsAre ==
    ASSUME NEW D \in SUBSET Labels, NEW f \in [D -> Bodies]
    PROVE  f \in Snapshots
  BY DEF Snapshots

\* Sessions with the same fields are the same.
LEMMA SameSession ==
    ASSUME NEW s \in SessionSet, NEW r \in SessionSet,
           s.journal = r.journal, s.order = r.order, s.steps = r.steps,
           s.sketches = r.sketches, s.body = r.body, s.undo = r.undo, s.redo = r.redo
    PROVE  s = r
  BY DEF SessionSet

LEMMA NewIsASession == New \in SessionSet
<1>1. \A S : <<>> \in Seq(S)
  BY EmptySeq
<1>2. <<>> \in Seq(Bodies) /\ Len(<<>>) = 0
  BY EmptySeq
<1>3. <<>> \in [1..0 -> Bodies]
  BY <1>2, LenProperties
<1>4. 1..0 \in SUBSET Labels
  OBVIOUS
<1>5. <<>> \in Snapshots
  BY <1>3, <1>4, SnapshotsAre
<1>6. QED
  BY <1>1, <1>5 DEF New, SessionSet, Bodies

-----------------------------------------------------------------------------
(* Well-formed sessions.                                                   *)

Distinct(q) == \A i, j \in 1..Len(q) : q[i] = q[j] => i = j
Lists(q, D) == \A l : l \in D <=> \E i \in 1..Len(q) : q[i] = l

\* The steps are those that order lists, once each, and every journal entry
\* can be undone.
Well(s) ==
    /\ s \in SessionSet
    /\ Distinct(s.order) /\ Lists(s.order, Used(s))
    /\ Len(s.undo) = Len(s.journal)

\* No panic has torn it: the newest step is the newest journal entry's.
Whole(s) ==
    /\ Well(s)
    /\ \A i \in 1..Len(s.journal) :
           s.journal[i].label \in Used(s) /\ s.undo[i].command = s.journal[i]
    /\ s.sketches \subseteq Used(s)
    /\ s.journal = <<>> => s.order = <<>>
    /\ s.journal # <<>> => s.order # <<>> /\ Last(s.order) = Last(s.journal).label

LEMMA NewIsWhole == Whole(New)
<1>1. New \in SessionSet
  BY NewIsASession
<1>2. New.order = <<>> /\ New.steps = <<>> /\ New.journal = <<>> /\ New.undo = <<>>
      /\ New.sketches = {} /\ Len(<<>>) = 0 /\ DOMAIN <<>> = {}
  BY DEF New
<1>3. QED
  BY <1>1, <1>2 DEF Whole, Well, Distinct, Lists, Used

-----------------------------------------------------------------------------
(* Steps that are added.                                                   *)

Under(label, l) == l = label \/ IsStrictPrefix(label, l)

\* r has the steps of s, and above them new ones that belong to label.
Adds(s, r, label) ==
    /\ Len(s.order) <= Len(r.order) /\ Distinct(r.order)
    /\ \A i \in 1..Len(s.order) : r.order[i] = s.order[i]
    /\ \A i \in (Len(s.order) + 1)..Len(r.order) :
           r.order[i] \notin Used(s) /\ Under(label, r.order[i])
    /\ Lists(r.order, Used(r))
    /\ \A l \in Used(s) : l \in Used(r) /\ r.steps[l] = s.steps[l]
    /\ s.sketches \subseteq r.sketches
    /\ \A l \in r.sketches \ s.sketches :
           \E i \in (Len(s.order) + 1)..Len(r.order) : r.order[i] = l

LEMMA NothingAdded ==
    ASSUME NEW s, Well(s), NEW label
    PROVE  Adds(s, s, label)
<1>1. Len(s.order) \in Nat
  BY SessionFields DEF Well
<1>2. QED
  BY <1>1 DEF Well, Adds

\* One step more.
Tops(r, t, l) ==
    /\ t.order = Append(r.order, l)
    /\ Used(t) = Used(r) \cup {l} /\ \A k \in Used(r) : t.steps[k] = r.steps[k]
    /\ r.sketches \subseteq t.sketches /\ t.sketches \subseteq r.sketches \cup {l}

LEMMA OneMoreAdded ==
    ASSUME NEW s, Well(s), NEW label, NEW r \in SessionSet, NEW t \in SessionSet, NEW l,
           Adds(s, r, label), Tops(r, t, l), l \in Labels, l \notin Used(r), Under(label, l)
    PROVE  Adds(s, t, label)
<1>. DEFINE n == Len(r.order)
<1>1. /\ n \in Nat /\ r.order \in Seq(Labels) /\ Len(s.order) \in Nat
      /\ Len(s.order) <= n
  BY SessionFields DEF Adds, Well
<1>2. /\ Len(t.order) = n + 1 /\ t.order[n + 1] = l
      /\ \A i \in 1..n : t.order[i] = r.order[i]
  BY <1>1, AppendProperties DEF Tops
<1>. HIDE DEF n
<1>3. \A i \in 1..n : r.order[i] \in Used(r)
  BY DEF Adds, Lists, n
<1>4. Distinct(t.order)
  <2>1. \A i, j \in 1..n : r.order[i] = r.order[j] => i = j
    BY DEF Adds, Distinct, n
  <2>2. QED
    BY <1>1, <1>2, <1>3, <2>1 DEF Distinct
<1>5. Lists(t.order, Used(t))
  <2>1. \A k : k \in Used(r) <=> \E i \in 1..n : r.order[i] = k
    BY DEF Adds, Lists, n
  <2>2. ASSUME NEW k \in Used(t) PROVE \E i \in 1..(n + 1) : t.order[i] = k
    <3>1. CASE k = l
      BY <1>1, <1>2, <3>1
    <3>2. CASE k \in Used(r)
      <4>1. PICK i \in 1..n : r.order[i] = k
        BY <2>1, <3>2
      <4>2. i \in 1..(n + 1)
        BY <1>1
      <4>3. t.order[i] = k
        BY <1>2, <4>1
      <4>4. QED
        BY <4>2, <4>3
    <3>3. k = l \/ k \in Used(r)
      BY DEF Tops
    <3>4. QED
      BY <3>1, <3>2, <3>3
  <2>3. ASSUME NEW i \in 1..(n + 1) PROVE t.order[i] \in Used(t)
    BY <1>1, <1>2, <1>3 DEF Tops
  <2>4. QED
    BY <1>2, <2>2, <2>3 DEF Lists
<1>6. \A i \in 1..Len(s.order) : t.order[i] = s.order[i]
  BY <1>1, <1>2 DEF Adds, n
<1>7. \A k \in Used(s) : k \in Used(t) /\ t.steps[k] = s.steps[k]
  BY DEF Adds, Tops
<1>8. \A i \in (Len(s.order) + 1)..Len(t.order) :
          t.order[i] \notin Used(s) /\ Under(label, t.order[i])
  <2>1. l \notin Used(s)
    BY DEF Adds
  <2>2. \A i \in (Len(s.order) + 1)..n : r.order[i] \notin Used(s) /\ Under(label, r.order[i])
    BY DEF Adds, n
  <2>3. QED
    BY <1>1, <1>2, <2>1, <2>2
<1>9. s.sketches \subseteq t.sketches
  BY DEF Adds, Tops
<1>10. \A k \in t.sketches \ s.sketches :
           \E i \in (Len(s.order) + 1)..Len(t.order) : t.order[i] = k
  <2>1. SUFFICES ASSUME NEW k \in t.sketches \ s.sketches
                 PROVE  \E i \in (Len(s.order) + 1)..(n + 1) : t.order[i] = k
    BY <1>2
  <2>2. CASE k = l
    BY <1>1, <1>2, <2>2
  <2>3. CASE k \in r.sketches
    <3>1. PICK i \in (Len(s.order) + 1)..n : r.order[i] = k
      BY <2>3 DEF Adds, n
    <3>2. i \in (Len(s.order) + 1)..(n + 1) /\ t.order[i] = k
      BY <1>1, <1>2, <3>1
    <3>3. QED
      BY <3>2
  <2>4. QED
    BY <2>2, <2>3 DEF Tops
<1>11. Len(s.order) <= Len(t.order)
  BY <1>1, <1>2
<1>12. QED
  BY <1>4, <1>5, <1>6, <1>7, <1>8, <1>9, <1>10, <1>11 DEF Adds

-----------------------------------------------------------------------------
(* Steps that are taken back.                                              *)

\* discard_steps_under keeps the first n steps.
KeptAt(r, label, n) ==
    /\ n \in 0..Len(r.order)
    /\ \A i \in (n + 1)..Len(r.order) : Owned(r, label, r.order[i])
    /\ n > 0 => ~Owned(r, label, r.order[n])

LEMMA SomeAreKept ==
    ASSUME NEW r \in SessionSet, NEW label
    PROVE  \E n : KeptAt(r, label, n)
<1>. DEFINE L == Len(r.order)
            T == {n \in 0..L : \A i \in (n + 1)..L : Owned(r, label, r.order[i])}
<1>1. L \in Nat
  BY SessionFields
<1>. HIDE DEF L
<1>2. L \in T /\ T \subseteq Nat
  BY <1>1
<1>3. PICK n \in T : \A m \in T : n <= m
  BY <1>2, LeastNumber
<1>4. n \in 0..L /\ \A i \in (n + 1)..L : Owned(r, label, r.order[i])
  OBVIOUS
<1>5. ASSUME n > 0, Owned(r, label, r.order[n]) PROVE FALSE
  <2>1. n - 1 \in 0..L
    BY <1>1, <1>4, <1>5
  <2>2. \A i \in ((n - 1) + 1)..L : Owned(r, label, r.order[i])
    BY <1>1, <1>4, <1>5
  <2>3. n - 1 \in T
    BY <2>1, <2>2
  <2>4. n <= n - 1
    BY <1>3, <2>3
  <2>5. QED
    BY <1>1, <1>4, <2>4
<1>6. QED
  BY <1>4, <1>5 DEF KeptAt, L

LEMMA OneNumberIsKept ==
    ASSUME NEW r \in SessionSet, NEW label, NEW n, NEW m, KeptAt(r, label, n), KeptAt(r, label, m)
    PROVE  n = m
<1>1. Len(r.order) \in Nat
  BY SessionFields
<1>2. ~(n < m)
  BY <1>1 DEF KeptAt
<1>3. ~(m < n)
  BY <1>1 DEF KeptAt
<1>4. QED
  BY <1>1, <1>2, <1>3 DEF KeptAt

GoneAfter(r, n) == {r.order[i] : i \in (n + 1)..Len(r.order)}

LEMMA DiscardedFields ==
    ASSUME NEW r \in SessionSet, NEW label, NEW n, KeptAt(r, label, n)
    PROVE  LET d == Discarded(r, label)
           IN  /\ d \in SessionSet
               /\ d.order = SubSeq(r.order, 1, n) /\ Len(d.order) = n
               /\ \A i \in 1..n : d.order[i] = r.order[i]
               /\ Used(d) = Used(r) \ GoneAfter(r, n)
               /\ \A l \in Used(d) : d.steps[l] = r.steps[l]
               /\ d.sketches = r.sketches \ GoneAfter(r, n)
               /\ d.journal = r.journal /\ d.body = r.body
               /\ d.undo = r.undo /\ d.redo = r.redo
<1>. DEFINE K == CHOOSE k \in 0..Len(r.order) :
                    /\ \A i \in (k + 1)..Len(r.order) : Owned(r, label, r.order[i])
                    /\ k > 0 => ~Owned(r, label, r.order[k])
            steps == [l \in DOMAIN r.steps \ GoneAfter(r, n) |-> r.steps[l]]
            d == [r EXCEPT !.order = SubSeq(r.order, 1, n), !.steps = steps,
                           !.sketches = r.sketches \ GoneAfter(r, n)]
<1>1. K = n
  <2>1. KeptAt(r, label, K)
    BY DEF KeptAt
  <2>2. QED
    BY <2>1, OneNumberIsKept
<1>2. Discarded(r, label) = d
  BY <1>1 DEF Discarded, GoneAfter
<1>. HIDE DEF K
<1>3. /\ SubSeq(r.order, 1, n) \in Seq(Labels) /\ Len(SubSeq(r.order, 1, n)) = n
      /\ \A i \in 1..n : SubSeq(r.order, 1, n)[i] = r.order[i]
  <2>1. n \in Nat /\ n <= Len(r.order) /\ Len(r.order) \in Nat
    BY SessionFields DEF KeptAt
  <2>2. \A i \in 1..n : r.order[i] \in Labels
    BY <2>1, SessionFields
  <2>3. QED
    BY <2>1, <2>2, SubSeqProperties
<1>4. steps \in Snapshots
  <2>1. DOMAIN r.steps \ GoneAfter(r, n) \in SUBSET Labels
    BY SessionFields
  <2>2. steps \in [DOMAIN r.steps \ GoneAfter(r, n) -> Bodies]
    BY SessionFields
  <2>. HIDE DEF steps
  <2>3. QED
    BY <2>1, <2>2, SnapshotsAre
<1>5. DOMAIN steps = DOMAIN r.steps \ GoneAfter(r, n) /\ \A l \in DOMAIN steps : steps[l] = r.steps[l]
  OBVIOUS
<1>. HIDE DEF steps
<1>6. /\ d \in SessionSet /\ d.order = SubSeq(r.order, 1, n) /\ d.steps = steps
      /\ d.sketches = r.sketches \ GoneAfter(r, n)
      /\ d.journal = r.journal /\ d.body = r.body /\ d.undo = r.undo /\ d.redo = r.redo
  BY <1>3, <1>4 DEF SessionSet
<1>. HIDE DEF d
<1>7. QED
  BY <1>2, <1>3, <1>5, <1>6 DEF Used

\* What is left is well-formed again.
LEMMA DiscardedIsWell ==
    ASSUME NEW r \in SessionSet, Distinct(r.order), Lists(r.order, Used(r)), NEW label
    PROVE  LET d == Discarded(r, label)
           IN  /\ d \in SessionSet /\ Distinct(d.order) /\ Lists(d.order, Used(d))
               /\ d.journal = r.journal /\ d.body = r.body
               /\ d.undo = r.undo /\ d.redo = r.redo
<1>. DEFINE d == Discarded(r, label)
<1>1. PICK n : KeptAt(r, label, n)
  BY SomeAreKept
<1>2. n \in Nat /\ n <= Len(r.order) /\ Len(r.order) \in Nat
  BY <1>1, SessionFields DEF KeptAt
<1>3. /\ d \in SessionSet
      /\ Len(d.order) = n
      /\ \A i \in 1..n : d.order[i] = r.order[i]
      /\ Used(d) = Used(r) \ GoneAfter(r, n)
      /\ d.journal = r.journal /\ d.body = r.body /\ d.undo = r.undo /\ d.redo = r.redo
  BY <1>1, DiscardedFields
<1>. HIDE DEF d
<1>4. Distinct(d.order)
  BY <1>2, <1>3 DEF Distinct
<1>5. Lists(d.order, Used(d))
  <2>1. \A i \in 1..Len(r.order) : r.order[i] \in GoneAfter(r, n) <=> i > n
    BY <1>2 DEF Distinct, GoneAfter
  <2>2. ASSUME NEW l \in Used(d) PROVE \E i \in 1..n : d.order[i] = l
    <3>1. l \in Used(r) /\ l \notin GoneAfter(r, n)
      BY <1>3
    <3>2. PICK i \in 1..Len(r.order) : r.order[i] = l
      BY <3>1 DEF Lists
    <3>3. i \in 1..n
      BY <1>2, <2>1, <3>1, <3>2
    <3>4. QED
      BY <1>3, <3>2, <3>3
  <2>3. ASSUME NEW i \in 1..n PROVE d.order[i] \in Used(d)
    <3>1. i \in 1..Len(r.order) /\ ~(i > n)
      BY <1>2
    <3>2. r.order[i] \in Used(r) /\ r.order[i] \notin GoneAfter(r, n)
      BY <2>1, <3>1 DEF Lists
    <3>3. QED
      BY <1>3, <3>2
  <2>4. QED
    BY <1>3, <2>2, <2>3 DEF Lists
<1>6. QED
  BY <1>3, <1>4, <1>5 DEF d

\* What was added under a label is exactly what is taken back under it.
LEMMA AddedIsTakenBack ==
    ASSUME NEW s, Whole(s), NEW r \in SessionSet, NEW label,
           label \notin Used(s), Adds(s, r, label), r.journal = s.journal
    PROVE  LET d == Discarded(r, label)
           IN  /\ d \in SessionSet
               /\ d.order = s.order /\ d.steps = s.steps /\ d.sketches = s.sketches
               /\ d.journal = r.journal /\ d.body = r.body
               /\ d.undo = r.undo /\ d.redo = r.redo
<1>. DEFINE d == Discarded(r, label)
            n == Len(s.order)
<1>1. /\ s \in SessionSet /\ n \in Nat /\ Len(r.order) \in Nat /\ n <= Len(r.order)
      /\ s.order \in Seq(Labels)
  BY SessionFields DEF Whole, Well, Adds
<1>2. \A i \in 1..Len(s.journal) : s.journal[i].label \in Used(s)
  BY DEF Whole
<1>3. \A i \in 1..n : r.order[i] = s.order[i] /\ s.order[i] \in Used(s)
  BY DEF Adds, Whole, Well, Lists
<1>4. KeptAt(r, label, n)
  <2>1. \A i \in (n + 1)..Len(r.order) : Owned(r, label, r.order[i])
    BY <1>2 DEF Adds, Under, Owned, Journaled
  <2>2. ASSUME n > 0 PROVE ~Owned(r, label, r.order[n])
    <3>1. s.order # <<>>
      BY <2>2, EmptySeq
    <3>2. s.journal # <<>> /\ Last(s.order) = Last(s.journal).label
      BY <3>1 DEF Whole
    <3>3. Len(s.journal) \in 1..Len(s.journal)
      BY <1>1, <3>2, SessionFields, EmptySeq
    <3>4. s.order[n] = s.journal[Len(s.journal)].label
      BY <3>2 DEF Last
    <3>5. Journaled(r, r.order[n])
      BY <1>1, <1>3, <2>2, <3>3, <3>4 DEF Journaled
    <3>6. r.order[n] # label
      BY <1>1, <1>3, <2>2
    <3>7. QED
      BY <3>5, <3>6 DEF Owned
  <2>. HIDE DEF n
  <2>3. QED
    BY <1>1, <2>1, <2>2 DEF KeptAt
<1>5. /\ d \in SessionSet
      /\ d.order = SubSeq(r.order, 1, n) /\ Len(d.order) = n
      /\ \A i \in 1..n : d.order[i] = r.order[i]
      /\ Used(d) = Used(r) \ GoneAfter(r, n)
      /\ \A l \in Used(d) : d.steps[l] = r.steps[l]
      /\ d.sketches = r.sketches \ GoneAfter(r, n)
      /\ d.journal = r.journal /\ d.body = r.body /\ d.undo = r.undo /\ d.redo = r.redo
  BY <1>4, DiscardedFields
<1>. HIDE DEF d
<1>6. d.order = s.order
  <2>1. d.order \in Seq(Labels)
    BY <1>5, SessionFields
  <2>2. QED
    BY <1>1, <1>3, <1>5, <2>1, SeqEqual
<1>7. \A l \in GoneAfter(r, n) : l \notin Used(s)
  BY DEF GoneAfter, Adds
<1>8. Used(d) = Used(s)
  <2>1. ASSUME NEW l \in Used(r), l \notin GoneAfter(r, n) PROVE l \in Used(s)
    <3>1. PICK i \in 1..Len(r.order) : r.order[i] = l
      BY DEF Adds, Lists
    <3>2. i \in 1..n
      BY <1>1, <2>1, <3>1 DEF GoneAfter
    <3>3. QED
      BY <1>3, <3>1, <3>2
  <2>2. \A l \in Used(s) : l \in Used(r)
    BY DEF Adds
  <2>3. QED
    BY <1>5, <1>7, <2>1, <2>2
<1>9. d.steps = s.steps
  <2>1. d.steps \in [Used(s) -> Bodies] /\ s.steps \in [Used(s) -> Bodies]
    BY <1>1, <1>5, <1>8, SessionFields DEF Used
  <2>2. \A l \in Used(s) : d.steps[l] = s.steps[l]
    BY <1>5, <1>8 DEF Adds
  <2>3. QED
    BY <2>1, <2>2
<1>10. d.sketches = s.sketches
  <2>1. s.sketches \subseteq Used(s) /\ s.sketches \subseteq r.sketches
    BY DEF Whole, Adds
  <2>2. \A l \in r.sketches \ s.sketches : l \in GoneAfter(r, n)
    BY DEF Adds, GoneAfter
  <2>3. QED
    BY <1>5, <1>7, <2>1, <2>2
<1>11. QED
  BY <1>5, <1>6, <1>9, <1>10 DEF d

-----------------------------------------------------------------------------
(* Steps that are recorded.                                                *)

\* A command that can be recorded on r.
Buildable(r, c) ==
    /\ c.label \in Labels
    /\ c.kind = "join" => c.of[1] \in Used(r) /\ c.of[2] \in Used(r)

LEMMA BuiltIsABody ==
    ASSUME NEW r \in SessionSet, NEW c, Buildable(r, c), NEW read \in Nat
    PROVE  /\ BuiltOn(r, c) \in Bodies
           /\ Output(r, c, read) \in Bodies
           /\ Last(Output(r, c, read)).read = IF c.kind = "import" THEN read ELSE 0
<1>1. BuiltOn(r, c) \in Bodies
  <2>1. CASE c.kind \in {"make", "import"}
    BY <2>1, EmptySeq DEF BuiltOn, Bodies
  <2>2. CASE c.kind = "join"
    <3>1. r.steps[c.of[1]] \in Bodies /\ r.steps[c.of[2]] \in Bodies
      BY <2>2, SessionFields DEF Buildable, Used
    <3>2. r.steps[c.of[1]] \o r.steps[c.of[2]] \in Bodies
      BY <3>1, ConcatProperties DEF Bodies
    <3>3. QED
      BY <2>2, <3>2 DEF BuiltOn
  <2>3. CASE c.kind \notin {"make", "import", "join"}
    BY <2>3, SessionFields DEF BuiltOn
  <2>4. QED
    BY <2>1, <2>2, <2>3
<1>. DEFINE e == [step |-> c.label, read |-> IF c.kind = "import" THEN read ELSE 0]
<1>2. e \in Steps
  BY DEF Buildable, Steps
<1>3. Output(r, c, read) = Append(BuiltOn(r, c), e)
  BY DEF Output
<1>4. e.read = IF c.kind = "import" THEN read ELSE 0
  OBVIOUS
<1>. HIDE DEF e
<1>5. Append(BuiltOn(r, c), e) \in Bodies /\ Last(Append(BuiltOn(r, c), e)) = e
  <2>1. /\ Append(BuiltOn(r, c), e) \in Seq(Steps)
        /\ Len(Append(BuiltOn(r, c), e)) = Len(BuiltOn(r, c)) + 1
        /\ Append(BuiltOn(r, c), e)[Len(BuiltOn(r, c)) + 1] = e
    BY <1>1, <1>2, AppendProperties DEF Bodies
  <2>2. QED
    BY <2>1 DEF Bodies, Last
<1>6. QED
  BY <1>1, <1>3, <1>4, <1>5

\* The records of a new step whose body is after.
RecordedAs(r, l, after) ==
    [r EXCEPT !.order = Append(@, l),
              !.steps = [k \in DOMAIN @ \cup {l} |-> IF k = l THEN after ELSE @[k]],
              !.body = after]

LEMMA RecordedAsFields ==
    ASSUME NEW r \in SessionSet, NEW l \in Labels, NEW after \in Bodies
    PROVE  LET t == RecordedAs(r, l, after)
           IN  /\ t \in SessionSet
               /\ t.order = Append(r.order, l)
               /\ Used(t) = Used(r) \cup {l} /\ t.steps[l] = after
               /\ \A k \in Used(r) : k # l => t.steps[k] = r.steps[k]
               /\ t.body = after /\ t.sketches = r.sketches
               /\ t.journal = r.journal /\ t.undo = r.undo /\ t.redo = r.redo
<1>. DEFINE steps == [k \in DOMAIN r.steps \cup {l} |-> IF k = l THEN after ELSE r.steps[k]]
            t == RecordedAs(r, l, after)
<1>1. Append(r.order, l) \in Seq(Labels)
  BY SessionFields, AppendProperties
<1>2. steps \in Snapshots
  <2>1. DOMAIN r.steps \cup {l} \in SUBSET Labels
    BY SessionFields
  <2>2. steps \in [DOMAIN r.steps \cup {l} -> Bodies]
    BY SessionFields
  <2>. HIDE DEF steps
  <2>3. QED
    BY <2>1, <2>2, SnapshotsAre
<1>3. /\ DOMAIN steps = DOMAIN r.steps \cup {l} /\ steps[l] = after
      /\ \A k \in DOMAIN r.steps : k # l => steps[k] = r.steps[k]
  OBVIOUS
<1>4. t = [r EXCEPT !.order = Append(r.order, l), !.steps = steps, !.body = after]
  BY DEF RecordedAs
<1>. HIDE DEF steps, t
<1>5. /\ t \in SessionSet /\ t.order = Append(r.order, l) /\ t.steps = steps
      /\ t.body = after /\ t.sketches = r.sketches
      /\ t.journal = r.journal /\ t.undo = r.undo /\ t.redo = r.redo
  BY <1>1, <1>2, <1>4 DEF SessionSet
<1>6. QED
  BY <1>3, <1>5 DEF t, Used

LEMMA RecordedFields ==
    ASSUME NEW r \in SessionSet, NEW c, Buildable(r, c), NEW read \in Nat
    PROVE  LET t == Recorded(r, c, read)
           IN  /\ t \in SessionSet
               /\ t.order = Append(r.order, c.label)
               /\ Used(t) = Used(r) \cup {c.label}
               /\ \A k \in Used(r) : k # c.label => t.steps[k] = r.steps[k]
               /\ c.kind = "import" => Last(t.steps[c.label]).read = read
               /\ t.sketches = r.sketches
               /\ t.journal = r.journal /\ t.undo = r.undo /\ t.redo = r.redo
<1>. DEFINE after == IF c.kind = "sketch" THEN r.body ELSE Output(r, c, read)
<1>1. after \in Bodies
  BY SessionFields, BuiltIsABody
<1>2. c.kind = "import" => Last(after).read = read
  BY BuiltIsABody
<1>3. Recorded(r, c, read) = RecordedAs(r, c.label, after)
  BY DEF Recorded, RecordedAs
<1>. HIDE DEF after
<1>4. c.label \in Labels
  BY DEF Buildable
<1>5. QED
  BY <1>1, <1>2, <1>3, <1>4, RecordedAsFields

-----------------------------------------------------------------------------
(* The instances of a pattern.                                             *)

Places(x) == x.kind \in {"drill", "sketch", "boss"} /\ x.label \in Labels

LEMMA PlacedFields ==
    ASSUME NEW r \in SessionSet, NEW x, Places(x)
    PROVE  LET t == Placed(r, x)
           IN  /\ t \in SessionSet
               /\ t.order = Append(r.order, x.label)
               /\ Used(t) = Used(r) \cup {x.label}
               /\ \A k \in Used(r) : k # x.label => t.steps[k] = r.steps[k]
               /\ r.sketches \subseteq t.sketches /\ t.sketches \subseteq r.sketches \cup {x.label}
               /\ t.journal = r.journal /\ t.undo = r.undo /\ t.redo = r.redo
<1>. DEFINE u == Recorded(r, x, 0)
            t == Placed(r, x)
<1>1. Buildable(r, x)
  BY DEF Buildable, Places
<1>2. /\ u \in SessionSet
      /\ u.order = Append(r.order, x.label)
      /\ Used(u) = Used(r) \cup {x.label}
      /\ \A k \in Used(r) : k # x.label => u.steps[k] = r.steps[k]
      /\ u.sketches = r.sketches
      /\ u.journal = r.journal /\ u.undo = r.undo /\ u.redo = r.redo
  BY <1>1, RecordedFields
<1>3. t = IF x.kind = "sketch" THEN [u EXCEPT !.sketches = u.sketches \cup {x.label}] ELSE u
  BY DEF Placed
<1>. HIDE DEF u, t
<1>4. /\ t \in SessionSet /\ t.order = u.order /\ t.steps = u.steps
      /\ t.journal = u.journal /\ t.undo = u.undo /\ t.redo = u.redo
      /\ u.sketches \subseteq t.sketches /\ t.sketches \subseteq u.sketches \cup {x.label}
  BY <1>2, <1>3 DEF SessionSet, Places
<1>5. QED
  BY <1>2, <1>4 DEF t, Used

\* All instances are of their own labels, under the pattern's.
Row(label, q) ==
    /\ Len(q) \in Nat /\ DOMAIN q = 1..Len(q)
    /\ \A i \in 1..Len(q) : Places(q[i]) /\ IsStrictPrefix(label, q[i].label)
    /\ \A i, j \in 1..Len(q) : q[i].label = q[j].label => i = j

LEMMA LongerLabels ==
    ASSUME NEW label \in Labels, NEW k \in Nat
    PROVE  /\ Append(label, k) \in Labels /\ Len(Append(label, k)) = Len(label) + 1
           /\ Append(label, k)[Len(label) + 1] = k /\ IsStrictPrefix(label, Append(label, k))
           /\ label \o <<k, 0>> \in Labels /\ Len(label \o <<k, 0>>) = Len(label) + 2
           /\ (label \o <<k, 0>>)[Len(label) + 1] = k /\ IsStrictPrefix(label, label \o <<k, 0>>)
<1>. DEFINE n == Len(label)
<1>1. n \in Nat /\ label \in Seq(Nat) /\ \A i \in 1..n : label[i] \in Nat
  BY DEF Labels
<1>2. ASSUME NEW l \in Seq(Nat), Len(l) > n, \A i \in 1..n : l[i] = label[i]
      PROVE  IsStrictPrefix(label, l)
  <2>1. \A i \in 1..n : l[i] \in Nat
    BY <1>1, <1>2
  <2>2. /\ SubSeq(l, 1, n) \in Seq(Nat) /\ Len(SubSeq(l, 1, n)) = n
        /\ \A i \in 1..n : SubSeq(l, 1, n)[i] = l[i]
    BY <1>1, <2>1, SubSeqProperties
  <2>3. SubSeq(l, 1, n) = label
    BY <1>1, <1>2, <2>2, SeqEqual
  <2>4. SubSeq(label, 1, n) = label
    BY <1>1, SubSeqFull
  <2>5. Len(l) \in Nat /\ n <= Len(l) /\ l # label
    BY <1>1, <1>2
  <2>6. QED
    BY <2>3, <2>4, <2>5 DEF IsStrictPrefix, IsPrefix
<1>3. /\ Append(label, k) \in Seq(Nat) /\ Len(Append(label, k)) = n + 1
      /\ \A i \in 1..n : Append(label, k)[i] = label[i]
      /\ Append(label, k)[n + 1] = k
  BY <1>1, AppendProperties
<1>4. <<k, 0>> \in Seq(Nat) /\ Len(<<k, 0>>) = 2 /\ <<k, 0>>[1] = k
  OBVIOUS
<1>5. /\ label \o <<k, 0>> \in Seq(Nat) /\ Len(label \o <<k, 0>>) = n + 2
      /\ \A i \in 1..n : (label \o <<k, 0>>)[i] = label[i]
      /\ (label \o <<k, 0>>)[n + 1] = k
  <2>1. /\ label \o <<k, 0>> \in Seq(Nat) /\ Len(label \o <<k, 0>>) = n + 2
        /\ \A i \in 1..(n + 2) : (label \o <<k, 0>>)[i] =
               IF i <= n THEN label[i] ELSE <<k, 0>>[i - n]
    BY <1>1, <1>4, ConcatProperties
  <2>2. QED
    BY <1>1, <1>4, <2>1
<1>6. IsStrictPrefix(label, Append(label, k))
  <2>1. Len(Append(label, k)) > n
    BY <1>1, <1>3
  <2>2. QED
    BY <1>2, <1>3, <2>1
<1>7. IsStrictPrefix(label, label \o <<k, 0>>)
  <2>1. Len(label \o <<k, 0>>) > n
    BY <1>1, <1>5
  <2>2. QED
    BY <1>2, <1>5, <2>1
<1>8. QED
  BY <1>3, <1>5, <1>6, <1>7 DEF Labels

LEMMA InstancesMakeARow ==
    ASSUME NEW label \in Labels, NEW source
    PROVE  Row(label, Instances(label, source))
<1>. DEFINE P == Placements
            q == Instances(label, source)
<1>1. P \in Nat
  BY SessionAssumption
<1>2. CASE source.kind = "drill"
  <2>1. q = [k \in 1..P |-> Made("drill", Append(label, k), <<>>)]
    BY <1>2 DEF Instances
  <2>2. Len(q) = P /\ DOMAIN q = 1..P
    BY <1>1, <2>1
  <2>3. \A k \in 1..P : q[k].kind = "drill" /\ q[k].label = Append(label, k)
    BY <2>1 DEF Made
  <2>. HIDE DEF q
  <2>4. ASSUME NEW i \in 1..P, NEW j \in 1..P, q[i].label = q[j].label PROVE i = j
    <3>1. i \in Nat /\ j \in Nat
      BY <1>1
    <3>2. Append(label, i)[Len(label) + 1] = i /\ Append(label, j)[Len(label) + 1] = j
      BY <3>1, LongerLabels
    <3>3. QED
      BY <2>3, <2>4, <3>2
  <2>5. ASSUME NEW i \in 1..P PROVE Places(q[i]) /\ IsStrictPrefix(label, q[i].label)
    <3>1. i \in Nat
      BY <1>1
    <3>2. Append(label, i) \in Labels /\ IsStrictPrefix(label, Append(label, i))
      BY <3>1, LongerLabels
    <3>3. QED
      BY <2>3, <3>2 DEF Places
  <2>6. QED
    BY <1>1, <2>2, <2>4, <2>5 DEF Row, q
<1>3. CASE source.kind # "drill"
  <2>. DEFINE place(i) == (i + 1) \div 2
              name(i) == IF i % 2 = 1 THEN label \o <<place(i), 0>> ELSE Append(label, place(i))
              kind(i) == IF i % 2 = 1 THEN "sketch" ELSE "boss"
  <2>1. q = [i \in 1..2 * P |-> IF i % 2 = 1 THEN Made("sketch", label \o <<place(i), 0>>, <<>>)
                                ELSE Made("boss", Append(label, place(i)), <<label \o <<place(i), 0>>>>)]
    BY <1>3 DEF Instances
  <2>2. 2 * P \in Nat
    BY <1>1
  <2>3. Len(q) = 2 * P /\ DOMAIN q = 1..2 * P
    BY <2>1, <2>2
  <2>4. \A i \in 1..2 * P : q[i].kind = kind(i) /\ q[i].label = name(i)
    BY <2>1 DEF Made
  <2>. HIDE DEF q
  <2>5. \A i \in 1..2 * P : place(i) \in Nat /\ i \in Nat
    BY <2>2
  <2>6. ASSUME NEW i \in 1..2 * P
        PROVE  /\ name(i) \in Labels /\ IsStrictPrefix(label, name(i))
               /\ name(i)[Len(label) + 1] = place(i)
               /\ Len(name(i)) = Len(label) + (IF i % 2 = 1 THEN 2 ELSE 1)
    <3>1. place(i) \in Nat
      BY <2>5
    <3>. HIDE DEF place
    <3>2. QED
      BY <3>1, LongerLabels
  <2>7. ASSUME NEW i \in 1..2 * P, NEW j \in 1..2 * P, q[i].label = q[j].label PROVE i = j
    <3>1. name(i) = name(j)
      BY <2>4, <2>7
    <3>2. place(i) = place(j)
      BY <2>6, <3>1
    <3>3. Len(label) \in Nat
      BY DEF Labels
    <3>4. Len(label) + (IF i % 2 = 1 THEN 2 ELSE 1) = Len(label) + (IF j % 2 = 1 THEN 2 ELSE 1)
      BY <2>6, <3>1
    <3>5. i \in Nat /\ j \in Nat
      BY <2>5
    <3>6. i % 2 = 1 <=> j % 2 = 1
      BY <3>3, <3>4
    <3>7. QED
      BY ONLY <3>2, <3>5, <3>6
  <2>8. ASSUME NEW i \in 1..2 * P PROVE Places(q[i]) /\ IsStrictPrefix(label, q[i].label)
    BY <2>4, <2>6 DEF Places
  <2>9. QED
    BY <2>2, <2>3, <2>7, <2>8 DEF Row, q
<1>4. QED
  BY <1>2, <1>3

\* The sessions through which the instances take s.
LEMMA PlacedSteps ==
    ASSUME NEW s \in SessionSet, NEW label, NEW q, Row(label, q)
    PROVE  /\ AllPlaced(s, q)[0] = s
           /\ \A n \in 1..Len(q) : AllPlaced(s, q)[n] = Placed(AllPlaced(s, q)[n - 1], q[n])
<1>. DEFINE N == Len(q)
            step == [n \in 1..N |-> [r \in SessionSet |-> Placed(r, q[n])]]
            body(f) == [n \in 0..N |-> IF n = 0 THEN s ELSE Placed(f[n - 1], q[n])]
            placed == CHOOSE f : f = body(f)
<1>1. N \in Nat /\ \A n \in 1..N : Places(q[n])
  BY DEF Row
<1>2. placed = AllPlaced(s, q)
  BY DEF AllPlaced
<1>. HIDE DEF N
<1>3. step \in [1..N -> [SessionSet -> SessionSet]]
  BY <1>1, PlacedFields
<1>4. PICK g \in [0..N -> SessionSet] : Follows(g, N, s, step)
  BY <1>1, <1>3, PrefixRecursion
<1>5. g = body(g)
  <2>. DEFINE by(n) == IF n = 0 THEN s ELSE step[n][g[n - 1]]
              with(n) == IF n = 0 THEN s ELSE Placed(g[n - 1], q[n])
  <2>1. \A n \in 0..N : by(n) = with(n)
    BY <1>1
  <2>2. g = [n \in 0..N |-> by(n)]
    BY <1>4 DEF Follows
  <2>. HIDE DEF by, with
  <2>3. [n \in 0..N |-> by(n)] = [n \in 0..N |-> with(n)]
    BY ONLY <2>1
  <2>4. g = [n \in 0..N |-> with(n)]
    BY ONLY <2>2, <2>3
  <2>5. QED
    BY <2>4 DEF with
<1>6. placed = body(placed)
  BY <1>5
<1>. HIDE DEF placed, step
<1>7. /\ placed[0] = s
      /\ \A n \in 1..N : placed[n] = Placed(placed[n - 1], q[n])
  BY <1>1, <1>6
<1>8. QED
  BY <1>2, <1>7 DEF N

\* r is s with the first n instances.
PlacedUpTo(s, r, label, q, n) ==
    /\ r \in SessionSet /\ Adds(s, r, label)
    /\ Used(r) = Used(s) \cup {q[i].label : i \in 1..n}
    /\ r.journal = s.journal /\ r.undo = s.undo /\ r.redo = s.redo

LEMMA PlacedAdds ==
    ASSUME NEW s, Well(s), NEW label, NEW q, Row(label, q),
           NEW N \in 0..Len(q), \A i \in 1..N : q[i].label \notin Used(s)
    PROVE  PlacedUpTo(s, AllPlaced(s, q)[N], label, q, N)
<1>. DEFINE g == AllPlaced(s, q)
            G == {n \in 0..N : PlacedUpTo(s, g[n], label, q, n)}
<1>1. s \in SessionSet /\ Len(q) \in Nat /\ N \in Nat
  BY DEF Well, Row
<1>2. g[0] = s /\ \A n \in 1..N : g[n] = Placed(g[n - 1], q[n])
  BY <1>1, PlacedSteps
<1>. HIDE DEF g
<1>3. 0 \in G
  <2>1. Adds(s, s, label)
    BY NothingAdded
  <2>2. PlacedUpTo(s, s, label, q, 0)
    BY <1>1, <2>1 DEF PlacedUpTo
  <2>3. QED
    BY <1>1, <1>2, <2>2
<1>4. ASSUME NEW n \in 0..(N - 1), n \in G
      PROVE  n + 1 \in G
  <2>. DEFINE r == g[n]
              x == q[n + 1]
              t == Placed(r, x)
  <2>1. n + 1 \in 1..N /\ (n + 1) - 1 = n /\ n + 1 \in 1..Len(q) /\ n \in Nat /\ n + 1 \in 0..N
    BY <1>1
  <2>2. g[n + 1] = t
    BY <1>2, <2>1
  <2>3. PlacedUpTo(s, r, label, q, n)
    BY <1>4
  <2>4. Places(x) /\ IsStrictPrefix(label, x.label)
    BY <2>1 DEF Row
  <2>5. x.label \notin Used(r)
    <3>1. x.label \notin Used(s)
      BY <2>1
    <3>2. \A i \in 1..n : q[i].label # x.label
      BY <1>1, <2>1 DEF Row
    <3>3. QED
      BY <2>3, <3>1, <3>2 DEF PlacedUpTo
  <2>. HIDE DEF r, x
  <2>6. /\ t \in SessionSet /\ Tops(r, t, x.label)
        /\ Used(t) = Used(r) \cup {x.label}
        /\ t.journal = r.journal /\ t.undo = r.undo /\ t.redo = r.redo
    <3>1. r \in SessionSet
      BY <2>3 DEF PlacedUpTo
    <3>2. /\ t \in SessionSet
          /\ t.order = Append(r.order, x.label)
          /\ Used(t) = Used(r) \cup {x.label}
          /\ \A k \in Used(r) : k # x.label => t.steps[k] = r.steps[k]
          /\ r.sketches \subseteq t.sketches /\ t.sketches \subseteq r.sketches \cup {x.label}
          /\ t.journal = r.journal /\ t.undo = r.undo /\ t.redo = r.redo
      BY <2>4, <3>1, PlacedFields
    <3>. HIDE DEF t
    <3>3. QED
      BY <2>5, <3>2 DEF Tops
  <2>. HIDE DEF t
  <2>7. Adds(s, t, label)
    <3>1. x.label \in Labels /\ Under(label, x.label)
      BY <2>4 DEF Places, Under
    <3>2. r \in SessionSet /\ Adds(s, r, label)
      BY <2>3 DEF PlacedUpTo
    <3>3. QED
      BY <2>5, <2>6, <3>1, <3>2, OneMoreAdded
  <2>8. Used(t) = Used(s) \cup {q[i].label : i \in 1..(n + 1)}
    <3>1. Used(t) = (Used(s) \cup {q[i].label : i \in 1..n}) \cup {x.label}
      BY <2>3, <2>6 DEF PlacedUpTo
    <3>2. \A i : i \in 1..(n + 1) <=> i \in 1..n \/ i = n + 1
      BY <2>1
    <3>3. {q[i].label : i \in 1..(n + 1)} = {q[i].label : i \in 1..n} \cup {q[n + 1].label}
      BY <3>2
    <3>4. QED
      BY <3>1, <3>3 DEF x
  <2>9. PlacedUpTo(s, t, label, q, n + 1)
    BY <2>3, <2>6, <2>7, <2>8 DEF PlacedUpTo
  <2>10. QED
    BY <2>1, <2>2, <2>9
<1>. HIDE DEF G
<1>5. \A n \in 0..N : n \in G
  BY <1>1, <1>3, <1>4, PrefixInduction
<1>6. QED
  BY <1>1, <1>5 DEF G, g

-----------------------------------------------------------------------------
(* A command that is done.                                                 *)

Fits(s, c, read) ==
    /\ c \in Menu /\ read \in Nat /\ c.label \notin Used(s)
    /\ c.kind = "join" => c.of[1] \in Used(s) /\ c.of[2] \in Used(s)
    /\ c.kind = "pattern" =>
           LET q == Instances(c.label, CommandOf(s, c.of[1]))
           IN  \A i \in 1..Len(q) : q[i].label \notin Used(s)

\* What is recorded of it before it is journaled.
RecordedOf(s, c, read) ==
    IF c.kind = "pattern"
    THEN LET q == Instances(c.label, CommandOf(s, c.of[1]))
         IN  PatternRecorded(AllPlaced(s, q)[Len(q)], c)
    ELSE Recorded(s, c, read)

LEMMA RecordedOfFields ==
    ASSUME NEW s, Well(s), NEW c, NEW read, Fits(s, c, read)
    PROVE  LET r == RecordedOf(s, c, read)
           IN  /\ r \in SessionSet /\ Adds(s, r, c.label)
               /\ r.order # <<>> /\ Last(r.order) = c.label /\ c.label \in Used(r)
               /\ r.journal = s.journal /\ r.undo = s.undo /\ r.redo = s.redo
               /\ c.kind = "import" => Last(r.steps[c.label]).read = read
<1>. DEFINE r == RecordedOf(s, c, read)
<1>1. s \in SessionSet /\ c.label \in Labels /\ c.label \notin Used(s) /\ read \in Nat
  BY MenuFacts DEF Well, Fits
<1>2. ASSUME NEW b \in SessionSet, Adds(s, b, c.label), Tops(b, r, c.label), r \in SessionSet,
             c.label \notin Used(b)
      PROVE  /\ Adds(s, r, c.label) /\ r.order # <<>> /\ Last(r.order) = c.label
             /\ c.label \in Used(r)
  <2>1. Adds(s, r, c.label)
    BY <1>1, <1>2, OneMoreAdded DEF Under
  <2>2. r.order = Append(b.order, c.label) /\ b.order \in Seq(Labels) /\ c.label \in Used(r)
    BY <1>2, SessionFields DEF Tops
  <2>. HIDE DEF r
  <2>3. r.order # <<>> /\ Len(r.order) = Len(b.order) + 1 /\ r.order[Len(b.order) + 1] = c.label
    BY <1>1, <2>2, AppendProperties
  <2>4. QED
    BY <2>1, <2>2, <2>3 DEF Last
<1>3. CASE c.kind = "pattern"
  <2>. DEFINE q == Instances(c.label, CommandOf(s, c.of[1]))
              b == AllPlaced(s, q)[Len(q)]
  <2>1. Row(c.label, q)
    BY <1>1, InstancesMakeARow
  <2>2. \A i \in 1..Len(q) : q[i].label \notin Used(s)
    BY <1>3 DEF Fits
  <2>3. r = PatternRecorded(b, c)
    BY <1>3 DEF RecordedOf
  <2>. HIDE DEF q
  <2>4. Len(q) \in Nat /\ Len(q) \in 0..Len(q)
    BY <2>1 DEF Row
  <2>5. PlacedUpTo(s, b, c.label, q, Len(q))
    BY <2>1, <2>2, <2>4, PlacedAdds
  <2>. HIDE DEF b
  <2>6. b \in SessionSet /\ Adds(s, b, c.label)
        /\ b.journal = s.journal /\ b.undo = s.undo /\ b.redo = s.redo
    BY <2>5 DEF PlacedUpTo
  <2>7. c.label \notin Used(b)
    <3>1. \A i \in 1..Len(q) : q[i].label # c.label
      BY <2>1 DEF Row, IsStrictPrefix
    <3>2. QED
      BY <1>1, <2>5, <3>1 DEF PlacedUpTo
  <2>8. b.body \in Bodies
    BY <2>6, SessionFields
  <2>9. r = RecordedAs(b, c.label, b.body)
    BY <2>3, <2>6 DEF PatternRecorded, RecordedAs, SessionSet
  <2>. HIDE DEF r
  <2>10. /\ r \in SessionSet
         /\ r.order = Append(b.order, c.label)
         /\ Used(r) = Used(b) \cup {c.label}
         /\ \A k \in Used(b) : k # c.label => r.steps[k] = b.steps[k]
         /\ r.sketches = b.sketches
         /\ r.journal = b.journal /\ r.undo = b.undo /\ r.redo = b.redo
    BY <1>1, <2>6, <2>8, <2>9, RecordedAsFields
  <2>11. Tops(b, r, c.label)
    BY <2>7, <2>10 DEF Tops
  <2>12. QED
    BY <1>2, <1>3, <2>6, <2>7, <2>10, <2>11 DEF r
<1>4. CASE c.kind # "pattern"
  <2>1. r = Recorded(s, c, read)
    BY <1>4 DEF RecordedOf
  <2>2. Buildable(s, c)
    BY <1>1 DEF Fits, Buildable
  <2>3. /\ r \in SessionSet
        /\ r.order = Append(s.order, c.label)
        /\ Used(r) = Used(s) \cup {c.label}
        /\ \A k \in Used(s) : k # c.label => r.steps[k] = s.steps[k]
        /\ c.kind = "import" => Last(r.steps[c.label]).read = read
        /\ r.sketches = s.sketches
        /\ r.journal = s.journal /\ r.undo = s.undo /\ r.redo = s.redo
    BY <1>1, <2>1, <2>2, RecordedFields
  <2>. HIDE DEF r
  <2>4. Tops(s, r, c.label)
    BY <1>1, <2>3 DEF Tops
  <2>5. Adds(s, s, c.label)
    BY NothingAdded
  <2>6. QED
    BY <1>1, <1>2, <2>3, <2>4, <2>5 DEF r
<1>5. QED
  BY <1>3, <1>4

LEMMA DoneFields ==
    ASSUME NEW s, Well(s), NEW c, NEW read, Fits(s, c, read)
    PROVE  LET d == Done(s, c, read)
           IN  /\ d \in SessionSet /\ Adds(s, d, c.label)
               /\ d.order # <<>> /\ Last(d.order) = c.label /\ c.label \in Used(d)
               /\ d.journal = Append(s.journal, c)
               /\ d.undo = Append(s.undo, [body |-> s.body, command |-> c])
               /\ d.redo = <<>>
               /\ c.kind = "import" => Last(d.steps[c.label]).read = read
<1>. DEFINE r == RecordedOf(s, c, read)
            d == Done(s, c, read)
            u == [body |-> s.body, command |-> c]
<1>1. /\ r \in SessionSet /\ Adds(s, r, c.label)
      /\ r.order # <<>> /\ Last(r.order) = c.label /\ c.label \in Used(r)
      /\ r.journal = s.journal /\ r.undo = s.undo /\ r.redo = s.redo
      /\ c.kind = "import" => Last(r.steps[c.label]).read = read
  BY RecordedOfFields
<1>2. d = [r EXCEPT !.journal = Append(r.journal, c), !.undo = Append(r.undo, u), !.redo = <<>>]
  BY DEF Done, RecordedOf, Journal
<1>3. Append(s.journal, c) \in Seq(Menu) /\ Append(s.undo, u) \in Seq(Undoables)
      /\ <<>> \in Seq(Menu)
  <2>1. s \in SessionSet /\ c \in Menu
    BY DEF Well, Fits
  <2>2. s.journal \in Seq(Menu) /\ s.undo \in Seq(Undoables) /\ s.body \in Bodies
    BY <2>1, SessionFields
  <2>3. u \in Undoables
    BY <2>1, <2>2 DEF Undoables
  <2>. HIDE DEF u
  <2>4. QED
    BY <2>1, <2>2, <2>3, AppendProperties, EmptySeq
<1>. HIDE DEF r, d, u
<1>4. /\ d \in SessionSet /\ d.order = r.order /\ d.steps = r.steps /\ d.sketches = r.sketches
      /\ d.journal = Append(s.journal, c) /\ d.undo = Append(s.undo, u) /\ d.redo = <<>>
  BY <1>1, <1>2, <1>3 DEF SessionSet
<1>5. Adds(s, d, c.label)
  BY <1>1, <1>4 DEF Adds, Used
<1>6. QED
  BY <1>1, <1>4, <1>5 DEF d, u, Used

LEMMA DoneIsWell ==
    ASSUME NEW s, Well(s), NEW c, NEW read, Fits(s, c, read)
    PROVE  Well(Done(s, c, read))
<1>. DEFINE d == Done(s, c, read)
            u == [body |-> s.body, command |-> c]
<1>1. /\ d \in SessionSet /\ Adds(s, d, c.label)
      /\ d.journal = Append(s.journal, c) /\ d.undo = Append(s.undo, u)
  BY DoneFields
<1>2. /\ s.journal \in Seq(Menu) /\ s.undo \in Seq(Undoables) /\ c \in Menu /\ u \in Undoables
      /\ Len(s.undo) = Len(s.journal)
  BY SessionFields DEF Well, Fits, Undoables
<1>. HIDE DEF d, u
<1>3. Len(d.journal) = Len(s.journal) + 1 /\ Len(d.undo) = Len(s.undo) + 1
  BY <1>1, <1>2, AppendProperties
<1>4. QED
  BY <1>1, <1>2, <1>3 DEF Well, Adds, d

LEMMA DoneIsWhole ==
    ASSUME NEW s, Whole(s), NEW c, NEW read, Fits(s, c, read)
    PROVE  Whole(Done(s, c, read))
<1>. DEFINE d == Done(s, c, read)
            u == [body |-> s.body, command |-> c]
            n == Len(s.journal)
<1>1. Well(s) /\ s \in SessionSet
  BY DEF Whole, Well
<1>2. /\ d \in SessionSet /\ Adds(s, d, c.label)
      /\ d.order # <<>> /\ Last(d.order) = c.label /\ c.label \in Used(d)
      /\ d.journal = Append(s.journal, c) /\ d.undo = Append(s.undo, u)
  BY <1>1, DoneFields
<1>3. Well(d)
  BY <1>1, DoneIsWell
<1>4. /\ s.journal \in Seq(Menu) /\ s.undo \in Seq(Undoables) /\ c \in Menu /\ u \in Undoables
      /\ Len(s.undo) = n /\ n \in Nat /\ u.command = c
  BY <1>1, SessionFields DEF Well, Fits, Undoables
<1>. HIDE DEF d, u
<1>5. /\ Len(d.journal) = n + 1 /\ d.journal[n + 1] = c /\ d.journal # <<>>
      /\ \A i \in 1..n : d.journal[i] = s.journal[i]
      /\ d.undo[n + 1] = u /\ \A i \in 1..n : d.undo[i] = s.undo[i]
  BY <1>2, <1>4, AppendProperties
<1>6. \A i \in 1..Len(d.journal) :
          d.journal[i].label \in Used(d) /\ d.undo[i].command = d.journal[i]
  <2>1. \A i \in 1..n : s.journal[i].label \in Used(s) /\ s.undo[i].command = s.journal[i]
    BY DEF Whole
  <2>2. \A l \in Used(s) : l \in Used(d)
    BY <1>2 DEF Adds
  <2>3. \A i \in 1..(n + 1) : i \in 1..n \/ i = n + 1
    BY <1>4
  <2>. HIDE DEF n
  <2>4. QED
    BY <1>2, <1>4, <1>5, <2>1, <2>2, <2>3
<1>7. d.sketches \subseteq Used(d)
  <2>1. s.sketches \subseteq Used(d)
    BY <1>2 DEF Whole, Adds
  <2>2. \A l \in d.sketches \ s.sketches : l \in Used(d)
    <3>1. SUFFICES ASSUME NEW l \in d.sketches \ s.sketches PROVE l \in Used(d)
      OBVIOUS
    <3>2. PICK i \in (Len(s.order) + 1)..Len(d.order) : d.order[i] = l
      BY <1>2 DEF Adds
    <3>3. i \in 1..Len(d.order)
      BY <1>1, <1>2, <3>2, SessionFields
    <3>4. QED
      BY <1>2, <3>2, <3>3 DEF Adds, Lists
  <2>3. QED
    BY <2>1, <2>2
<1>8. Last(d.journal) = c
  BY <1>5 DEF Last
<1>9. QED
  BY <1>2, <1>3, <1>5, <1>6, <1>7, <1>8 DEF Whole, d

-----------------------------------------------------------------------------
(* What a command may answer.                                              *)

\* What follows for the session it leaves.
Told(s, c, read, o) ==
    /\ o.answer \in {"refused", "done", "panicked"}
    /\ Well(o.session)
    /\ o.answer = "refused" =>
           /\ Whole(s) => o.session = s
           /\ o.session.redo = s.redo
    /\ o.answer = "done" => Fits(s, c, read) /\ o.session = Done(s, c, read)
    /\ o.answer = "panicked" => o.session.redo = s.redo

LEMMA RefusedIsTold ==
    ASSUME NEW s, Well(s), NEW c, NEW read
    PROVE  Told(s, c, read, Answered("refused", s))
  BY DEF Told, Answered

LEMMA PlainIsTold ==
    ASSUME NEW s, Well(s), NEW c \in Menu, c.kind # "pattern", NEW read \in Nat,
           NEW o \in PlainOutcomes(s, c, read)
    PROVE  Told(s, c, read, o)
<1>1. \/ o = Answered("refused", s)
      \/ Sound(s, c, read) /\ o = Answered("done", Done(s, c, read))
      \/ o = Answered("panicked", s)
  BY DEF PlainOutcomes
<1>2. CASE o = Answered("refused", s)
  BY <1>2, RefusedIsTold
<1>3. CASE Sound(s, c, read) /\ o = Answered("done", Done(s, c, read))
  <2>1. Fits(s, c, read)
    BY <1>3 DEF Sound, Fits
  <2>2. Well(Done(s, c, read))
    BY <2>1, DoneIsWell
  <2>3. o.answer = "done" /\ o.session = Done(s, c, read)
    BY <1>3 DEF Answered
  <2>4. QED
    BY <2>1, <2>2, <2>3 DEF Told
<1>4. CASE o = Answered("panicked", s)
  BY <1>4 DEF Told, Answered
<1>5. QED
  BY <1>1, <1>2, <1>3, <1>4

\* The session some instances have been added to.
LEMMA PlacedIsWell ==
    ASSUME NEW s, Well(s), NEW r, NEW label, NEW q, NEW n, PlacedUpTo(s, r, label, q, n)
    PROVE  Well(r)
  BY DEF Well, PlacedUpTo, Adds

LEMMA GivenUpIsTold ==
    ASSUME NEW s, Well(s), NEW label, label \notin Used(s), NEW r, NEW q, NEW n,
           PlacedUpTo(s, r, label, q, n)
    PROVE  /\ Well(GivenUp(s, r, label)) /\ GivenUp(s, r, label).redo = s.redo
           /\ Whole(s) => GivenUp(s, r, label) = s
<1>. DEFINE b == [r EXCEPT !.body = s.body]
            d == Discarded(b, label)
<1>1. s \in SessionSet /\ r \in SessionSet /\ Well(r) /\ Adds(s, r, label)
      /\ r.journal = s.journal /\ r.undo = s.undo /\ r.redo = s.redo
  BY PlacedIsWell DEF Well, PlacedUpTo
<1>2. /\ b \in SessionSet /\ b.order = r.order /\ b.steps = r.steps /\ b.sketches = r.sketches
      /\ b.journal = s.journal /\ b.undo = s.undo /\ b.redo = s.redo /\ b.body = s.body
  BY <1>1 DEF SessionSet
<1>3. GivenUp(s, r, label) = d
  BY DEF GivenUp
<1>. HIDE DEF b
<1>4. Distinct(b.order) /\ Lists(b.order, Used(b)) /\ Adds(s, b, label)
  BY <1>1, <1>2 DEF Well, Used, Adds
<1>5. /\ d \in SessionSet /\ Distinct(d.order) /\ Lists(d.order, Used(d))
      /\ d.journal = s.journal /\ d.undo = s.undo /\ d.redo = s.redo /\ d.body = s.body
  BY <1>2, <1>4, DiscardedIsWell
<1>6. ASSUME Whole(s) PROVE d = s
  <2>1. d.order = s.order /\ d.steps = s.steps /\ d.sketches = s.sketches
    BY <1>2, <1>4, <1>6, AddedIsTakenBack
  <2>. HIDE DEF d
  <2>2. QED
    BY <1>1, <1>5, <2>1, SameSession
<1>. HIDE DEF d
<1>7. Well(d)
  BY <1>5 DEF Well
<1>8. QED
  BY <1>3, <1>5, <1>6, <1>7

LEMMA PatternIsTold ==
    ASSUME NEW s, Well(s), NEW c \in Menu, c.kind = "pattern", c.label \notin Used(s),
           NEW read \in Nat, NEW o \in PatternOutcomes(s, c)
    PROVE  Told(s, c, read, o)
<1>. DEFINE q == Instances(c.label, CommandOf(s, c.of[1]))
            placed == AllPlaced(s, q)
            reached == {n \in 0..Len(q) : \A i \in 1..n : q[i].label \notin Used(s)}
<1>1. \/ o = Answered("refused", s)
      \/ \E n \in reached : o = Answered("refused", GivenUp(s, placed[n], c.label))
      \/ \E n \in reached : o = Answered("panicked", placed[n])
      \/ Len(q) \in reached /\ o = Answered("done", Done(s, c, 0))
  BY DEF PatternOutcomes
<1>2. Row(c.label, q)
  BY MenuFacts, InstancesMakeARow
<1>. HIDE DEF q
<1>3. \A n \in reached : PlacedUpTo(s, placed[n], c.label, q, n)
  BY <1>2, PlacedAdds
<1>. HIDE DEF placed
<1>4. CASE o = Answered("refused", s)
  BY <1>4, RefusedIsTold
<1>5. CASE \E n \in reached : o = Answered("refused", GivenUp(s, placed[n], c.label))
  <2>1. PICK n \in reached : o = Answered("refused", GivenUp(s, placed[n], c.label))
    BY <1>5
  <2>2. o.answer = "refused" /\ o.session = GivenUp(s, placed[n], c.label)
    BY <2>1 DEF Answered
  <2>3. PlacedUpTo(s, placed[n], c.label, q, n)
    BY <1>3
  <2>4. /\ Well(o.session) /\ o.session.redo = s.redo
        /\ Whole(s) => o.session = s
    BY <2>2, <2>3, GivenUpIsTold
  <2>5. QED
    BY <2>2, <2>4 DEF Told
<1>6. CASE \E n \in reached : o = Answered("panicked", placed[n])
  <2>1. PICK n \in reached : o = Answered("panicked", placed[n])
    BY <1>6
  <2>2. o.answer = "panicked" /\ o.session = placed[n]
    BY <2>1 DEF Answered
  <2>3. PlacedUpTo(s, placed[n], c.label, q, n)
    BY <1>3
  <2>4. Well(placed[n]) /\ placed[n].redo = s.redo
    BY <2>3, PlacedIsWell DEF PlacedUpTo
  <2>5. QED
    BY <2>2, <2>4 DEF Told
<1>7. CASE Len(q) \in reached /\ o = Answered("done", Done(s, c, 0))
  <2>1. Fits(s, c, read)
    BY <1>7 DEF Fits, q
  <2>2. Done(s, c, read) = Done(s, c, 0)
    BY DEF Done
  <2>3. o.answer = "done" /\ o.session = Done(s, c, read)
    BY <1>7, <2>2 DEF Answered
  <2>4. Well(Done(s, c, read))
    BY <2>1, DoneIsWell
  <2>5. QED
    BY <2>1, <2>3, <2>4 DEF Told
<1>8. QED
  BY <1>1, <1>4, <1>5, <1>6, <1>7

LEMMA OutcomeIsTold ==
    ASSUME NEW s, Well(s), NEW c \in Menu, NEW read \in Nat, NEW o \in Outcomes(s, c, read)
    PROVE  Told(s, c, read, o)
<1>1. CASE c.kind # "pattern"
  <2>1. o \in PlainOutcomes(s, c, read)
    BY <1>1 DEF Outcomes
  <2>2. QED
    BY <1>1, <2>1, PlainIsTold
<1>2. CASE c.kind = "pattern" /\ c.label \notin Used(s) /\ Repeats(s, c.of[1])
  <2>1. o \in PatternOutcomes(s, c)
    BY <1>2 DEF Outcomes
  <2>2. QED
    BY <1>2, <2>1, PatternIsTold
<1>3. CASE c.kind = "pattern" /\ ~(c.label \notin Used(s) /\ Repeats(s, c.of[1]))
  <2>1. o = Answered("refused", s)
    BY <1>3 DEF Outcomes
  <2>2. QED
    BY <2>1, RefusedIsTold
<1>4. QED
  BY <1>1, <1>2, <1>3

-----------------------------------------------------------------------------
(* What is still to redo does not matter to a command.                     *)

Rest(s) == [s EXCEPT !.redo = <<>>]

LEMMA RestFields ==
    ASSUME NEW s \in SessionSet
    PROVE  /\ Rest(s) \in SessionSet /\ Rest(s).redo = <<>>
           /\ Rest(s).journal = s.journal /\ Rest(s).order = s.order
           /\ Rest(s).steps = s.steps /\ Rest(s).sketches = s.sketches
           /\ Rest(s).body = s.body /\ Rest(s).undo = s.undo
           /\ Used(Rest(s)) = Used(s)
<1>1. <<>> \in Seq(Menu)
  BY EmptySeq
<1>2. QED
  BY <1>1 DEF Rest, SessionSet, Used

LEMMA RestIsWhole ==
    ASSUME NEW s \in SessionSet
    PROVE  /\ Well(Rest(s)) <=> Well(s)
           /\ Whole(Rest(s)) <=> Whole(s)
<1>1. Well(Rest(s)) <=> Well(s)
  BY RestFields DEF Well
<1>2. QED
  BY <1>1, RestFields DEF Whole

LEMMA RestRecorded ==
    ASSUME NEW r \in SessionSet, NEW c, Buildable(r, c), NEW read \in Nat
    PROVE  Recorded(Rest(r), c, read) = Rest(Recorded(r, c, read))
<1>1. Output(Rest(r), c, read) = Output(r, c, read)
  BY RestFields DEF Output, BuiltOn
<1>2. Recorded(Rest(r), c, read)
        = RecordedAs(Rest(r), c.label, IF c.kind = "sketch" THEN r.body ELSE Output(r, c, read))
  BY <1>1, RestFields DEF Recorded, RecordedAs
<1>3. Recorded(r, c, read)
        = RecordedAs(r, c.label, IF c.kind = "sketch" THEN r.body ELSE Output(r, c, read))
  BY DEF Recorded, RecordedAs
<1>4. \A after : RecordedAs(Rest(r), c.label, after) = Rest(RecordedAs(r, c.label, after))
  BY DEF RecordedAs, Rest, SessionSet
<1>5. QED
  BY <1>2, <1>3, <1>4

LEMMA RestPlaced ==
    ASSUME NEW r \in SessionSet, NEW x, Places(x)
    PROVE  Placed(Rest(r), x) = Rest(Placed(r, x))
<1>. DEFINE u == Recorded(r, x, 0)
<1>1. Buildable(r, x)
  BY DEF Buildable, Places
<1>2. Recorded(Rest(r), x, 0) = Rest(u) /\ u \in SessionSet
  BY <1>1, RestRecorded, RecordedFields
<1>3. /\ Placed(Rest(r), x) = IF x.kind = "sketch" THEN [Rest(u) EXCEPT !.sketches = @ \cup {x.label}]
                              ELSE Rest(u)
      /\ Placed(r, x) = IF x.kind = "sketch" THEN [u EXCEPT !.sketches = @ \cup {x.label}] ELSE u
  BY <1>2 DEF Placed
<1>. HIDE DEF u
<1>4. [Rest(u) EXCEPT !.sketches = @ \cup {x.label}] = Rest([u EXCEPT !.sketches = @ \cup {x.label}])
  BY <1>2 DEF Rest, SessionSet
<1>5. QED
  BY <1>3, <1>4

LEMMA RestAllPlaced ==
    ASSUME NEW s, Well(s), NEW label, NEW q, Row(label, q),
           \A i \in 1..Len(q) : q[i].label \notin Used(s)
    PROVE  AllPlaced(Rest(s), q)[Len(q)] = Rest(AllPlaced(s, q)[Len(q)])
<1>. DEFINE N == Len(q)
            f == AllPlaced(s, q)
            g == AllPlaced(Rest(s), q)
            G == {n \in 0..N : g[n] = Rest(f[n])}
<1>1. s \in SessionSet /\ Rest(s) \in SessionSet /\ N \in Nat
  BY RestFields DEF Well, Row
<1>2. f[0] = s /\ \A n \in 1..N : f[n] = Placed(f[n - 1], q[n])
  BY <1>1, PlacedSteps
<1>3. g[0] = Rest(s) /\ \A n \in 1..N : g[n] = Placed(g[n - 1], q[n])
  BY <1>1, PlacedSteps
<1>4. \A n \in 0..N : f[n] \in SessionSet
  <2>1. SUFFICES ASSUME NEW n \in 0..N PROVE f[n] \in SessionSet
    OBVIOUS
  <2>2. \A i \in 1..n : q[i].label \notin Used(s)
    BY <1>1
  <2>3. PlacedUpTo(s, f[n], label, q, n)
    BY <2>2, PlacedAdds
  <2>4. QED
    BY <2>3 DEF PlacedUpTo
<1>. HIDE DEF f, g, N
<1>5. 0 \in G
  BY <1>1, <1>2, <1>3
<1>6. ASSUME NEW n \in 0..(N - 1), n \in G
      PROVE  n + 1 \in G
  <2>1. n + 1 \in 1..N /\ (n + 1) - 1 = n /\ n \in 0..N /\ n + 1 \in 0..N
    BY <1>1
  <2>2. f[n + 1] = Placed(f[n], q[n + 1]) /\ g[n + 1] = Placed(g[n], q[n + 1])
    BY <1>2, <1>3, <2>1
  <2>3. Places(q[n + 1]) /\ f[n] \in SessionSet
    BY <1>4, <2>1 DEF Row, N
  <2>4. g[n] = Rest(f[n])
    BY <1>6
  <2>5. g[n + 1] = Rest(f[n + 1])
    BY <2>2, <2>3, <2>4, RestPlaced
  <2>6. QED
    BY <2>1, <2>5
<1>. HIDE DEF G
<1>7. \A n \in 0..N : n \in G
  BY <1>1, <1>5, <1>6, PrefixInduction
<1>8. N \in G
  BY <1>1, <1>7
<1>9. QED
  BY <1>8 DEF G, f, g, N

CommandIn(journal, label) ==
    journal[CHOOSE i \in 1..Len(journal) : journal[i].label = label]

LEMMA SameCommand ==
    ASSUME NEW s, NEW r, r.journal = s.journal, NEW label
    PROVE  CommandOf(r, label) = CommandOf(s, label)
<1>1. CommandOf(r, label) = CommandIn(r.journal, label)
  BY DEF CommandOf, CommandIn
<1>2. CommandOf(s, label) = CommandIn(s.journal, label)
  BY DEF CommandOf, CommandIn
<1>3. QED
  BY <1>1, <1>2

LEMMA RestFits ==
    ASSUME NEW s \in SessionSet, NEW c, NEW read, Fits(s, c, read)
    PROVE  Fits(Rest(s), c, read)
<1>1. CommandOf(Rest(s), c.of[1]) = CommandOf(s, c.of[1])
  BY RestFields, SameCommand
<1>2. QED
  BY <1>1, RestFields DEF Fits

LEMMA RestDone ==
    ASSUME NEW s, Well(s), NEW c, NEW read, Fits(s, c, read)
    PROVE  Done(Rest(s), c, read) = Done(s, c, read)
<1>. DEFINE r == RecordedOf(s, c, read)
<1>1. s \in SessionSet /\ r \in SessionSet /\ read \in Nat /\ c.label \in Labels
  BY RecordedOfFields, MenuFacts DEF Well, Fits
<1>2. RecordedOf(Rest(s), c, read) = Rest(r)
  <2>1. CASE c.kind = "pattern"
    <3>. DEFINE q == Instances(c.label, CommandOf(s, c.of[1]))
                b == AllPlaced(s, q)[Len(q)]
    <3>1. CommandOf(Rest(s), c.of[1]) = CommandOf(s, c.of[1])
      BY <1>1, RestFields, SameCommand
    <3>2. RecordedOf(Rest(s), c, read) = PatternRecorded(AllPlaced(Rest(s), q)[Len(q)], c)
      BY <2>1, <3>1 DEF RecordedOf
    <3>3. r = PatternRecorded(b, c)
      BY <2>1 DEF RecordedOf
    <3>4. Row(c.label, q) /\ \A i \in 1..Len(q) : q[i].label \notin Used(s)
      BY <1>1, <2>1, InstancesMakeARow DEF Fits
    <3>. HIDE DEF q
    <3>5. AllPlaced(Rest(s), q)[Len(q)] = Rest(b)
      BY <3>4, RestAllPlaced
    <3>6. b \in SessionSet
      <4>1. Len(q) \in 0..Len(q)
        BY <3>4 DEF Row
      <4>2. PlacedUpTo(s, b, c.label, q, Len(q))
        BY <3>4, <4>1, PlacedAdds
      <4>3. QED
        BY <4>2 DEF PlacedUpTo
    <3>. HIDE DEF b, r
    <3>7. PatternRecorded(Rest(b), c) = Rest(PatternRecorded(b, c))
      BY <3>6 DEF PatternRecorded, Rest, SessionSet
    <3>8. QED
      BY <3>2, <3>3, <3>5, <3>7
  <2>2. CASE c.kind # "pattern"
    <3>1. Buildable(s, c)
      BY <1>1 DEF Fits, Buildable
    <3>2. QED
      BY <1>1, <2>2, <3>1, RestRecorded DEF RecordedOf
  <2>3. QED
    BY <2>1, <2>2
<1>3. Done(s, c, read) = Journal(s, r, c) /\ Done(Rest(s), c, read) = Journal(Rest(s), Rest(r), c)
  BY <1>2 DEF Done, RecordedOf
<1>. HIDE DEF r
<1>4. Journal(Rest(s), Rest(r), c) = Journal(s, r, c)
  BY <1>1, RestFields DEF Journal, Rest, SessionSet
<1>5. QED
  BY <1>3, <1>4

\* Nor does what is read, but to an import.
LEMMA OnlyImportsRead ==
    ASSUME NEW s, NEW c, c.kind # "import", NEW read, Fits(s, c, read)
    PROVE  Fits(s, c, 0) /\ Done(s, c, 0) = Done(s, c, read)
<1>1. Fits(s, c, 0)
  BY DEF Fits
<1>2. Output(s, c, 0) = Output(s, c, read)
  BY DEF Output
<1>3. QED
  BY <1>1, <1>2 DEF Done, Recorded

-----------------------------------------------------------------------------
(* The trail of sessions to the one at hand.                               *)

Stepped(t, u, c, read) ==
    Whole(t) /\ t.redo = <<>> /\ Fits(t, c, read) /\ u = Done(t, c, read)

Trail(s, T) ==
    /\ T \in [0..Len(s.journal) -> SessionSet]
    /\ T[0] = New /\ T[Len(s.journal)] = Rest(s)
    /\ \A n \in 1..Len(s.journal) :
           Stepped(T[n - 1], T[n], s.journal[n], ReadBy(s, s.journal[n]))

Trailed(s) == \E T : Trail(s, T)

LEMMA NewIsTrailed == Trailed(New)
<1>. DEFINE T == [n \in 0..0 |-> New]
<1>1. New.journal = <<>> /\ Len(<<>>) = 0 /\ New.redo = <<>>
  BY DEF New
<1>2. Rest(New) = New
  BY <1>1, NewIsASession, RestFields, SameSession
<1>3. T \in [0..0 -> SessionSet] /\ T[0] = New
  BY NewIsASession
<1>. HIDE DEF T
<1>4. Trail(New, T)
  BY <1>1, <1>2, <1>3 DEF Trail
<1>5. QED
  BY <1>4 DEF Trailed

LEMMA TrailEndsWhole ==
    ASSUME NEW s, Well(s), Trailed(s)
    PROVE  Whole(s)
<1>1. PICK T : Trail(s, T)
  BY DEF Trailed
<1>2. s \in SessionSet /\ Len(s.journal) \in Nat
  BY SessionFields DEF Well
<1>3. Whole(Rest(s))
  <2>1. CASE Len(s.journal) = 0
    BY <1>1, <2>1, NewIsWhole DEF Trail
  <2>2. CASE Len(s.journal) # 0
    <3>. DEFINE n == Len(s.journal)
    <3>1. n \in 1..Len(s.journal)
      BY <1>2, <2>2
    <3>2. Stepped(T[n - 1], T[n], s.journal[n], ReadBy(s, s.journal[n])) /\ T[n] = Rest(s)
      BY <1>1, <3>1 DEF Trail
    <3>3. QED
      BY <3>2, DoneIsWhole DEF Stepped
  <2>3. QED
    BY <2>1, <2>2
<1>4. QED
  BY <1>2, <1>3, RestIsWhole

\* One command more.
LEMMA TrailGrows ==
    ASSUME NEW s, Well(s), Trailed(s), NEW c, NEW read, Fits(s, c, read),
           NEW u \in SessionSet, Rest(u) = Done(s, c, read)
    PROVE  Trailed(u)
<1>. DEFINE L == Len(s.journal)
            d == Done(s, c, read)
            t == Rest(s)
<1>1. PICK T : Trail(s, T)
  BY DEF Trailed
<1>2. /\ s \in SessionSet /\ L \in Nat /\ s.journal \in Seq(Menu) /\ c \in Menu
      /\ read \in Nat /\ t \in SessionSet /\ t.redo = <<>>
  BY SessionFields, RestFields DEF Well, Fits
<1>3. Whole(s) /\ Whole(t)
  BY <1>2, TrailEndsWhole, RestIsWhole
<1>4. Fits(t, c, read) /\ d = Done(t, c, read)
  BY <1>2, RestFits, RestDone
<1>5. /\ d \in SessionSet /\ Adds(s, d, c.label) /\ d.journal = Append(s.journal, c)
      /\ d.undo = Append(s.undo, [body |-> s.body, command |-> c])
      /\ c.kind = "import" => Last(d.steps[c.label]).read = read
  BY DoneFields
<1>6. u.journal = d.journal /\ u.steps = d.steps
  BY RestFields
<1>7. /\ Len(u.journal) = L + 1 /\ u.journal[L + 1] = c
      /\ \A n \in 1..L : u.journal[n] = s.journal[n]
  BY <1>2, <1>5, <1>6, AppendProperties
<1>8. \A n \in 1..L : ReadBy(u, s.journal[n]) = ReadBy(s, s.journal[n])
  <2>1. SUFFICES ASSUME NEW n \in 1..L PROVE ReadBy(u, s.journal[n]) = ReadBy(s, s.journal[n])
    OBVIOUS
  <2>2. s.journal[n].label \in Used(s)
    BY <1>3 DEF Whole
  <2>3. u.steps[s.journal[n].label] = s.steps[s.journal[n].label]
    BY <1>5, <1>6, <2>2 DEF Adds
  <2>4. QED
    BY <2>3 DEF ReadBy
<1>9. Stepped(t, d, c, ReadBy(u, c))
  <2>1. CASE c.kind = "import"
    <3>1. ReadBy(u, c) = read
      BY <1>5, <1>6, <2>1 DEF ReadBy
    <3>2. QED
      BY <1>2, <1>3, <1>4, <3>1 DEF Stepped
  <2>2. CASE c.kind # "import"
    <3>1. ReadBy(u, c) = 0
      BY <2>2 DEF ReadBy
    <3>2. Fits(t, c, 0) /\ d = Done(t, c, 0)
      BY <1>4, <2>2, OnlyImportsRead
    <3>3. QED
      BY <1>2, <1>3, <3>1, <3>2 DEF Stepped
  <2>3. QED
    BY <2>1, <2>2
<1>. DEFINE V == [n \in 0..(L + 1) |-> IF n <= L THEN T[n] ELSE d]
<1>. HIDE DEF d, t
<1>10. T \in [0..L -> SessionSet] /\ T[0] = New /\ T[L] = t
  BY <1>1 DEF Trail, t
<1>11. \A n \in 1..L : Stepped(T[n - 1], T[n], s.journal[n], ReadBy(s, s.journal[n]))
  BY <1>1 DEF Trail
<1>. HIDE DEF L
<1>12. /\ V \in [0..(L + 1) -> SessionSet] /\ V[L + 1] = d
       /\ \A n \in 0..L : V[n] = T[n]
  BY <1>2, <1>5, <1>10
<1>. HIDE DEF V
<1>13. V[0] = New /\ V[L] = t
  BY <1>2, <1>10, <1>12
<1>14. \A n \in 1..(L + 1) : Stepped(V[n - 1], V[n], u.journal[n], ReadBy(u, u.journal[n]))
  <2>1. SUFFICES ASSUME NEW n \in 1..(L + 1)
                 PROVE  Stepped(V[n - 1], V[n], u.journal[n], ReadBy(u, u.journal[n]))
    OBVIOUS
  <2>2. CASE n = L + 1
    <3>1. n - 1 = L
      BY <1>2, <2>2
    <3>2. QED
      BY <1>7, <1>9, <1>12, <1>13, <2>2, <3>1
  <2>3. CASE n # L + 1
    <3>1. n \in 1..L /\ n - 1 \in 0..L /\ n \in 0..L
      BY <1>2, <2>3
    <3>2. V[n - 1] = T[n - 1] /\ V[n] = T[n] /\ u.journal[n] = s.journal[n]
      BY <1>7, <1>12, <3>1
    <3>3. QED
      BY <1>8, <1>11, <3>1, <3>2
  <2>4. QED
    BY <2>2, <2>3
<1>15. Rest(u) = d
  BY DEF d
<1>16. Trail(u, V)
  BY <1>7, <1>12, <1>13, <1>14, <1>15 DEF Trail
<1>17. QED
  BY <1>16 DEF Trailed

\* One command less: the session before the newest one.
Before(s, t, c, read) ==
    /\ t \in SessionSet /\ Stepped(t, Rest(s), c, read)
    /\ \A u \in SessionSet : Rest(u) = t => Trailed(u)

LEMMA TrailShrinks ==
    ASSUME NEW s, Well(s), Trailed(s), s.journal # <<>>
    PROVE  \E t, c, read : Before(s, t, c, read)
<1>. DEFINE L == Len(s.journal)
            c == s.journal[L]
            read == ReadBy(s, c)
<1>1. PICK T : Trail(s, T)
  BY DEF Trailed
<1>. DEFINE t == T[L - 1]
<1>2. s \in SessionSet /\ s.journal \in Seq(Menu) /\ L \in Nat /\ L # 0
  BY SessionFields, EmptySeq DEF Well
<1>3. L \in 1..L /\ L - 1 \in 0..L /\ L - 1 \in Nat
  BY <1>2
<1>4. Stepped(t, Rest(s), c, read)
  BY <1>1, <1>3 DEF Trail
<1>5. t \in SessionSet
  BY <1>1, <1>3 DEF Trail
<1>6. /\ Whole(t) /\ Rest(s) = Done(t, c, read) /\ Adds(t, Rest(s), c.label)
      /\ Rest(s).journal = Append(t.journal, c) /\ c \in Menu
  <2>1. Whole(t) /\ Fits(t, c, read) /\ Rest(s) = Done(t, c, read)
    BY <1>4 DEF Stepped
  <2>. HIDE DEF t, c, read
  <2>2. Well(t) /\ c \in Menu
    BY <2>1 DEF Whole, Fits
  <2>3. /\ Adds(t, Done(t, c, read), c.label) /\ Done(t, c, read).journal = Append(t.journal, c)
        /\ Done(t, c, read).undo = Append(t.undo, [body |-> t.body, command |-> c])
    BY <2>1, <2>2, DoneFields
  <2>4. QED
    BY <2>1, <2>2, <2>3
<1>7. s.journal = Append(t.journal, c) /\ s.steps = Rest(s).steps
  BY <1>2, <1>6, RestFields
<1>8. /\ t.journal \in Seq(Menu) /\ Len(t.journal) = L - 1
      /\ \A n \in 1..(L - 1) : t.journal[n] = s.journal[n]
  <2>1. t.journal \in Seq(Menu) /\ Len(t.journal) \in Nat
    BY <1>5, SessionFields
  <2>. HIDE DEF t, c
  <2>2. /\ Len(s.journal) = Len(t.journal) + 1
        /\ \A n \in 1..Len(t.journal) : s.journal[n] = t.journal[n]
    BY <1>6, <1>7, <2>1, AppendProperties
  <2>3. QED
    BY <1>2, <2>1, <2>2
<1>9. ASSUME NEW u \in SessionSet, Rest(u) = t PROVE Trailed(u)
  <2>1. u.journal = t.journal /\ u.steps = t.steps
    BY <1>9, RestFields
  <2>2. Len(u.journal) = L - 1 /\ \A n \in 1..(L - 1) : u.journal[n] = s.journal[n]
    BY <1>8, <2>1
  <2>3. \A n \in 1..(L - 1) : ReadBy(u, s.journal[n]) = ReadBy(s, s.journal[n])
    <3>1. SUFFICES ASSUME NEW n \in 1..(L - 1)
                   PROVE  ReadBy(u, s.journal[n]) = ReadBy(s, s.journal[n])
      OBVIOUS
    <3>2. s.journal[n].label \in Used(t)
      BY <1>6, <1>8 DEF Whole
    <3>3. u.steps[s.journal[n].label] = s.steps[s.journal[n].label]
      BY <1>6, <1>7, <2>1, <3>2 DEF Adds
    <3>4. QED
      BY <3>3 DEF ReadBy
  <2>. DEFINE V == [n \in 0..(L - 1) |-> T[n]]
  <2>4. \A n \in 0..(L - 1) : T[n] \in SessionSet
    BY <1>1, <1>3 DEF Trail
  <2>5. V \in [0..(L - 1) -> SessionSet] /\ \A n \in 0..(L - 1) : V[n] = T[n]
    BY <2>4
  <2>. HIDE DEF V
  <2>6. V[0] = New /\ V[L - 1] = t
    BY <1>1, <1>3, <2>5 DEF Trail
  <2>7. \A n \in 1..(L - 1) : Stepped(V[n - 1], V[n], u.journal[n], ReadBy(u, u.journal[n]))
    <3>1. SUFFICES ASSUME NEW n \in 1..(L - 1)
                   PROVE  Stepped(V[n - 1], V[n], u.journal[n], ReadBy(u, u.journal[n]))
      OBVIOUS
    <3>2. n - 1 \in 0..(L - 1) /\ n \in 0..(L - 1) /\ n \in 1..L
      BY <1>3
    <3>3. Stepped(T[n - 1], T[n], s.journal[n], ReadBy(s, s.journal[n]))
      BY <1>1, <3>2 DEF Trail
    <3>4. QED
      BY <2>2, <2>3, <2>5, <3>2, <3>3
  <2>8. Trail(u, V)
    BY <1>9, <2>2, <2>5, <2>6, <2>7 DEF Trail
  <2>9. QED
    BY <2>8 DEF Trailed
<1>10. Before(s, t, c, read)
  BY <1>4, <1>5, <1>9 DEF Before
<1>11. QED
  BY <1>10

\* The journal is replayed along the trail.
LEMMA TrailIsReplayed ==
    ASSUME NEW s, Well(s), Trailed(s)
    PROVE  Replayed(s) = Rest(s)
<1>. DEFINE L == Len(s.journal)
            turn(n, r) == Done(r, s.journal[n], ReadBy(s, s.journal[n]))
            body(f) == [n \in 0..L |-> IF n = 0 THEN New ELSE turn(n, f[n - 1])]
            replay == CHOOSE f : f = body(f)
<1>1. PICK T : Trail(s, T)
  BY DEF Trailed
<1>2. L \in Nat
  BY SessionFields DEF Well
<1>3. replay[L] = Replayed(s)
  BY DEF Replayed
<1>4. /\ T \in [0..L -> SessionSet] /\ T[0] = New /\ T[L] = Rest(s)
      /\ \A n \in 1..L : T[n] = turn(n, T[n - 1])
  BY <1>1 DEF Trail, Stepped
<1>. HIDE DEF L, turn
<1>5. T = body(T)
  <2>. DEFINE with(n) == IF n = 0 THEN New ELSE turn(n, T[n - 1])
  <2>1. \A n \in 0..L : T[n] = with(n)
    BY <1>2, <1>4
  <2>2. T = [n \in 0..L |-> T[n]]
    BY <1>4
  <2>. HIDE DEF with
  <2>3. [n \in 0..L |-> T[n]] = [n \in 0..L |-> with(n)]
    BY ONLY <2>1
  <2>4. T = [n \in 0..L |-> with(n)]
    BY ONLY <2>2, <2>3
  <2>5. QED
    BY <2>4 DEF with
<1>6. replay = body(replay)
  BY <1>5
<1>. HIDE DEF replay
<1>7. replay[0] = New /\ \A n \in 1..L : replay[n] = turn(n, replay[n - 1])
  BY <1>2, <1>6
<1>. DEFINE G == {n \in 0..L : replay[n] = T[n]}
<1>8. 0 \in G
  BY <1>2, <1>4, <1>7
<1>9. ASSUME NEW n \in 0..(L - 1), n \in G PROVE n + 1 \in G
  <2>1. n + 1 \in 1..L /\ (n + 1) - 1 = n /\ n + 1 \in 0..L
    BY <1>2
  <2>2. replay[n + 1] = turn(n + 1, replay[n]) /\ T[n + 1] = turn(n + 1, T[n])
    BY <1>4, <1>7, <2>1
  <2>3. QED
    BY <1>9, <2>1, <2>2
<1>. HIDE DEF G
<1>10. \A n \in 0..L : n \in G
  BY <1>2, <1>8, <1>9, PrefixInduction
<1>11. replay[L] = T[L]
  BY <1>2, <1>10 DEF G
<1>12. QED
  BY <1>3, <1>4, <1>11

-----------------------------------------------------------------------------
(* Commands, undo and redo move along the line.                            *)

LEMMA AppendedEnds ==
    ASSUME NEW S, NEW q \in Seq(S), NEW x \in S
    PROVE  Front(Append(q, x)) = q /\ Last(Append(q, x)) = x /\ Append(q, x) # <<>>
<1>. DEFINE a == Append(q, x)
            n == Len(q)
<1>1. /\ a \in Seq(S) /\ a # <<>> /\ Len(a) = n + 1 /\ n \in Nat
      /\ \A i \in 1..n : a[i] = q[i] /\ a[i] \in S
      /\ a[n + 1] = x
  BY AppendProperties, LenProperties, ElementOfSeq
<1>. HIDE DEF a, n
<1>2. Front(a) = SubSeq(a, 1, n)
  BY <1>1 DEF Front
<1>3. /\ SubSeq(a, 1, n) \in Seq(S) /\ Len(SubSeq(a, 1, n)) = n
      /\ \A i \in 1..n : SubSeq(a, 1, n)[i] = a[i]
  BY <1>1, SubSeqProperties
<1>4. SubSeq(a, 1, n) = q
  BY <1>1, <1>3, SeqEqual DEF n
<1>5. QED
  BY <1>1, <1>2, <1>4 DEF a, Last

LEMMA EndsAppended ==
    ASSUME NEW S, NEW q \in Seq(S), q # <<>>
    PROVE  Front(q) \in Seq(S) /\ Last(q) \in S /\ q = Append(Front(q), Last(q))
<1>1. PICK p \in Seq(S), x \in S : q = Append(p, x)
  BY SequenceEmptyOrAppend
<1>2. Front(q) = p /\ Last(q) = x
  BY <1>1, AppendedEnds
<1>3. QED
  BY <1>1, <1>2

\* v is s, or a command away from it on the line.
Moved(s, v) ==
    \/ v = s
    \/ \E c \in Menu :
           \/ v.journal = Append(s.journal, c) /\ v.redo = <<>>
           \/ v.journal = Append(s.journal, c) /\ s.redo = Append(v.redo, c)
           \/ s.journal = Append(v.journal, c) /\ v.redo = Append(s.redo, c)

Kept(s, v) == Trailed(v) /\ Moved(s, v)

LEMMA CommandMoves ==
    ASSUME NEW s, Well(s), NEW c \in Menu, NEW read \in Nat, NEW o \in Outcomes(s, c, read)
    PROVE  /\ Well(o.session)
           /\ Trailed(s) /\ (o.answer = "panicked" => o.session = s) => Kept(s, o.session)
<1>1. Told(s, c, read, o)
  BY OutcomeIsTold
<1>2. Well(o.session)
  BY <1>1 DEF Told
<1>3. ASSUME Trailed(s), o.answer = "panicked" => o.session = s PROVE Kept(s, o.session)
  <2>1. CASE o.session = s
    BY <1>3, <2>1 DEF Kept, Moved
  <2>2. CASE o.session # s
    <3>1. Whole(s)
      BY <1>3, TrailEndsWhole
    <3>2. o.answer = "done"
      BY <1>1, <1>3, <2>2, <3>1 DEF Told
    <3>3. Fits(s, c, read) /\ o.session = Done(s, c, read)
      BY <1>1, <3>2 DEF Told
    <3>. DEFINE d == Done(s, c, read)
    <3>4. /\ d \in SessionSet /\ d.redo = <<>> /\ d.journal = Append(s.journal, c)
          /\ d.undo = Append(s.undo, [body |-> s.body, command |-> c])
      BY <3>3, DoneFields
    <3>. HIDE DEF d
    <3>5. Rest(d) = d
      BY <3>4, RestFields, SameSession
    <3>6. Trailed(d)
      BY <1>3, <3>3, <3>4, <3>5, TrailGrows DEF d
    <3>7. Moved(s, d)
      BY <3>4 DEF Moved
    <3>8. QED
      BY <3>3, <3>6, <3>7 DEF d, Kept
  <2>3. QED
    BY <2>1, <2>2
<1>4. QED
  BY <1>2, <1>3

\* The newest command is taken back to the session it was done on.
Undone(s) ==
    LET last == Last(s.undo)
    IN  Discarded([s EXCEPT !.body = last.body,
                            !.journal = IF @ = <<>> THEN @ ELSE Front(@),
                            !.undo = Front(@),
                            !.redo = Append(@, last.command)],
                  last.command.label)

LEMMA UndoMoves ==
    ASSUME NEW s, Well(s), s.undo # <<>>
    PROVE  /\ Well(Undone(s))
           /\ Trailed(s) => Kept(s, Undone(s))
<1>. DEFINE last == Last(s.undo)
            r == [s EXCEPT !.body = last.body, !.journal = Front(@), !.undo = Front(@),
                           !.redo = Append(@, last.command)]
            v == Undone(s)
<1>1. /\ s \in SessionSet /\ s.journal \in Seq(Menu) /\ s.undo \in Seq(Undoables)
      /\ s.redo \in Seq(Menu) /\ Len(s.undo) = Len(s.journal) /\ s.journal # <<>>
  <2>1. s \in SessionSet /\ Len(s.undo) = Len(s.journal)
    BY DEF Well
  <2>2. s.journal \in Seq(Menu) /\ s.undo \in Seq(Undoables) /\ s.redo \in Seq(Menu)
    BY <2>1, SessionFields
  <2>3. Len(s.undo) # 0
    BY <2>2, EmptySeq
  <2>4. QED
    BY <2>1, <2>2, <2>3, EmptySeq
<1>2. /\ last \in Undoables /\ Front(s.undo) \in Seq(Undoables)
      /\ s.undo = Append(Front(s.undo), last)
  BY <1>1, EndsAppended
<1>3. /\ Front(s.journal) \in Seq(Menu) /\ Last(s.journal) \in Menu
      /\ s.journal = Append(Front(s.journal), Last(s.journal))
  BY <1>1, EndsAppended
<1>4. v = Discarded(r, last.command.label)
  BY <1>1 DEF Undone
<1>5. last.body \in Bodies /\ last.command \in Menu
  BY <1>2 DEF Undoables
<1>. HIDE DEF v, last
<1>6. Append(s.redo, last.command) \in Seq(Menu)
  BY <1>1, <1>5, AppendProperties
<1>7. /\ r \in SessionSet /\ r.order = s.order /\ r.steps = s.steps /\ r.sketches = s.sketches
      /\ r.body = last.body /\ r.journal = Front(s.journal) /\ r.undo = Front(s.undo)
      /\ r.redo = Append(s.redo, last.command)
  BY <1>1, <1>2, <1>3, <1>5, <1>6 DEF SessionSet
<1>. HIDE DEF r
<1>8. Distinct(r.order) /\ Lists(r.order, Used(r))
  BY <1>7 DEF Well, Used
<1>9. /\ v \in SessionSet /\ Distinct(v.order) /\ Lists(v.order, Used(v))
      /\ v.journal = Front(s.journal) /\ v.body = last.body
      /\ v.undo = Front(s.undo) /\ v.redo = Append(s.redo, last.command)
  BY <1>4, <1>7, <1>8, DiscardedIsWell
<1>10. Len(Front(s.journal)) + 1 = Len(s.journal) /\ Len(Front(s.undo)) + 1 = Len(s.undo)
  BY <1>2, <1>3, AppendProperties
<1>11. Len(Front(s.journal)) \in Nat /\ Len(Front(s.undo)) \in Nat
  BY <1>2, <1>3, LenProperties
<1>12. Well(v)
  BY <1>1, <1>9, <1>10, <1>11 DEF Well
<1>13. ASSUME Trailed(s) PROVE Kept(s, v)
  <2>1. PICK t, c, read : Before(s, t, c, read)
    BY <1>1, <1>13, TrailShrinks
  <2>2. /\ t \in SessionSet /\ Whole(t) /\ t.redo = <<>> /\ Fits(t, c, read)
        /\ Rest(s) = Done(t, c, read)
        /\ \A u \in SessionSet : Rest(u) = t => Trailed(u)
    BY <2>1 DEF Before, Stepped
  <2>3. Well(t) /\ c \in Menu /\ c.label \notin Used(t)
    BY <2>2 DEF Whole, Fits
  <2>. DEFINE d == Done(t, c, read)
              e == [body |-> t.body, command |-> c]
  <2>4. /\ d \in SessionSet /\ Adds(t, d, c.label)
        /\ d.journal = Append(t.journal, c) /\ d.undo = Append(t.undo, e)
    BY <2>2, <2>3, DoneFields
  <2>. HIDE DEF d
  <2>5. /\ s.journal = Append(t.journal, c) /\ s.undo = Append(t.undo, e)
        /\ s.order = d.order /\ s.steps = d.steps /\ s.sketches = d.sketches
    BY <1>1, <2>2, <2>4, RestFields DEF d
  <2>6. t.journal \in Seq(Menu) /\ t.undo \in Seq(Undoables) /\ e \in Undoables
    BY <2>2, <2>3, SessionFields DEF Undoables
  <2>7. e.command = c /\ e.body = t.body
    OBVIOUS
  <2>. HIDE DEF e
  <2>8. Front(s.journal) = t.journal
    BY <2>3, <2>5, <2>6, AppendedEnds
  <2>9. Front(s.undo) = t.undo /\ last = e
    BY <2>5, <2>6, AppendedEnds DEF last
  <2>10. Adds(t, r, c.label)
    BY <1>7, <2>4, <2>5 DEF Adds, Used
  <2>11. r.journal = t.journal /\ last.command = c
    BY <1>7, <2>7, <2>8, <2>9
  <2>12. /\ v.order = t.order /\ v.steps = t.steps /\ v.sketches = t.sketches
    BY <1>4, <1>7, <2>2, <2>3, <2>10, <2>11, AddedIsTakenBack
  <2>13. v.journal = t.journal /\ v.body = t.body /\ v.undo = t.undo /\ v.redo = Append(s.redo, c)
    BY <1>9, <2>7, <2>8, <2>9
  <2>14. Rest(v) = t
    BY <1>9, <2>2, <2>12, <2>13, RestFields, SameSession
  <2>15. Trailed(v)
    BY <1>9, <2>2, <2>14
  <2>16. Moved(s, v)
    BY <2>3, <2>5, <2>13 DEF Moved
  <2>17. QED
    BY <2>15, <2>16 DEF Kept
<1>14. QED
  BY <1>12, <1>13 DEF v

LEMMA RestIsTrailed ==
    ASSUME NEW s \in SessionSet, NEW r \in SessionSet, Rest(r) = Rest(s), Trailed(s)
    PROVE  Trailed(r)
<1>1. PICK T : Trail(s, T)
  BY DEF Trailed
<1>2. r.journal = s.journal /\ r.steps = s.steps
  BY RestFields
<1>3. \A c : ReadBy(r, c) = ReadBy(s, c)
  BY <1>2 DEF ReadBy
<1>4. Trail(r, T)
  BY <1>1, <1>2, <1>3 DEF Trail
<1>5. QED
  BY <1>4 DEF Trailed

LEMMA RedoMoves ==
    ASSUME NEW s, Well(s), s.redo # <<>>, NEW read \in Nat,
           NEW o \in Outcomes(Rest(s), Last(s.redo), read)
    PROVE  LET v == Redone(s, Front(s.redo), o)
           IN  /\ Well(v)
               /\ Trailed(s) /\ (o.answer = "panicked" => v = s) => Kept(s, v)
<1>. DEFINE c == Last(s.redo)
            p == Front(s.redo)
            v == Redone(s, p, o)
<1>1. s \in SessionSet /\ s.redo \in Seq(Menu)
  BY SessionFields DEF Well
<1>2. c \in Menu /\ p \in Seq(Menu) /\ s.redo = Append(p, c)
  BY <1>1, EndsAppended
<1>3. Well(Rest(s)) /\ Rest(s) \in SessionSet /\ Rest(s).redo = <<>>
  BY <1>1, RestIsWhole, RestFields
<1>. HIDE DEF c, p
<1>4. Told(Rest(s), c, read, o)
  BY <1>2, <1>3, OutcomeIsTold DEF c
<1>5. Well(o.session) /\ o.session \in SessionSet
  BY <1>4 DEF Told, Well
<1>6. ASSUME NEW q \in Seq(Menu), v = [o.session EXCEPT !.redo = q]
      PROVE  Well(v) /\ v.redo = q /\ v.journal = o.session.journal /\ Rest(v) = Rest(o.session)
  <2>. HIDE DEF v
  <2>1. /\ v \in SessionSet /\ v.redo = q /\ v.journal = o.session.journal
        /\ v.order = o.session.order /\ v.steps = o.session.steps /\ v.undo = o.session.undo
        /\ v.sketches = o.session.sketches /\ v.body = o.session.body
    BY <1>5, <1>6 DEF SessionSet
  <2>2. Well(v)
    BY <1>5, <2>1 DEF Well, Used
  <2>3. Rest(v) = Rest(o.session)
    BY <1>5, <2>1, RestFields, SameSession
  <2>4. QED
    BY <2>1, <2>2, <2>3
<1>7. CASE o.answer = "panicked"
  <2>1. v = o.session
    BY <1>7 DEF Redone
  <2>2. v.redo = <<>>
    BY <1>3, <1>4, <1>7, <2>1 DEF Told
  <2>. HIDE DEF v
  <2>3. v # s
    BY <2>2
  <2>4. QED
    BY <1>5, <1>7, <2>1, <2>3 DEF v, p
<1>8. CASE o.answer = "refused"
  <2>1. v = [o.session EXCEPT !.redo = s.redo]
    BY <1>8 DEF Redone
  <2>2. Well(v) /\ v.redo = s.redo /\ Rest(v) = Rest(o.session)
    BY <1>1, <1>6, <2>1
  <2>. HIDE DEF v
  <2>3. ASSUME Trailed(s) PROVE Kept(s, v)
    <3>1. Whole(Rest(s))
      BY <1>1, <2>3, TrailEndsWhole, RestIsWhole
    <3>2. o.session = Rest(s)
      BY <1>4, <1>8, <3>1 DEF Told
    <3>3. v = s
      BY <1>1, <2>1, <3>2 DEF Rest, SessionSet
    <3>4. QED
      BY <2>3, <3>3 DEF Kept, Moved
  <2>4. QED
    BY <2>2, <2>3 DEF v, p
<1>9. CASE o.answer = "done"
  <2>1. v = [o.session EXCEPT !.redo = p]
    BY <1>9 DEF Redone
  <2>2. Well(v) /\ v.redo = p /\ v.journal = o.session.journal /\ Rest(v) = Rest(o.session)
    BY <1>2, <1>6, <2>1
  <2>. HIDE DEF v
  <2>3. Fits(Rest(s), c, read) /\ o.session = Done(Rest(s), c, read)
    BY <1>4, <1>9 DEF Told
  <2>. DEFINE d == Done(Rest(s), c, read)
  <2>4. /\ d \in SessionSet /\ d.redo = <<>> /\ d.journal = Append(Rest(s).journal, c)
        /\ d.undo = Append(Rest(s).undo, [body |-> Rest(s).body, command |-> c])
    BY <1>3, <2>3, DoneFields
  <2>. HIDE DEF d
  <2>5. Rest(d) = d
    BY <2>4, RestFields, SameSession
  <2>6. ASSUME Trailed(s) PROVE Kept(s, v)
    <3>1. Rest(Rest(s)) = Rest(s)
      BY <1>3, RestFields, SameSession
    <3>2. Trailed(Rest(s))
      BY <1>1, <1>3, <2>6, <3>1, RestIsTrailed
    <3>3. v \in SessionSet /\ Rest(v) = d
      BY <2>2, <2>3, <2>5 DEF Well, d
    <3>4. Trailed(v)
      BY <1>3, <2>3, <3>2, <3>3, TrailGrows DEF d
    <3>5. v.journal = Append(s.journal, c) /\ s.redo = Append(v.redo, c)
      BY <1>1, <1>2, <2>2, <2>3, <2>4, RestFields DEF d
    <3>6. QED
      BY <1>2, <3>4, <3>5 DEF Kept, Moved
  <2>7. QED
    BY <2>2, <2>6 DEF v, p
<1>10. QED
  BY <1>4, <1>7, <1>8, <1>9 DEF Told

\* A command that is undone or redone passes along the line.
LEMMA LinePasses ==
    ASSUME NEW j \in Seq(Menu), NEW q \in Seq(Menu), NEW c \in Menu
    PROVE  j \o Reverse(Append(q, c)) = Append(j, c) \o Reverse(q)
<1>. DEFINE a == Append(q, c)
            b == Append(j, c)
            m == Len(j)
            n == Len(q)
<1>1. /\ a \in Seq(Menu) /\ Len(a) = n + 1 /\ a[n + 1] = c
      /\ \A i \in 1..n : a[i] = q[i]
  BY AppendProperties
<1>2. /\ b \in Seq(Menu) /\ Len(b) = m + 1 /\ b[m + 1] = c
      /\ \A i \in 1..m : b[i] = j[i]
  BY AppendProperties
<1>3. m \in Nat /\ n \in Nat
  BY LenProperties
<1>4. \A p \in Seq(Menu) : /\ Reverse(p) \in Seq(Menu) /\ Len(Reverse(p)) = Len(p)
                           /\ \A i \in 1..Len(p) : Reverse(p)[i] = p[(Len(p) - i) + 1]
  <2>1. SUFFICES ASSUME NEW p \in Seq(Menu)
                 PROVE  /\ Reverse(p) \in Seq(Menu) /\ Len(Reverse(p)) = Len(p)
                        /\ \A i \in 1..Len(p) : Reverse(p)[i] = p[(Len(p) - i) + 1]
    OBVIOUS
  <2>2. Len(p) \in Nat /\ \A i \in 1..Len(p) : p[i] \in Menu
    BY LenProperties, ElementOfSeq
  <2>3. \A i \in 1..Len(p) : (Len(p) - i) + 1 \in 1..Len(p)
    BY <2>2
  <2>4. Reverse(p) \in [1..Len(p) -> Menu]
    BY <2>2, <2>3 DEF Reverse
  <2>5. Reverse(p) \in Seq(Menu)
    BY <2>2, <2>4, SeqDef
  <2>6. DOMAIN Reverse(p) = 1..Len(Reverse(p)) /\ Len(Reverse(p)) \in Nat
    BY <2>5, LenProperties
  <2>7. DOMAIN Reverse(p) = 1..Len(p)
    BY <2>4
  <2>8. Len(Reverse(p)) = Len(p)
    BY <2>2, <2>6, <2>7
  <2>9. \A i \in 1..Len(p) : Reverse(p)[i] = p[(Len(p) - i) + 1]
    BY DEF Reverse
  <2>10. QED
    BY <2>5, <2>8, <2>9
<1>. HIDE DEF a, b, m, n
<1>. DEFINE x == Reverse(a)
            y == Reverse(q)
            l == j \o x
            r == b \o y
<1>5. /\ x \in Seq(Menu) /\ Len(x) = n + 1
      /\ \A i \in 1..(n + 1) : x[i] = a[((n + 1) - i) + 1]
  BY <1>1, <1>4
<1>6. /\ y \in Seq(Menu) /\ Len(y) = n
      /\ \A i \in 1..n : y[i] = q[(n - i) + 1]
  BY <1>4 DEF n
<1>. HIDE DEF x, y
<1>7. /\ l \in Seq(Menu) /\ Len(l) = m + (n + 1)
      /\ \A i \in 1..(m + (n + 1)) : l[i] = IF i <= m THEN j[i] ELSE x[i - m]
  BY <1>5, ConcatProperties DEF m
<1>8. /\ r \in Seq(Menu) /\ Len(r) = (m + 1) + n
      /\ \A i \in 1..((m + 1) + n) : r[i] = IF i <= m + 1 THEN b[i] ELSE y[i - (m + 1)]
  <2>1. /\ r \in Seq(Menu) /\ Len(r) = Len(b) + Len(y)
        /\ \A i \in 1..(Len(b) + Len(y)) : r[i] = IF i <= Len(b) THEN b[i] ELSE y[i - Len(b)]
    BY <1>2, <1>6, ConcatProperties
  <2>. HIDE DEF r
  <2>2. QED
    BY <1>2, <1>6, <2>1
<1>. HIDE DEF l, r
<1>9. ASSUME NEW i \in 1..(m + (n + 1)) PROVE l[i] = r[i]
  <2>1. l[i] = (IF i <= m THEN j[i] ELSE x[i - m])
        /\ r[i] = (IF i <= m + 1 THEN b[i] ELSE y[i - (m + 1)])
    BY <1>3, <1>7, <1>8
  <2>2. CASE i <= m
    BY <1>2, <1>3, <2>1, <2>2
  <2>3. CASE i = m + 1
    <3>1. i - m = 1 /\ ((n + 1) - 1) + 1 = n + 1 /\ 1 \in 1..(n + 1)
      BY <1>3, <2>3
    <3>2. x[1] = c
      BY <1>1, <1>5, <3>1
    <3>3. QED
      BY <1>2, <1>3, <2>1, <2>3, <3>1, <3>2
  <2>4. CASE i > m + 1
    <3>. DEFINE k == i - m
    <3>1. k \in 1..(n + 1) /\ k - 1 \in 1..n /\ i - (m + 1) = k - 1
          /\ ((n + 1) - k) + 1 = (n - (k - 1)) + 1 /\ (n - (k - 1)) + 1 \in 1..n
      BY <1>3, <2>4
    <3>2. l[i] = x[k] /\ r[i] = y[k - 1]
      BY <1>3, <2>1, <2>4, <3>1
    <3>. HIDE DEF k
    <3>3. x[k] = a[(n - (k - 1)) + 1] /\ y[k - 1] = q[(n - (k - 1)) + 1]
      BY <1>5, <1>6, <3>1
    <3>4. QED
      BY <1>1, <3>1, <3>2, <3>3
  <2>5. QED
    BY <1>3, <2>2, <2>3, <2>4
<1>10. Len(l) = Len(r)
  BY <1>3, <1>7, <1>8
<1>11. l = r
  BY <1>7, <1>8, <1>9, <1>10, SeqEqual
<1>12. QED
  BY <1>11 DEF l, r, x, y, a, b

LEMMA LineEnds ==
    ASSUME NEW j \in Seq(Menu)
    PROVE  j \o Reverse(<<>>) = j
<1>1. Len(<<>>) = 0
  BY EmptySeq
<1>2. Reverse(<<>>) = <<>>
  BY <1>1 DEF Reverse
<1>3. QED
  BY <1>2, ConcatEmptySeq

\* What UndoAndRedoWalkALine says of a request that is not torn or a reset.
Walked(s, v) ==
    \/ /\ Line(v) = Line(s)
       /\ Len(v.journal) + 1 >= Len(s.journal)
       /\ Len(s.journal) + 1 >= Len(v.journal)
       /\ v.journal = s.journal => v = s
    \/ \E c \in Menu : Line(v) = Append(s.journal, c)

LEMMA MovedIsWalked ==
    ASSUME NEW s, Well(s), NEW v, Well(v), Moved(s, v)
    PROVE  Walked(s, v)
<1>1. /\ s.journal \in Seq(Menu) /\ Len(s.journal) \in Nat /\ s.redo \in Seq(Menu)
      /\ v.journal \in Seq(Menu) /\ Len(v.journal) \in Nat /\ v.redo \in Seq(Menu)
  BY SessionFields DEF Well
<1>2. CASE v = s
  BY <1>1, <1>2 DEF Walked
<1>3. ASSUME NEW c \in Menu, v.journal = Append(s.journal, c), v.redo = <<>>
      PROVE  Walked(s, v)
  <2>1. Line(v) = Append(s.journal, c)
    BY <1>1, <1>3, LineEnds DEF Line
  <2>2. QED
    BY <2>1 DEF Walked
<1>4. ASSUME NEW c \in Menu, v.journal = Append(s.journal, c), s.redo = Append(v.redo, c)
      PROVE  Walked(s, v)
  <2>1. Line(v) = Line(s)
    <3>1. s.journal \o Reverse(Append(v.redo, c)) = Append(s.journal, c) \o Reverse(v.redo)
      BY <1>1, LinePasses
    <3>2. QED
      BY <1>4, <3>1 DEF Line
  <2>2. Len(v.journal) = Len(s.journal) + 1
    BY <1>1, <1>4, AppendProperties
  <2>3. QED
    BY <1>1, <2>1, <2>2 DEF Walked
<1>5. ASSUME NEW c \in Menu, s.journal = Append(v.journal, c), v.redo = Append(s.redo, c)
      PROVE  Walked(s, v)
  <2>1. Line(v) = Line(s)
    <3>1. v.journal \o Reverse(Append(s.redo, c)) = Append(v.journal, c) \o Reverse(s.redo)
      BY <1>1, LinePasses
    <3>2. QED
      BY <1>5, <3>1 DEF Line
  <2>2. Len(s.journal) = Len(v.journal) + 1
    BY <1>1, <1>5, AppendProperties
  <2>3. QED
    BY <1>1, <2>1, <2>2 DEF Walked
<1>6. QED
  BY <1>2, <1>3, <1>4, <1>5 DEF Moved

-----------------------------------------------------------------------------
(* The specification.                                                      *)

SessionInv ==
    /\ Well(session)
    /\ stepFile \in Readings \cup {0} /\ torn \in BOOLEAN
    /\ ~torn => Trailed(session)

LEMMA InitIsTrailed == SessionInit => SessionInv
  BY NewIsWhole, NewIsTrailed DEF SessionInit, SessionInv, Whole

\* What a request does to the session.
Turned ==
    /\ SessionInv'
    /\ \/ torn'
       \/ session' = New
       \/ Moved(session, session')

LEMMA NextTurns ==
    ASSUME SessionInv, [SessionNext]_kernelVars
    PROVE  Turned
<1>1. Well(session) /\ stepFile \in Nat /\ torn \in BOOLEAN /\ (~torn => Trailed(session))
  BY SessionAssumption DEF SessionInv
<1>2. ASSUME NEW o, Answers(o), Well(o.session),
             Trailed(session) /\ (o.answer = "panicked" => o.session = session)
                 => Kept(session, o.session)
      PROVE  Turned
  <2>1. /\ session' = o.session /\ stepFile' = stepFile
        /\ torn' = (torn \/ (o.answer = "panicked" /\ o.session # session))
    BY <1>2 DEF Answers
  <2>2. Well(session') /\ stepFile' \in Readings \cup {0}
    BY <1>2, <2>1 DEF SessionInv
  <2>3. torn' \in BOOLEAN
    BY <2>1
  <2>4. ASSUME ~torn' PROVE Trailed(session') /\ Moved(session, session')
    <3>1. ~torn /\ (o.answer = "panicked" => o.session = session)
      BY <2>1, <2>4
    <3>2. QED
      BY <1>1, <1>2, <2>1, <3>1 DEF Kept
  <2>5. QED
    BY <2>2, <2>3, <2>4 DEF Turned, SessionInv
<1>3. ASSUME NEW c \in Menu, Execute(c) PROVE Turned
  <2>1. PICK o \in Outcomes(session, c, stepFile) : Answers(o)
    BY <1>3 DEF Execute
  <2>2. /\ Well(o.session)
        /\ Trailed(session) /\ (o.answer = "panicked" => o.session = session)
               => Kept(session, o.session)
    BY <1>1, <2>1, CommandMoves
  <2>3. QED
    BY <1>2, <2>1, <2>2
<1>4. ASSUME UndoStep PROVE Turned
  <2>. DEFINE o == Answered("done", Undone(session))
  <2>1. session.undo # <<>> /\ Answers(o)
    BY <1>4 DEF UndoStep, Undone
  <2>2. o.answer = "done" /\ o.session = Undone(session)
    BY DEF Answered
  <2>. HIDE DEF o
  <2>3. Well(o.session) /\ (Trailed(session) => Kept(session, o.session))
    BY <1>1, <2>1, <2>2, UndoMoves
  <2>4. QED
    BY <1>2, <2>1, <2>3
<1>5. ASSUME RedoStep PROVE Turned
  <2>. DEFINE p == Front(session.redo)
  <2>1. session.redo # <<>>
    BY <1>5 DEF RedoStep
  <2>2. PICK o \in Outcomes(Rest(session), Last(session.redo), stepFile) :
               Answers(Answered(o.answer, Redone(session, p, o)))
    BY <1>5 DEF RedoStep, Rest
  <2>. DEFINE v == Redone(session, p, o)
              a == Answered(o.answer, v)
  <2>3. a.answer = o.answer /\ a.session = v
    BY DEF Answered
  <2>4. /\ Well(v)
        /\ Trailed(session) /\ (o.answer = "panicked" => v = session) => Kept(session, v)
    BY <1>1, <2>1, <2>2, RedoMoves
  <2>5. Answers(a)
    BY <2>2
  <2>. HIDE DEF a, v
  <2>6. QED
    BY <1>2, <2>3, <2>4, <2>5
<1>6. CASE Reset
  <2>1. session' = New /\ torn' = FALSE /\ stepFile' = stepFile
    BY <1>6 DEF Reset
  <2>2. Well(session') /\ Trailed(session') /\ stepFile' \in Readings \cup {0}
    BY <2>1, NewIsWhole, NewIsTrailed DEF Whole, SessionInv
  <2>3. QED
    BY <2>1, <2>2 DEF Turned, SessionInv
<1>7. ASSUME session' = session, torn' = torn, stepFile' \in Readings \cup {0}
      PROVE  Turned
  BY <1>1, <1>7 DEF Turned, SessionInv, Moved
<1>8. ASSUME NEW content \in Readings \cup {0}, WriteFile(content) PROVE Turned
  BY <1>7, <1>8 DEF WriteFile
<1>9. CASE UNCHANGED kernelVars
  BY <1>7, <1>9 DEF kernelVars, SessionInv
<1>10. QED
  BY <1>3, <1>4, <1>5, <1>6, <1>8, <1>9 DEF SessionNext

LEMMA SessionInvHolds == SessionSpec => []SessionInv
<1>1. SessionInv /\ [SessionNext]_kernelVars => SessionInv'
  BY NextTurns DEF Turned
<1>2. QED
  BY <1>1, InitIsTrailed, PTL DEF SessionSpec

LEMMA TrailedIsItsJournal == SessionInv => SessionIsItsJournal
<1>1. SUFFICES ASSUME SessionInv PROVE SessionIsItsJournal
  OBVIOUS
<1>2. /\ Well(session) /\ session \in SessionSet
      /\ stepFile \in Readings \cup {0} /\ torn \in BOOLEAN /\ (~torn => Trailed(session))
  BY <1>1 DEF SessionInv, Well
<1>3. /\ session.journal \in Seq(Menu) /\ session.redo \in Seq(Menu)
      /\ Len(session.journal) \in Nat
  BY <1>2, SessionFields
<1>4. ToSet(session.journal) \subseteq Menu /\ ToSet(session.redo) \subseteq Menu
  BY <1>3, LenProperties, ElementOfSeq DEF ToSet
<1>5. ToSet(session.order) = Used(session)
  <2>1. DOMAIN session.order = 1..Len(session.order)
    BY <1>2, SessionFields
  <2>2. \A l : l \in ToSet(session.order) <=> l \in Used(session)
    BY <1>2, <2>1 DEF Well, Lists, ToSet
  <2>3. QED
    BY <2>2
<1>6. Len(session.undo) <= Len(session.journal)
  BY <1>2, <1>3 DEF Well
<1>7. SessionTypeOK
  BY <1>2, <1>4, <1>5, <1>6 DEF SessionTypeOK
<1>8. ASSUME ~torn PROVE Rest(session) = Replayed(session)
  BY <1>2, <1>8, TrailIsReplayed
<1>9. QED
  BY <1>7, <1>8 DEF SessionIsItsJournal, Rest

\* However a part was modelled, with commands done, undone, redone, refused
\* half-way through a pattern, with resets and changes of the file an import
\* reads: unless a panic has torn the session, replaying the journal builds
\* the same steps, body and undo history, for every menu of commands and
\* every number of placements (journal.rs: deterministic recording and
\* replay).
THEOREM SessionIsReplayed == SessionSpec => []SessionIsItsJournal
  BY SessionInvHolds, TrailedIsItsJournal, PTL

LEMMA TurnIsWalked ==
    ASSUME SessionInv, Turned
    PROVE  torn' \/ session' = New \/ Walked(session, session')
<1>1. CASE torn' \/ session' = New
  BY <1>1
<1>2. CASE Moved(session, session')
  <2>1. Well(session) /\ Well(session')
    BY DEF SessionInv, Turned
  <2>2. QED
    BY <1>2, <2>1, MovedIsWalked
<1>3. QED
  BY <1>1, <1>2 DEF Turned

\* Undo and redo walk one line of commands, a step at a time: a new command
\* cuts off what was undone and extends the line by itself, and a request
\* that is refused moves nothing (session.rs: undo_step, redo_step).
THEOREM LineIsWalked == SessionSpec => UndoAndRedoWalkALine
<1>1. ASSUME SessionInv, [SessionNext]_kernelVars
      PROVE  \/ torn'
             \/ session' = New
             \/ /\ Line(session') = Line(session)
                /\ Len(session'.journal) + 1 >= Len(session.journal)
                /\ Len(session.journal) + 1 >= Len(session'.journal)
                /\ session'.journal = session.journal => session' = session
             \/ \E c \in Menu : Line(session') = Append(session.journal, c)
  BY <1>1, NextTurns, TurnIsWalked DEF Walked
<1>2. QED
  BY <1>1, SessionInvHolds, PTL DEF SessionSpec, UndoAndRedoWalkALine
=============================================================================
