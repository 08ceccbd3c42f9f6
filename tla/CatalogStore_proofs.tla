------------------------ MODULE CatalogStore_proofs ------------------------
(***************************************************************************)
(* The part library on disk, for any number of sessions, contents and      *)
(* revisions: no reference dangles, whatever is listed resolves, and the   *)
(* store implements PartLibrary.                                           *)
(***************************************************************************)
EXTENDS CatalogStore, WellFoundedInduction, TLAPS

\* An object file holds the package it is named after, a reference one package.
FilesAreWhole ==
    /\ \A p \in Packages : objects[p] \subseteq {p}
    /\ \A r \in Revisions : \A p, q \in references[r] : p = q

\* What is on disk when a session has come to a point of publish.
KeepsUp(s) ==
    LET p == package[s]
    IN  /\ pc[s] \in Publishing /\ file[s] = "reference" => objects[p] = {p}
        /\ pc[s] = "indexing" =>
              file[s] = "reference" /\ references[p.revision] = {p}
        /\ pc[s] = "linked" => Stored(s) = {p}
        /\ pc[s] = "comparing" => Stored(s) # Absent
        /\ pc[s] \in {"checking", "closed", "listing", "open"} => file[s] = "object"

IInv ==
    /\ StoreTypeOK
    /\ FilesAreWhole
    /\ \A s \in Sessions : KeepsUp(s)
    /\ ReferencesNeverDangle
    /\ ListedPartsResolve

LEMMA InitInv == StoreInit => IInv
  BY DEF StoreInit, IInv, StoreTypeOK, FilesAreWhole, KeepsUp, ReferencesNeverDangle,
         ListedPartsResolve, Absent, Publishing, Packages

-----------------------------------------------------------------------------
(* The steps of one session s, sorted by what they do to the disk and to    *)
(* the index.                                                               *)

\* Nothing but the session's own place and index may change.
Own(s) ==
    /\ UNCHANGED diskVars
    /\ \A t \in Sessions \ {s} :
          UNCHANGED <<index[t], pc[t], file[t], package[t], told[t]>>

LEMMA OwnStep ==
  ASSUME IInv, StoreTypeOK', NEW s \in Sessions, Own(s), KeepsUp(s)',
         \A p \in index'[s] : references[p.revision] = {p} /\ objects[p] = {p}
  PROVE  IInv'
<1>1. FilesAreWhole' /\ ReferencesNeverDangle'
  BY DEF IInv, Own, diskVars, FilesAreWhole, ReferencesNeverDangle
<1>2. \A t \in Sessions \ {s} : KeepsUp(t)'
  BY DEF IInv, Own, diskVars, KeepsUp, Stored
<1>3. ListedPartsResolve'
  BY DEF IInv, Own, diskVars, ListedPartsResolve
<1>4. QED
  BY <1>1, <1>2, <1>3 DEF IInv

\* The index of an open store lists nothing new.
LEMMA OwnPlace ==
  ASSUME IInv, StoreTypeOK', NEW s \in Sessions, Own(s), KeepsUp(s)',
         index'[s] \subseteq index[s]
  PROVE  IInv'
  BY OwnStep DEF IInv, ListedPartsResolve

LEMMA HasGreatest ==
  ASSUME NEW n \in Nat, NEW S \in SUBSET (0 .. n), S # {}
  PROVE  \E r \in S : \A q \in S : q <= r
<1> DEFINE below == {k \in Nat : \E r \in S : k + r = n}
<1>1. below \subseteq Nat /\ below # {}
  <2>1. PICK r \in S : r \in 0 .. n
    OBVIOUS
  <2>2. n - r \in Nat /\ (n - r) + r = n
    BY <2>1
  <2>3. QED
    BY <2>1, <2>2
<1>2. PICK b \in below : \A c \in below : <<c, b>> \notin OpToRel(<, Nat)
  <2> HIDE DEF below
  <2>1. QED
    BY <1>1, NatLessThanWellFounded, WFMin, Zenon
<1>3. PICK r \in S : b + r = n
  BY <1>2
<1>4. ASSUME NEW q \in S PROVE q <= r
  <2>1. n - q \in Nat /\ b \in Nat /\ (n - q) + q = n
    BY <1>1
  <2>2. n - q \in below
    BY <2>1
  <2>3. <<n - q, b>> \notin OpToRel(<, Nat)
    BY <1>2, <2>2
  <2>4. ~(n - q < b)
    BY <2>1, <2>3, Zenon DEF OpToRel
  <2>5. QED
    BY <1>3, <2>1, <2>4
<1>5. QED
  BY <1>4

LEMMA NextIsARevision ==
  ASSUME StoreTypeOK, NEW s \in Sessions, NextRevision(s) <= MaxRevision
  PROVE  NextRevision(s) \in Revisions
<1> DEFINE known == {0} \cup {p.revision : p \in index[s]}
<1>1. known \in SUBSET (0 .. MaxRevision) /\ known # {}
  BY MaxRevisionAssumption DEF StoreTypeOK, Packages, Revisions
<1>2. \E r \in known : \A q \in known : q <= r
  <2> HIDE DEF known
  <2>1. QED
    BY <1>1, HasGreatest, MaxRevisionAssumption
<1>3. Newest(s) \in known
  BY <1>2 DEF Newest
<1>4. QED
  BY <1>1, <1>3, MaxRevisionAssumption DEF NextRevision, Revisions

LEMMA Typed == StoreTypeOK /\ [StoreNext]_storeVars => StoreTypeOK'
<1> SUFFICES ASSUME StoreTypeOK, [StoreNext]_storeVars PROVE StoreTypeOK'
  OBVIOUS
<1> USE DEF StoreTypeOK, MoveTo
<1>1. CASE UNCHANGED storeVars
  BY <1>1 DEF storeVars, diskVars, sessionVars
<1>2. ASSUME NEW s \in Sessions, ListReferences(s) PROVE StoreTypeOK'
  BY <1>2 DEF ListReferences, diskVars
<1>3. ASSUME NEW s \in Sessions, RebuildIndex(s) PROVE StoreTypeOK'
  <2>1. Accepted(s) \in SUBSET Packages
    BY DEF Accepted
  <2>2. QED
    BY <1>3, <2>1 DEF RebuildIndex, diskVars
<1>4. ASSUME NEW s \in Sessions, NEW x \in Contents, Save(s, x) PROVE StoreTypeOK'
  <2>1. [revision |-> NextRevision(s), content |-> x] \in Packages
    BY <1>4, NextIsARevision DEF Save, Packages
  <2>2. QED
    BY <1>4, <2>1 DEF Save, diskVars, Publishing
<1>5. ASSUME NEW s \in Sessions, CheckReference(s) PROVE StoreTypeOK'
  BY <1>5 DEF CheckReference, Turn, GiveUp, FirstFile, FileOrder, diskVars, Publishing
<1>6. ASSUME NEW s \in Sessions, Look(s) \/ CompareWinner(s) \/ Finish(s) PROVE StoreTypeOK'
  BY <1>6 DEF Look, CompareWinner, Finish, Compare, NextFile, Turn, GiveUp, FileAfter,
              FirstFile, FileOrder, diskVars, Publishing
<1>7. ASSUME NEW s \in Sessions, Link(s) PROVE StoreTypeOK'
  <2>1. package[s] \in Packages /\ package[s].revision \in Revisions
    BY DEF Packages
  <2>2. QED
    BY <1>7, <2>1 DEF Link, diskVars, Publishing
<1>8. ASSUME NEW s \in Sessions, LoseTheRace(s) PROVE StoreTypeOK'
  BY <1>8 DEF LoseTheRace, diskVars, Publishing
<1>9. ASSUME NEW s \in Sessions, AddToIndex(s) PROVE StoreTypeOK'
  BY <1>9 DEF AddToIndex, GiveUp, diskVars
<1>10. ASSUME NEW s \in Sessions, FailOnDisk(s) PROVE StoreTypeOK'
  BY <1>10 DEF FailOnDisk, GiveUp, diskVars
<1>11. ASSUME NEW s \in Sessions, Crash(s) PROVE StoreTypeOK'
  BY <1>11 DEF Crash, diskVars
<1>12. QED
  BY <1>1, <1>2, <1>3, <1>4, <1>5, <1>6, <1>7, <1>8, <1>9, <1>10, <1>11
  DEF StoreNext, Publish

\* The part a session publishes.
LEMMA Publication ==
  ASSUME IInv, NEW s \in Sessions
  PROVE  package[s] \in Packages /\ package[s].revision \in Revisions
  BY DEF IInv, StoreTypeOK, Packages

\* Going on with the next file, one's own being there.
LEMMA NextFileStep ==
  ASSUME IInv, StoreTypeOK', NEW s \in Sessions, UNCHANGED <<diskVars, index>>,
         pc[s] \in Publishing, Stored(s) = {package[s]}, NextFile(s)
  PROVE  IInv'
<1>1. Own(s) /\ index'[s] = index[s]
  BY DEF IInv, StoreTypeOK, NextFile, Turn, MoveTo, Own
<1>2. KeepsUp(s)'
  BY DEF IInv, StoreTypeOK, NextFile, Turn, MoveTo, FileAfter, FirstFile, FileOrder, KeepsUp,
         Stored, diskVars, Publishing
<1>3. QED
  BY <1>1, <1>2, OwnPlace

LEMMA GiveUpStep ==
  ASSUME IInv, StoreTypeOK', NEW s \in Sessions, UNCHANGED <<diskVars, index>>,
         NEW verdict, GiveUp(s, verdict)
  PROVE  IInv'
<1>1. Own(s) /\ index'[s] = index[s]
  BY DEF IInv, StoreTypeOK, GiveUp, MoveTo, Own
<1>2. KeepsUp(s)'
  BY DEF IInv, StoreTypeOK, GiveUp, MoveTo, KeepsUp, Publishing
<1>3. QED
  BY <1>1, <1>2, OwnPlace

LEMMA CompareStep ==
  ASSUME IInv, StoreTypeOK', NEW s \in Sessions, UNCHANGED <<diskVars, index>>,
         pc[s] \in Publishing, Compare(s)
  PROVE  IInv'
  BY NextFileStep, GiveUpStep DEF Compare, Identical

\* A link creates a file where there was none, and everybody else's files stay.
LEMMA LinkStep ==
  ASSUME IInv, StoreTypeOK', NEW s \in Sessions, Link(s)
  PROVE  IInv'
<1> USE DEF Absent
<1> DEFINE p == package[s]
<1>1. /\ p \in Packages /\ p.revision \in Revisions
      /\ Stored(s) = Absent
      /\ pc[s] = "linking" /\ pc' = [pc EXCEPT ![s] = "linked"]
      /\ UNCHANGED <<index, found, file, package, told>>
  BY Publication DEF Link, LinkIsFree, MoveTo
<1>2. /\ \A q \in Packages : objects[q] # Absent => objects'[q] = objects[q]
      /\ \A r \in Revisions : references[r] # Absent => references'[r] = references[r]
      /\ Stored(s)' = {p}
  BY <1>1 DEF Link, Stored, IInv, StoreTypeOK
<1>3. \A r \in Revisions : references'[r] # references[r] =>
         file[s] = "reference" /\ r = p.revision /\ references'[r] = {p}
  BY <1>1 DEF Link, IInv, StoreTypeOK
<1>4. FilesAreWhole'
  <2>1. \A q \in Packages : objects'[q] \subseteq {q}
    BY <1>1 DEF Link, IInv, StoreTypeOK, FilesAreWhole
  <2>2. QED
    BY <2>1, <1>3 DEF IInv, FilesAreWhole
<1>5. ReferencesNeverDangle'
  <2>1. file[s] = "reference" => objects[p] = {p}
    BY <1>1 DEF IInv, KeepsUp, Publishing
  <2>2. \A r \in Revisions : references[r] \in SUBSET Packages
    BY DEF IInv, StoreTypeOK
  <2>3. QED
    BY <1>1, <1>2, <1>3, <2>1, <2>2 DEF IInv, ReferencesNeverDangle
<1>6. ListedPartsResolve'
  <2>1. \A t \in Sessions : \A q \in index[t] : q \in Packages /\ q.revision \in Revisions
    BY DEF IInv, StoreTypeOK, Packages
  <2>2. QED
    BY <1>1, <1>2, <2>1 DEF IInv, ListedPartsResolve
<1>7. ASSUME NEW t \in Sessions \ {s} PROVE KeepsUp(t)'
  <2>1. package[t] \in Packages /\ package[t].revision \in Revisions
    BY Publication
  <2>2. pc'[t] = pc[t] /\ package'[t] = package[t] /\ file'[t] = file[t]
    BY <1>1 DEF IInv, StoreTypeOK
  <2>3. Stored(t) # Absent => Stored(t)' = Stored(t)
    BY <1>2, <2>1, <2>2 DEF Stored
  <2>4. KeepsUp(t)
    BY DEF IInv
  <2>5. QED
    BY <1>2, <2>1, <2>2, <2>3, <2>4 DEF KeepsUp
<1>8. KeepsUp(s)'
  <2>1. pc'[s] = "linked" /\ file'[s] = file[s] /\ package'[s] = p
    BY <1>1 DEF IInv, StoreTypeOK
  <2>2. file[s] = "reference" => objects[p] = {p}
    BY <1>1 DEF IInv, KeepsUp, Publishing
  <2>3. QED
    BY <1>1, <1>2, <2>1, <2>2 DEF KeepsUp
<1>9. QED
  BY <1>4, <1>5, <1>6, <1>7, <1>8 DEF IInv

LEMMA Inductive == IInv /\ [StoreNext]_storeVars => IInv'
<1> SUFFICES ASSUME IInv, [StoreNext]_storeVars PROVE IInv'
  OBVIOUS
<1>0. StoreTypeOK /\ StoreTypeOK'
  BY Typed DEF IInv
<1>1. CASE UNCHANGED storeVars
  <2>1. FilesAreWhole' /\ ReferencesNeverDangle' /\ ListedPartsResolve'
    BY <1>1 DEF IInv, storeVars, diskVars, FilesAreWhole, ReferencesNeverDangle, ListedPartsResolve
  <2>2. \A s \in Sessions : KeepsUp(s)'
    BY <1>1 DEF IInv, storeVars, diskVars, sessionVars, KeepsUp, Stored
  <2>3. QED
    BY <1>0, <2>1, <2>2 DEF IInv
<1>2. ASSUME NEW s \in Sessions, ListReferences(s) PROVE IInv'
  <2>1. Own(s) /\ index'[s] = index[s]
    BY <1>0, <1>2 DEF ListReferences, MoveTo, StoreTypeOK, Own
  <2>2. KeepsUp(s)'
    BY <1>0, <1>2 DEF ListReferences, MoveTo, StoreTypeOK, IInv, KeepsUp, Publishing
  <2>3. QED
    BY <1>0, <2>1, <2>2, OwnPlace
<1>3. ASSUME NEW s \in Sessions, RebuildIndex(s) PROVE IInv'
  <2>1. Own(s)
    BY <1>0, <1>3 DEF RebuildIndex, MoveTo, StoreTypeOK, Own
  <2>2. KeepsUp(s)'
    BY <1>0, <1>3 DEF RebuildIndex, MoveTo, StoreTypeOK, IInv, KeepsUp, Publishing
  <2>3. \A p \in index'[s] : references[p.revision] = {p} /\ objects[p] = {p}
    BY <1>0, <1>3 DEF RebuildIndex, Accepted, StoreTypeOK, IInv, FilesAreWhole, Packages
  <2>4. QED
    BY <1>0, <2>1, <2>2, <2>3, OwnStep
<1>4. ASSUME NEW s \in Sessions, NEW x \in Contents, Save(s, x) PROVE IInv'
  <2>1. Own(s) /\ index'[s] = index[s]
    BY <1>0, <1>4 DEF Save, MoveTo, StoreTypeOK, Own
  <2>2. KeepsUp(s)'
    BY <1>0, <1>4 DEF Save, MoveTo, StoreTypeOK, IInv, KeepsUp, Publishing
  <2>3. QED
    BY <1>0, <2>1, <2>2, OwnPlace
<1>5. ASSUME NEW s \in Sessions, CheckReference(s) PROVE IInv'
  <2>1. CASE Turn(s, FirstFile)
    <3>1. Own(s) /\ index'[s] = index[s]
      BY <1>0, <1>5, <2>1 DEF CheckReference, Turn, MoveTo, StoreTypeOK, Own
    <3>2. KeepsUp(s)'
      BY <1>0, <1>5, <2>1 DEF Turn, MoveTo, FirstFile, FileOrder, StoreTypeOK, KeepsUp, Publishing
    <3>3. QED
      BY <1>0, <3>1, <3>2, OwnPlace
  <2>2. CASE GiveUp(s, "conflict")
    BY <1>0, <1>5, <2>2, GiveUpStep DEF CheckReference
  <2>3. QED
    BY <1>5, <2>1, <2>2 DEF CheckReference
<1>6. ASSUME NEW s \in Sessions, Look(s) PROVE IInv'
  <2>1. CASE Stored(s) # Absent
    BY <1>0, <1>6, <2>1, CompareStep DEF Look, Publishing
  <2>2. CASE Stored(s) = Absent
    <3>1. Own(s) /\ index'[s] = index[s]
      BY <1>0, <1>6, <2>2 DEF Look, MoveTo, StoreTypeOK, Own
    <3>2. KeepsUp(s)'
      BY <1>0, <1>6, <2>2 DEF Look, MoveTo, StoreTypeOK, IInv, KeepsUp, diskVars, Publishing
    <3>3. QED
      BY <1>0, <3>1, <3>2, OwnPlace
  <2>3. QED
    BY <2>1, <2>2
<1>7. ASSUME NEW s \in Sessions, Link(s) PROVE IInv'
  BY <1>0, <1>7, LinkStep
<1>8. ASSUME NEW s \in Sessions, LoseTheRace(s) PROVE IInv'
  <2>1. Own(s) /\ index'[s] = index[s]
    BY <1>0, <1>8 DEF LoseTheRace, MoveTo, StoreTypeOK, Own
  <2>2. KeepsUp(s)'
    BY <1>0, <1>8
    DEF LoseTheRace, LinkIsFree, MoveTo, StoreTypeOK, IInv, KeepsUp, Stored, diskVars, Publishing
  <2>3. QED
    BY <1>0, <2>1, <2>2, OwnPlace
<1>9. ASSUME NEW s \in Sessions, CompareWinner(s) PROVE IInv'
  BY <1>0, <1>9, CompareStep DEF CompareWinner, Publishing
<1>10. ASSUME NEW s \in Sessions, Finish(s) PROVE IInv'
  <2>1. Stored(s) = {package[s]}
    BY <1>10 DEF Finish, IInv, KeepsUp
  <2>2. QED
    BY <1>0, <1>10, <2>1, NextFileStep DEF Finish, Publishing
<1>11. ASSUME NEW s \in Sessions, AddToIndex(s) PROVE IInv'
  <2>1. Own(s)
    BY <1>0, <1>11 DEF AddToIndex, GiveUp, MoveTo, StoreTypeOK, Own
  <2>2. KeepsUp(s)'
    BY <1>0, <1>11 DEF AddToIndex, GiveUp, MoveTo, StoreTypeOK, KeepsUp, Publishing
  <2>3. \A p \in index'[s] : p \in index[s] \/ p = package[s]
    BY <1>0, <1>11 DEF AddToIndex, StoreTypeOK
  <2>4. /\ references[package[s].revision] = {package[s]}
        /\ objects[package[s]] = {package[s]}
    BY <1>11 DEF AddToIndex, IInv, KeepsUp, Publishing
  <2>5. \A p \in index'[s] : references[p.revision] = {p} /\ objects[p] = {p}
    BY <2>3, <2>4 DEF IInv, ListedPartsResolve
  <2>6. QED
    BY <1>0, <2>1, <2>2, <2>5, OwnStep
<1>12. ASSUME NEW s \in Sessions, FailOnDisk(s) PROVE IInv'
  BY <1>0, <1>12, GiveUpStep DEF FailOnDisk
<1>13. ASSUME NEW s \in Sessions, Crash(s) PROVE IInv'
  <2>1. Own(s) /\ index'[s] \subseteq index[s]
    BY <1>0, <1>13 DEF Crash, MoveTo, StoreTypeOK, Own
  <2>2. KeepsUp(s)'
    BY <1>0, <1>13 DEF Crash, MoveTo, StoreTypeOK, KeepsUp, Publishing
  <2>3. QED
    BY <1>0, <2>1, <2>2, OwnPlace
<1>14. QED
  BY <1>1, <1>2, <1>3, <1>4, <1>5, <1>6, <1>7, <1>8, <1>9, <1>10, <1>11, <1>12, <1>13
  DEF StoreNext, Publish

LEMMA Invariant == StoreSpec => []IInv
  BY InitInv, Inductive, PTL DEF StoreSpec

-----------------------------------------------------------------------------
(* The refinement.                                                         *)

\* A package is published if its own revision names it.
LEMMA PublishedUnderItsRevision ==
  ASSUME IInv, NEW q
  PROVE  q \in Published <=>
           q \in Packages /\ q.revision \in Revisions /\ q \in references[q.revision]
  BY DEF IInv, StoreTypeOK, ReferencesNeverDangle, Published

\* Answering a publication is Tell.
LEMMA TellStep ==
  ASSUME IInv, NEW s \in Sessions, pc[s] \in Publishing, UNCHANGED diskVars,
         NEW verdict \in {"saved", "conflict", "failed"}, GiveUp(s, verdict),
         verdict = "saved" => package[s] \in Published,
         verdict = "conflict" => package[s] \notin Published /\ Library!Taken(package[s])
  PROVE  Library!LibraryNext
<1>1. Published' = Published /\ package' = package
  BY DEF diskVars, Published, GiveUp
<1>2. Answers[s] = "waiting"
  BY DEF Answers
<1>3. Answers' = [Answers EXCEPT ![s] = verdict]
  BY DEF Answers, GiveUp, MoveTo, IInv, StoreTypeOK, Publishing
<1>4. Library!Tell(s, verdict)
  BY <1>1, <1>2, <1>3 DEF Library!Tell
<1>5. QED
  BY <1>4 DEF Library!LibraryNext, Library!Verdicts

\* A step inside publish is none of the library's business.
LEMMA StutterStep ==
  ASSUME IInv, NEW s \in Sessions, UNCHANGED <<references, package, told>>,
         NEW step, MoveTo(s, step), pc[s] \in Publishing <=> step \in Publishing
  PROVE  UNCHANGED Library!libraryVars
<1>1. Published' = Published
  BY DEF Published
<1>2. Answers' = Answers
  BY DEF Answers, MoveTo, IInv, StoreTypeOK
<1>3. QED
  BY <1>1, <1>2 DEF Library!libraryVars

LEMMA NextFileStutters ==
  ASSUME IInv, NEW s \in Sessions, pc[s] \in Publishing, UNCHANGED diskVars, NextFile(s)
  PROVE  UNCHANGED Library!libraryVars
  BY StutterStep DEF NextFile, Turn, diskVars, Publishing

\* Another package under the revision: this one is not in, and cannot come in.
LEMMA ConflictIsTrue ==
  ASSUME IInv, NEW s \in Sessions,
         NEW q \in references[package[s].revision], q # package[s]
  PROVE  package[s] \notin Published /\ Library!Taken(package[s])
<1>1. package[s] \in Packages /\ package[s].revision \in Revisions
  BY Publication
<1>2. q \in Published /\ q.revision = package[s].revision
  BY <1>1 DEF IInv, ReferencesNeverDangle, Published
<1>3. package[s] \notin references[package[s].revision]
  BY <1>1 DEF IInv, FilesAreWhole
<1>4. QED
  BY <1>2, <1>3, PublishedUnderItsRevision DEF Library!Taken

LEMMA CompareTells ==
  ASSUME IInv, NEW s \in Sessions, pc[s] \in Publishing, UNCHANGED diskVars,
         Stored(s) # Absent, Compare(s)
  PROVE  [Library!LibraryNext]_Library!libraryVars
<1>1. CASE Identical(Stored(s), package[s])
  BY <1>1, NextFileStutters DEF Compare
<1>2. CASE ~Identical(Stored(s), package[s]) /\ file[s] = "object"
  BY <1>2, TellStep DEF Compare
<1>3. CASE ~Identical(Stored(s), package[s]) /\ file[s] # "object"
  <2>1. PICK q \in references[package[s].revision] : q # package[s]
    BY <1>3, Publication DEF Identical, Stored, Absent, IInv, FilesAreWhole
  <2>2. QED
    BY <1>3, <2>1, ConflictIsTrue, TellStep DEF Compare
<1>4. QED
  BY <1>1, <1>2, <1>3

\* The link that creates the reference publishes the package.
LEMMA LinkPublishes ==
  ASSUME IInv, NEW s \in Sessions, Link(s)
  PROVE  [Library!LibraryNext]_Library!libraryVars
<1> DEFINE p == package[s]
<1>1. p \in Packages /\ p.revision \in Revisions
  BY Publication
<1>2. pc[s] = "linking" /\ MoveTo(s, "linked") /\ UNCHANGED <<package, told>>
  BY DEF Link
<1>3. Answers' = Answers /\ Answers[s] = "waiting"
  BY <1>2 DEF Answers, MoveTo, IInv, StoreTypeOK, Publishing
<1>4. CASE file[s] = "object"
  BY <1>2, <1>4, StutterStep DEF Link, Publishing
<1>5. CASE file[s] # "object"
  <2>1. references[p.revision] = {} /\ references' = [references EXCEPT ![p.revision] = {p}]
    BY <1>5 DEF Link, LinkIsFree, Stored, Absent
  <2>2. Published' = Published \cup {p}
    BY <1>1, <2>1 DEF Published, IInv, StoreTypeOK
  <2>3. ~Library!Taken(p)
    BY <1>1, <2>1, PublishedUnderItsRevision DEF Library!Taken
  <2>4. Library!Publish(s)
    BY <1>2, <1>3, <2>2, <2>3 DEF Library!Publish
  <2>5. QED
    BY <2>4 DEF Library!LibraryNext
<1>6. QED
  BY <1>4, <1>5

LEMMA InitImplements == StoreInit => Library!LibraryInit
<1> SUFFICES ASSUME StoreInit PROVE Library!LibraryInit
  OBVIOUS
<1>1. Published = {}
  BY DEF StoreInit, Published, Absent
<1>2. Answers = [s \in Sessions |-> "nothing"]
  BY DEF StoreInit, Answers, Publishing
<1>3. package \in [Sessions -> Packages]
  BY DEF StoreInit
<1>4. QED
  BY <1>1, <1>2, <1>3 DEF Library!LibraryInit

LEMMA NextImplements == IInv /\ [StoreNext]_storeVars => [Library!LibraryNext]_Library!libraryVars
<1> SUFFICES ASSUME IInv, [StoreNext]_storeVars PROVE [Library!LibraryNext]_Library!libraryVars
  OBVIOUS
<1>0. StoreTypeOK
  BY DEF IInv
<1>1. CASE UNCHANGED storeVars
  BY <1>1 DEF storeVars, diskVars, sessionVars, Library!libraryVars, Published, Answers
<1>2. ASSUME NEW s \in Sessions, ListReferences(s) \/ RebuildIndex(s)
      PROVE  UNCHANGED Library!libraryVars
  BY <1>2, StutterStep DEF ListReferences, RebuildIndex, diskVars, Publishing
<1>3. ASSUME NEW s \in Sessions, NEW x \in Contents, Save(s, x) PROVE Library!LibraryNext
  <2> DEFINE p == [revision |-> NextRevision(s), content |-> x]
  <2>1. p \in Packages
    BY <1>0, <1>3, NextIsARevision DEF Save, Packages
  <2>2. Answers[s] # "waiting"
    BY <1>0, <1>3 DEF Save, Answers, StoreTypeOK, Publishing
  <2>3. Answers' = [Answers EXCEPT ![s] = "waiting"]
    BY <1>0, <1>3 DEF Save, Answers, MoveTo, StoreTypeOK, Publishing
  <2>4. Published' = Published /\ package' = [package EXCEPT ![s] = p]
    BY <1>3 DEF Save, Published, diskVars
  <2>5. Library!Ask(s, p)
    BY <2>2, <2>3, <2>4 DEF Library!Ask
  <2>6. QED
    BY <2>1, <2>5 DEF Library!LibraryNext
<1>4. ASSUME NEW s \in Sessions, CheckReference(s)
      PROVE  [Library!LibraryNext]_Library!libraryVars
  <2>1. CASE references[package[s].revision] \subseteq {package[s]}
    BY <1>4, <2>1, StutterStep DEF CheckReference, Turn, diskVars, Publishing
  <2>2. CASE ~(references[package[s].revision] \subseteq {package[s]})
    BY <1>4, <2>2, ConflictIsTrue, TellStep DEF CheckReference, Publishing
  <2>3. QED
    BY <2>1, <2>2
<1>5. ASSUME NEW s \in Sessions, Look(s) PROVE [Library!LibraryNext]_Library!libraryVars
  <2>1. CASE Stored(s) # Absent
    BY <1>5, <2>1, CompareTells DEF Look, Publishing
  <2>2. CASE Stored(s) = Absent
    BY <1>5, <2>2, StutterStep DEF Look, diskVars, Publishing
  <2>3. QED
    BY <2>1, <2>2
<1>6. ASSUME NEW s \in Sessions, LoseTheRace(s) PROVE UNCHANGED Library!libraryVars
  BY <1>6, StutterStep DEF LoseTheRace, diskVars, Publishing
<1>7. ASSUME NEW s \in Sessions, CompareWinner(s)
      PROVE  [Library!LibraryNext]_Library!libraryVars
  BY <1>7, CompareTells DEF CompareWinner, IInv, KeepsUp, Publishing
<1>8. ASSUME NEW s \in Sessions, Finish(s) PROVE UNCHANGED Library!libraryVars
  BY <1>8, NextFileStutters DEF Finish, Publishing
<1>9. ASSUME NEW s \in Sessions, AddToIndex(s) PROVE Library!LibraryNext
  <2>1. package[s] \in Published
    BY <1>9, Publication, PublishedUnderItsRevision DEF AddToIndex, IInv, KeepsUp
  <2>2. QED
    BY <1>9, <2>1, TellStep DEF AddToIndex, Publishing
<1>10. ASSUME NEW s \in Sessions, FailOnDisk(s) PROVE Library!LibraryNext
  BY <1>10, TellStep DEF FailOnDisk
<1>11. ASSUME NEW s \in Sessions, Crash(s) PROVE Library!LibraryNext
  <2>1. Answers' = [Answers EXCEPT ![s] = "nothing"]
    BY <1>0, <1>11 DEF Crash, Answers, MoveTo, StoreTypeOK, Publishing
  <2>2. Published' = Published /\ package' = package
    BY <1>11 DEF Crash, Published, diskVars
  <2>3. Library!CutOff(s)
    BY <2>1, <2>2 DEF Library!CutOff
  <2>4. QED
    BY <2>3 DEF Library!LibraryNext
<1>12. QED
  BY <1>1, <1>2, <1>3, <1>4, <1>5, <1>6, <1>7, <1>8, <1>9, <1>10, <1>11, LinkPublishes
  DEF StoreNext, Publish

-----------------------------------------------------------------------------
(* The theorems.                                                           *)

\* Every variable has its type; a save never takes a revision that is none.
THEOREM TypeCorrect == StoreSpec => []StoreTypeOK
  BY Invariant, PTL DEF IInv

\* Whoever crashes between which two calls, the object a reference names is
\* there and is the package its name says.
THEOREM NoReferenceDangles == StoreSpec => []ReferencesNeverDangle
  BY Invariant, PTL DEF IInv

\* Every package a session's index lists is what its revision resolves to.
THEOREM WhatIsListedResolves == StoreSpec => []ListedPartsResolve
  BY Invariant, PTL DEF IInv

\* The files, the links and the indexes implement the write-once library: a
\* revision names one package for ever and nobody is told otherwise.
THEOREM StoreKeepsTheLibrary == StoreSpec => KeepsTheLibrary
<1>1. StoreSpec => [][Library!LibraryNext]_Library!libraryVars
  BY Invariant, NextImplements, PTL DEF StoreSpec
<1>2. QED
  BY <1>1, InitImplements, PTL DEF StoreSpec, KeepsTheLibrary, Library!LibrarySpec
=============================================================================
