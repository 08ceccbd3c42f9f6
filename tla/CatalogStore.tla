---------------------------- MODULE CatalogStore ----------------------------
(***************************************************************************)
(* The part library on disk (crates/catalog/src/store.rs) and the sessions *)
(* that save one part into it (apps/workbench/src/saved_parts.rs): every   *)
(* tab of every running workbench opens a store of its own on the same     *)
(* folder, with an index of its own in memory.                             *)
(*                                                                         *)
(* A package is published by an object file named after its content and a  *)
(* reference file named after its revision; both are created by linking a  *)
(* finished temporary file, which fails if the name is taken.  One step is *)
(* one call that other sessions can see or that a crash can separate from  *)
(* the next.  Temporary files are seen by nobody but the list of rejected  *)
(* entries, a diagnostic; they and the previews are left out.              *)
(***************************************************************************)
EXTENDS Naturals, FiniteSets

CONSTANTS
    Sessions,     \* the open tabs, in one process or several
    Contents,     \* what a saved part may contain
    MaxRevision   \* bound: revisions of the part

ASSUME ContentsAssumption == Contents # {}
ASSUME MaxRevisionAssumption == MaxRevision \in Nat \ {0}

Revisions == 1 .. MaxRevision
Packages == [revision : Revisions, content : Contents]

VARIABLES
    objects,     \* what the object file of each package holds
    references,  \* what the reference file of each revision names
    index,       \* the packages each session's index lists
    found,       \* the revisions a session that opens the store has listed
    pc,          \* where each session is
    file,        \* which of its two files a publication is creating
    package,     \* the package a session publishes, or published last
    told         \* what it was told about it

diskVars == <<objects, references>>
sessionVars == <<pc, file, package, told>>
storeVars == <<diskVars, index, found, sessionVars>>

\* The points inside publish.
Publishing == {"checking", "looking", "linking", "comparing", "linked", "indexing"}

\* A file that holds p is {p}.
Absent == {}

StoreTypeOK ==
    /\ objects \in [Packages -> SUBSET Packages]
    /\ references \in [Revisions -> SUBSET Packages]
    /\ index \in [Sessions -> SUBSET Packages]
    /\ found \in [Sessions -> SUBSET Revisions]
    /\ pc \in [Sessions -> Publishing \cup {"closed", "listing", "open"}]
    /\ file \in [Sessions -> {"object", "reference"}]
    /\ package \in [Sessions -> Packages]
    /\ told \in [Sessions -> {"nothing", "saved", "conflict", "failed"}]

StoreInit ==
    /\ objects = [p \in Packages |-> Absent]
    /\ references = [r \in Revisions |-> Absent]
    /\ index = [s \in Sessions |-> {}]
    /\ found = [s \in Sessions |-> {}]
    /\ pc = [s \in Sessions |-> "closed"]
    /\ file = [s \in Sessions |-> "object"]
    /\ \E p \in Packages : package = [s \in Sessions |-> p]
    /\ told = [s \in Sessions |-> "nothing"]

MoveTo(s, step) == pc' = [pc EXCEPT ![s] = step]

-----------------------------------------------------------------------------
(* Opening a store: the references are listed, and then read one by one.   *)

ListReferences(s) ==
    /\ pc[s] = "closed"
    /\ found' = [found EXCEPT ![s] = {r \in Revisions : references[r] # Absent}]
    /\ MoveTo(s, "listing")
    /\ UNCHANGED <<diskVars, index, file, package, told>>

\* A reference is accepted if its object is there and is the package it names.
Accepted(s) ==
    {p \in Packages : /\ p.revision \in found[s]
                      /\ p \in references[p.revision]
                      /\ objects[p] = {p}}

RebuildIndex(s) ==
    /\ pc[s] = "listing"
    /\ index' = [index EXCEPT ![s] = Accepted(s)]
    /\ found' = [found EXCEPT ![s] = {}]
    /\ MoveTo(s, "open")
    /\ UNCHANGED <<diskVars, file, package, told>>

-----------------------------------------------------------------------------
(* Saving the part: the next revision, then publish.                       *)

Newest(s) ==
    LET known == {0} \cup {p.revision : p \in index[s]}
    IN  CHOOSE r \in known : \A q \in known : q <= r

\* One past the newest revision the session's own index lists.
NextRevision(s) == Newest(s) + 1

Save(s, x) ==
    /\ pc[s] = "open"
    /\ NextRevision(s) <= MaxRevision
    /\ package' = [package EXCEPT ![s] = [revision |-> NextRevision(s), content |-> x]]
    /\ told' = [told EXCEPT ![s] = "nothing"]
    /\ MoveTo(s, "checking")
    /\ UNCHANGED <<diskVars, index, found, file>>

\* publish returns without an entry in the index.
GiveUp(s, verdict) ==
    /\ told' = [told EXCEPT ![s] = verdict]
    /\ file' = [file EXCEPT ![s] = "object"]
    /\ MoveTo(s, "open")
    /\ UNCHANGED package

Turn(s, f) ==
    /\ file' = [file EXCEPT ![s] = f]
    /\ MoveTo(s, "looking")
    /\ UNCHANGED <<package, told>>

\* Mutant: the reference is created before the object it names.
ReferenceFirst == <<"reference", "object">>

\* The order of the two files.
FileOrder == <<"object", "reference">>

FirstFile == FileOrder[1]
FileAfter(f) == IF f = FirstFile THEN FileOrder[2] ELSE "done"

\* A revision that already names another package is refused before any file
\* is written.
CheckReference(s) ==
    /\ pc[s] = "checking"
    /\ IF references[package[s].revision] \subseteq {package[s]}
       THEN Turn(s, FirstFile)
       ELSE GiveUp(s, "conflict")
    /\ UNCHANGED <<diskVars, index, found>>

-----------------------------------------------------------------------------
(* atomic_create_or_compare, once for each file.                           *)

Stored(s) == IF file[s] = "object" THEN objects[package[s]]
           ELSE references[package[s].revision]

NextFile(s) ==
    IF FileAfter(file[s]) = "done"
    THEN MoveTo(s, "indexing") /\ UNCHANGED <<file, package, told>>
    ELSE Turn(s, FileAfter(file[s]))

\* Mutant: a file that is there is taken for one's own.
SameName(held, p) == held # Absent

Identical(held, p) == held = {p}

\* Another object under the package's own digest is a damaged library; another
\* package under its revision is a conflict.
Compare(s) ==
    IF Identical(Stored(s), package[s]) THEN NextFile(s)
    ELSE GiveUp(s, IF file[s] = "object" THEN "failed" ELSE "conflict")

\* The file is there already, or a temporary one is written beside it.
Look(s) ==
    /\ pc[s] = "looking"
    /\ IF Stored(s) # Absent THEN Compare(s)
       ELSE MoveTo(s, "linking") /\ UNCHANGED <<file, package, told>>
    /\ UNCHANGED <<diskVars, index, found>>

\* Mutant: the temporary file is renamed over whatever is there.
RenameIsFree(held) == TRUE

\* A hard link is refused if the name is taken.
LinkIsFree(held) == held = Absent

Link(s) ==
    LET p == package[s]
    IN  /\ pc[s] = "linking"
        /\ LinkIsFree(Stored(s))
        /\ IF file[s] = "object"
           THEN objects' = [objects EXCEPT ![p] = {p}] /\ UNCHANGED references
           ELSE references' = [references EXCEPT ![p.revision] = {p}] /\ UNCHANGED objects
        /\ MoveTo(s, "linked")
        /\ UNCHANGED <<index, found, file, package, told>>

LoseTheRace(s) ==
    /\ pc[s] = "linking"
    /\ ~LinkIsFree(Stored(s))
    /\ MoveTo(s, "comparing")
    /\ UNCHANGED <<diskVars, index, found, file, package, told>>

CompareWinner(s) ==
    /\ pc[s] = "comparing"
    /\ Compare(s)
    /\ UNCHANGED <<diskVars, index, found>>

\* The temporary file is removed and the directory synced.
Finish(s) ==
    /\ pc[s] = "linked"
    /\ NextFile(s)
    /\ UNCHANGED <<diskVars, index, found>>

\* The package replaces whatever the index lists under its revision.  The save
\* then reads the preview kept for it; if that fails the save is reported as
\* failed, although the part is in.
AddToIndex(s) ==
    /\ pc[s] = "indexing"
    /\ index' = [index EXCEPT ![s] =
                   {q \in @ : q.revision # package[s].revision} \cup {package[s]}]
    /\ \E verdict \in {"saved", "failed"} : GiveUp(s, verdict)
    /\ UNCHANGED <<diskVars, found>>

-----------------------------------------------------------------------------
(* What may go wrong.                                                      *)

\* A call on the file system fails: publish returns its error, whatever has
\* been linked by then.
FailOnDisk(s) ==
    /\ pc[s] \in Publishing \ {"indexing"}
    /\ GiveUp(s, "failed")
    /\ UNCHANGED <<diskVars, index, found>>

\* The process ends, at any point; a tab that is closed ends the same way.
Crash(s) ==
    /\ pc[s] # "closed"
    /\ MoveTo(s, "closed")
    /\ index' = [index EXCEPT ![s] = {}]
    /\ found' = [found EXCEPT ![s] = {}]
    /\ told' = [told EXCEPT ![s] = "nothing"]
    /\ file' = [file EXCEPT ![s] = "object"]
    /\ UNCHANGED <<diskVars, package>>

Publish(s) ==
    \/ CheckReference(s) \/ Look(s) \/ Link(s) \/ LoseTheRace(s)
    \/ CompareWinner(s) \/ Finish(s) \/ AddToIndex(s)

StoreNext ==
    \E s \in Sessions :
        \/ ListReferences(s) \/ RebuildIndex(s)
        \/ \E x \in Contents : Save(s, x)
        \/ Publish(s)
        \/ FailOnDisk(s) \/ Crash(s)

StoreSpec == StoreInit /\ [][StoreNext]_storeVars

-----------------------------------------------------------------------------
(* Properties.                                                             *)

\* "A crash can at worst leave an unreachable object or temporary file":
\* whoever crashes between which two calls, and whichever call fails, the
\* object a reference names is there and is what its name says.
ReferencesNeverDangle ==
    \A r \in Revisions : \A p \in references[r] :
        p.revision = r /\ objects[p] = {p}

\* What a session's library window offers can be placed: every package its
\* index lists is still what its revision resolves to, whatever the other
\* sessions have published since.
ListedPartsResolve ==
    \A s \in Sessions : \A p \in index[s] :
        references[p.revision] = {p} /\ objects[p] = {p}

\* What everybody may know of the library: the packages named, and the answers.
Published == UNION {references[r] : r \in Revisions}
Answers == [s \in Sessions |-> IF pc[s] \in Publishing THEN "waiting" ELSE told[s]]

Library == INSTANCE PartLibrary WITH
    Parts <- Packages, published <- Published, part <- package, told <- Answers

\* A revision names one package for ever, and every session is told the truth
\* about its own: saved only if it is the one, conflict only if another one is.
KeepsTheLibrary == Library!LibrarySpec

\* The revision a save takes is "one major version past the newest the
\* library already has" (saved_parts.rs, next_revision), so that saving under
\* a known name "adds the next major version of that part" (ADR 0053).  (A
\* save that failed on the disk may have left its revision behind.)
SavingAddsAVersion ==
    [][\A s \in Sessions :
          pc[s] = "open" /\ told[s] # "failed" /\ pc'[s] = "checking"
              => references[package'[s].revision] = Absent]_storeVars
=============================================================================
