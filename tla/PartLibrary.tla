---------------------------- MODULE PartLibrary ----------------------------
(***************************************************************************)
(* What the part library promises those who save parts into it, with no    *)
(* files, no links and no index: a set of parts that only grows, holds one *)
(* part per revision, and tells everybody the truth about it.  A session   *)
(* that is cut off learns nothing; its part may or may not be in.          *)
(* CatalogStore is shown to implement it (CatalogStore!Library).           *)
(***************************************************************************)

CONSTANTS Sessions, Parts   \* a part is a record with a field `revision`

VARIABLES
    published,  \* the parts of the library
    part,       \* the part each session saves, or saved last
    told        \* what it has been told about it

libraryVars == <<published, part, told>>

Verdicts == {"saved", "conflict", "failed"}

LibraryInit ==
    /\ published = {}
    /\ part \in [Sessions -> Parts]
    /\ told = [s \in Sessions |-> "nothing"]

Taken(p) == \E q \in published : q.revision = p.revision

Ask(s, p) ==
    /\ told[s] # "waiting"
    /\ part' = [part EXCEPT ![s] = p]
    /\ told' = [told EXCEPT ![s] = "waiting"]
    /\ UNCHANGED published

Publish(s) ==
    /\ told[s] = "waiting"
    /\ ~Taken(part[s])
    /\ published' = published \cup {part[s]}
    /\ UNCHANGED <<part, told>>

\* A failure may be reported of a part that is in; nothing else is uncertain.
Tell(s, verdict) ==
    /\ told[s] = "waiting"
    /\ verdict = "saved" => part[s] \in published
    /\ verdict = "conflict" => part[s] \notin published /\ Taken(part[s])
    /\ told' = [told EXCEPT ![s] = verdict]
    /\ UNCHANGED <<published, part>>

CutOff(s) ==
    /\ told' = [told EXCEPT ![s] = "nothing"]
    /\ UNCHANGED <<published, part>>

LibraryNext ==
    \E s \in Sessions :
        \/ \E p \in Parts : Ask(s, p)
        \/ Publish(s)
        \/ \E verdict \in Verdicts : Tell(s, verdict)
        \/ CutOff(s)

LibrarySpec == LibraryInit /\ [][LibraryNext]_libraryVars
=============================================================================
