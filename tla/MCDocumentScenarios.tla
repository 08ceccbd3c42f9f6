------------------------ MODULE MCDocumentScenarios ------------------------
(***************************************************************************)
(* The scenarios ModelDocument is checked under, in one run: each is an    *)
(* instance of its own, with its callers and its parts, and the initial    *)
(* state picks one.                                                        *)
(***************************************************************************)
EXTENDS MCModelDocument

VARIABLE scenario  \* which callers the document has

\* Recipes and payloads are edited before, during and after partial rebuilds.
Rebuilding ==
  INSTANCE ModelDocument WITH
    Calls <- {"append", "recipe", "payload", "rebuild", "reopen"},
    Drafts <- SketchedPart, Values <- {1}, Limits <- {0}

\* Two bodies are suppressed, restored, measured anew and partly rebuilt.
Combining ==
  INSTANCE ModelDocument WITH
    Calls <- {"append", "suppress", "rebuild", "variable"},
    Drafts <- TwoBodies, Limits <- {0}, Revisions <- 1

\* The timeline grows, shrinks, is rolled back, and is undone.
Rolling ==
  INSTANCE ModelDocument WITH
    Calls <- {"append", "append dirty", "cursor", "remove", "suppress", "hide", "undo"},
    Drafts <- PlanePart, Values <- {1}, Limits <- {1}, Revisions <- 1

\* A variable is changed, refused, undone and redone between the plan and the
\* commit of a rebuild, under a changing undo limit.
Following ==
  INSTANCE ModelDocument WITH
    Calls <- {"append", "variable", "rebuild", "undo", "limit"},
    Drafts <- FollowingPart, MaxFeatures <- 2, MaxIds <- 2, Limits <- {1, 2}

ScenarioInit ==
  /\ scenario \in {"rebuilding", "combining", "rolling", "following"}
  /\ CASE scenario = "rebuilding" -> Rebuilding!Init
       [] scenario = "combining" -> Combining!Init
       [] scenario = "rolling" -> Rolling!Init
       [] scenario = "following" -> Following!Init

ScenarioNext ==
  /\ \/ scenario = "rebuilding" /\ Rebuilding!Next
     \/ scenario = "combining" /\ Combining!Next
     \/ scenario = "rolling" /\ Rolling!Next
     \/ scenario = "following" /\ Following!Next
  /\ UNCHANGED scenario

Scenarios == ScenarioInit /\ [][ScenarioNext]_<<vars, scenario>>
=============================================================================
