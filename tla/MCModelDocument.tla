-------------------------- MODULE MCModelDocument --------------------------
(***************************************************************************)
(* Small instances of ModelDocument: what is appended, and which calls the *)
(* callers make.                                                           *)
(***************************************************************************)
EXTENDS ModelDocument

Draft(kind, body, tool, sketch, plane, reads) ==
  [kind |-> kind, body |-> body, tool |-> tool, sketch |-> sketch,
   plane |-> plane, recipe |-> 1, reads |-> reads]

\* A sketch, a body extruded from it and a later feature on that body.
SketchedPart == { Draft("sketch", 0, 0, 0, 0, FALSE),
                  Draft("extrude", 0, 0, 1, 0, FALSE),
                  Draft("add", 1, 0, 0, 0, FALSE) }

\* A sketch that follows the variable, and a body extruded from it whose
\* distance follows it too.
FollowingPart == { Draft("sketch", 0, 0, 0, 0, TRUE),
                   Draft("extrude", 0, 0, 1, 0, TRUE) }

\* Two bodies and a boolean of them.
TwoBodies == { Draft("extrude", 0, 0, 0, 0, TRUE),
               Draft("boolean", 1, 2, 0, 0, FALSE) }

\* Two bodies, a later feature on the first and a boolean that folds the
\* second into it.
FoldedPart == { Draft("extrude", 0, 0, 0, 0, FALSE),
                Draft("add", 1, 0, 0, 0, FALSE),
                Draft("boolean", 1, 2, 0, 0, FALSE) }

\* Planes, a sketch on the first and a body extruded from the sketch.
PlanePart == { Draft("plane", 0, 0, 0, 0, FALSE),
               Draft("sketch", 0, 0, 0, 1, FALSE),
               Draft("extrude", 0, 0, 1, 0, FALSE) }

NoRefusals == {}
=============================================================================
