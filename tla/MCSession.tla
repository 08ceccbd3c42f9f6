----------------------------- MODULE MCSession -----------------------------
(***************************************************************************)
(* A small instance of KernelSession: a part with a boss and holes, two    *)
(* patterns of them, a hole the client labelled as a pattern would label   *)
(* its own, an imported body and a Boolean of two bodies.                  *)
(***************************************************************************)
EXTENDS KernelSession

MenuOfParts ==
    {Made("make", <<1>>, <<>>), Made("import", <<2>>, <<>>),
     Made("sketch", <<3>>, <<>>), Made("boss", <<4>>, <<<<3>>>>),
     Made("drill", <<5>>, <<>>), Made("join", <<6>>, <<<<1>>, <<2>>>>),
     Made("pattern", <<7>>, <<<<4>>>>), Made("pattern", <<7>>, <<<<5>>>>),
     Made("drill", <<7, 2>>, <<>>)}

Breakable == {<<7, 2>>}

\* Bound: commands on the line of undo and redo.  It leaves room for a boss
\* on its sketch, its pattern, and a step before and after.
MaxLine == 5

\* Bound: a torn session is only reset, since nothing else is said of it.
ShortNext ==
    /\ IF torn THEN Reset ELSE SessionNext
    /\ Len(Line(session')) <= MaxLine

ShortSpec == SessionInit /\ [][ShortNext]_kernelVars
=============================================================================
