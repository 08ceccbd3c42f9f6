---------------------------- MODULE EditHistory ----------------------------
(***************************************************************************)
(* What the undo and redo journals of a document promise: the document is  *)
(* a place on a line of states.  An edit extends the line and cuts off     *)
(* what lay ahead, an amendment replaces the present only, undo and redo   *)
(* walk along the line, and a limit makes the line forget states at its    *)
(* far ends and never one in between.                                      *)
(***************************************************************************)
EXTENDS Naturals, Sequences

VARIABLES
  past,     \* the states behind the present, the oldest first
  present,
  future    \* the states ahead of the present, the nearest first

line == <<past, present, future>>

Latest(s, n) == SubSeq(s, Len(s) - n + 1, Len(s))
Nearest(s, n) == SubSeq(s, 1, n)

\* t is s without some of its oldest states.
ForgetsOldest(s, t) == \E n \in 0..Len(s) : t = Latest(s, n)

\* t is s without some of its farthest states.
ForgetsFarthest(s, t) == \E n \in 0..Len(s) : t = Nearest(s, n)

Init == past = << >> /\ future = << >>

Edit == ForgetsOldest(Append(past, present), past') /\ future' = << >>

Amend == UNCHANGED <<past, future>>

Undo ==
  /\ past # << >>
  /\ present' = past[Len(past)]
  /\ past' = SubSeq(past, 1, Len(past) - 1)
  /\ ForgetsFarthest(<<present>> \o future, future')

Redo ==
  /\ future # << >>
  /\ present' = future[1]
  /\ future' = SubSeq(future, 2, Len(future))
  /\ ForgetsOldest(Append(past, present), past')

\* The last edit is taken back and nothing can redo it.
Abandon ==
  /\ past # << >>
  /\ present' = past[Len(past)]
  /\ past' = SubSeq(past, 1, Len(past) - 1)
  /\ UNCHANGED future

Forget ==
  /\ ForgetsOldest(past, past') /\ ForgetsFarthest(future, future')
  /\ UNCHANGED present

Next == Edit \/ Amend \/ Undo \/ Redo \/ Abandon \/ Forget

Spec == Init /\ [][Next]_line
=============================================================================
