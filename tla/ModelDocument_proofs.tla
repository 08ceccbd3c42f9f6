------------------------ MODULE ModelDocument_proofs ------------------------
(***************************************************************************)
(* Proofs about ModelDocument, for any drafts, recipes and values, any     *)
(* undo limits and any bounds.  First the journals, which treat a document *)
(* state as an opaque value; then the identities and cursors of every      *)
(* state a journal or a rebuild plan can bring back; then what the         *)
(* features of such a state say: their types, the order of sketches and    *)
(* their consumers, and that a clean feature carries the result of what    *)
(* the state holds; last that the sketches follow the variable.            *)
(***************************************************************************)
EXTENDS ModelDocument, PrefixTheorems, SequenceTheorems, FiniteSetTheorems, TLAPS

-----------------------------------------------------------------------------
(* The journal as a sequence of states.                                    *)

Elements(s) == { s[i] : i \in DOMAIN s }
IsSequence(s) == s \in Seq(Elements(s))

LEMMA SequencesAreSequences ==
    ASSUME NEW S, NEW s \in Seq(S)
    PROVE  IsSequence(s)
BY SeqOfRange DEF IsSequence, Elements, Range

\* A bounded push in the order the redo journal is read by EditHistory.
Reversed(s) == [i \in DOMAIN s |-> s[Len(s) + 1 - i]]

LEMMA ReversedIsSequence ==
    ASSUME NEW S, NEW s \in Seq(S)
    PROVE  /\ Reversed(s) \in Seq(S)
           /\ Len(Reversed(s)) = Len(s)
           /\ \A i \in 1 .. Len(s) : Reversed(s)[i] = s[Len(s) + 1 - i]
<1>1. \A i \in 1 .. Len(s) : s[Len(s) + 1 - i] \in S
  BY ElementOfSeq
<1>2. Reversed(s) = [i \in 1 .. Len(s) |-> s[Len(s) + 1 - i]]
  BY DEF Reversed
<1>3. QED
  BY <1>1, <1>2, IsASeq, LenProperties

LEMMA TrimIsASuffix ==
    ASSUME NEW S, NEW s \in Seq(S), NEW n \in Nat
    PROVE  /\ TrimFront(s, n) \in Seq(S)
           /\ Len(TrimFront(s, n)) <= n
           /\ Line!ForgetsOldest(s, TrimFront(s, n))
<1>1. Len(s) \in Nat
  BY LenProperties
<1>2. CASE Len(s) <= n
  <2>1. TrimFront(s, n) = s
    BY <1>2 DEF TrimFront
  <2>2. s = Line!Latest(s, Len(s))
    BY <1>1, SubSeqFull DEF Line!Latest
  <2>3. QED
    BY <1>1, <1>2, <2>1, <2>2 DEF Line!ForgetsOldest
<1>3. CASE ~(Len(s) <= n)
  <2>1. TrimFront(s, n) = SubSeq(s, Len(s) - n + 1, Len(s))
    BY <1>3 DEF TrimFront
  <2>2. /\ SubSeq(s, Len(s) - n + 1, Len(s)) \in Seq(S)
        /\ Len(SubSeq(s, Len(s) - n + 1, Len(s))) = n
    BY <1>1, <1>3, SubSeqProperties
  <2>3. TrimFront(s, n) = Line!Latest(s, n)
    BY <2>1 DEF Line!Latest
  <2>4. n \in 0 .. Len(s)
    BY <1>1, <1>3
  <2>5. QED
    BY <2>1, <2>2, <2>3, <2>4 DEF Line!ForgetsOldest
<1>4. QED
  BY <1>2, <1>3

LEMMA TrimReversedIsAPrefix ==
    ASSUME NEW S, NEW s \in Seq(S), NEW n \in Nat
    PROVE  Line!ForgetsFarthest(Reversed(s), Reversed(TrimFront(s, n)))
<1>1. Len(s) \in Nat /\ Reversed(s) \in Seq(S) /\ Len(Reversed(s)) = Len(s)
  BY LenProperties, ReversedIsSequence
<1>2. CASE Len(s) <= n
  <2>1. TrimFront(s, n) = s
    BY <1>2 DEF TrimFront
  <2>2. Reversed(s) = Line!Nearest(Reversed(s), Len(s))
    BY <1>1, SubSeqFull DEF Line!Nearest
  <2>3. QED
    BY <1>1, <2>1, <2>2 DEF Line!ForgetsFarthest
<1>3. CASE ~(Len(s) <= n)
  <2>. DEFINE t == SubSeq(s, Len(s) - n + 1, Len(s))
              p == SubSeq(Reversed(s), 1, n)
  <2>1. TrimFront(s, n) = t
    BY <1>3 DEF TrimFront
  <2>2. /\ t \in Seq(S) /\ Len(t) = n
        /\ \A i \in 1 .. n : t[i] = s[Len(s) - n + i]
    BY <1>1, <1>3, SubSeqProperties
  <2>3. /\ p \in Seq(S) /\ Len(p) = n
        /\ \A i \in 1 .. n : p[i] = Reversed(s)[i]
    BY <1>1, <1>3, SubSeqProperties
  <2>. HIDE DEF t, p
  <2>4. /\ Reversed(t) \in Seq(S) /\ Len(Reversed(t)) = n
        /\ \A i \in 1 .. n : Reversed(t)[i] = t[n + 1 - i]
    BY <2>2, ReversedIsSequence
  <2>5. ASSUME NEW i \in 1 .. n
        PROVE  Reversed(t)[i] = p[i]
    <3>1. Reversed(t)[i] = s[Len(s) - n + (n + 1 - i)]
      <4>1. n + 1 - i \in 1 .. n
        OBVIOUS
      <4>2. QED
        BY <2>2, <2>4, <4>1
    <3>2. Reversed(s)[i] = s[Len(s) + 1 - i]
      BY <1>1, <1>3, ReversedIsSequence
    <3>3. Len(s) - n + (n + 1 - i) = Len(s) + 1 - i
      BY <1>1
    <3>4. QED
      BY <2>3, <3>1, <3>2, <3>3
  <2>6. Reversed(t) = p
    BY <2>3, <2>4, <2>5, SeqEqual
  <2>7. n \in 0 .. Len(Reversed(s)) /\ p = Line!Nearest(Reversed(s), n)
    BY <1>1, <1>3 DEF p, Line!Nearest
  <2>8. QED
    BY <2>1, <2>6, <2>7 DEF t, Line!ForgetsFarthest
<1>4. QED
  BY <1>2, <1>3

LEMMA ReversedAppend ==
    ASSUME NEW S, NEW s \in Seq(S), NEW x \in S
    PROVE  Reversed(Append(s, x)) = <<x>> \o Reversed(s)
<1>. DEFINE left == Reversed(Append(s, x))
            right == <<x>> \o Reversed(s)
<1>1. /\ Len(s) \in Nat /\ Append(s, x) \in Seq(S) /\ Len(Append(s, x)) = Len(s) + 1
      /\ \A i \in 1 .. Len(s) : Append(s, x)[i] = s[i]
      /\ Append(s, x)[Len(s) + 1] = x
  BY AppendProperties, LenProperties
<1>2. /\ left \in Seq(S) /\ Len(left) = Len(s) + 1
      /\ \A i \in 1 .. Len(s) + 1 : left[i] = Append(s, x)[Len(s) + 2 - i]
  <2>. DEFINE a == Append(s, x)
  <2>1. a \in Seq(S) /\ Len(a) = Len(s) + 1
    BY <1>1
  <2>. HIDE DEF a
  <2>2. /\ Reversed(a) \in Seq(S) /\ Len(Reversed(a)) = Len(a)
        /\ \A i \in 1 .. Len(a) : Reversed(a)[i] = a[Len(a) + 1 - i]
    BY <2>1, ReversedIsSequence
  <2>3. \A i \in 1 .. Len(s) + 1 : Reversed(a)[i] = a[Len(s) + 2 - i]
    <3>1. \A i \in 1 .. Len(s) + 1 : Len(s) + 1 + 1 - i = Len(s) + 2 - i
      BY <1>1
    <3>2. QED
      BY <1>1, <2>1, <2>2, <3>1
  <2>4. QED
    BY <1>1, <2>1, <2>2, <2>3 DEF a
<1>3. /\ Reversed(s) \in Seq(S) /\ Len(Reversed(s)) = Len(s)
      /\ \A i \in 1 .. Len(s) : Reversed(s)[i] = s[Len(s) + 1 - i]
  BY ReversedIsSequence
<1>4. /\ right \in Seq(S) /\ Len(right) = Len(s) + 1
      /\ right[1] = x
      /\ \A i \in 2 .. Len(s) + 1 : right[i] = Reversed(s)[i - 1]
  BY <1>1, <1>3
<1>5. ASSUME NEW i \in 1 .. Len(s) + 1
      PROVE  left[i] = right[i]
  <2>1. CASE i = 1
    BY <1>1, <1>2, <1>4, <2>1
  <2>2. CASE i # 1
    <3>1. Len(s) + 2 - i \in 1 .. Len(s) /\ i \in 2 .. Len(s) + 1 /\ i - 1 \in 1 .. Len(s)
      BY <1>1, <2>2
    <3>2. left[i] = s[Len(s) + 2 - i]
      BY <1>1, <1>2, <3>1
    <3>3. right[i] = s[Len(s) + 1 - (i - 1)]
      BY <1>3, <1>4, <3>1
    <3>4. QED
      BY <1>1, <3>2, <3>3, Len(s) + 2 - i = Len(s) + 1 - (i - 1)
  <2>3. QED
    BY <2>1, <2>2
<1>6. QED
  BY <1>2, <1>4, <1>5, SeqEqual

LEMMA FrontLength ==
    \A n \in Nat : n > 0 => (IF 1 <= n - 1 THEN n - 1 - 1 + 1 ELSE 0) = n - 1
OBVIOUS

LEMMA ReversedFront ==
    ASSUME NEW S, NEW s \in Seq(S), s # << >>
    PROVE  /\ Front(s) \in Seq(S) /\ Len(Front(s)) = Len(s) - 1
           /\ Reversed(s) # << >>
           /\ Reversed(s)[1] = Last(s)
           /\ Reversed(Front(s)) = SubSeq(Reversed(s), 2, Len(Reversed(s)))
<1>. DEFINE rest == SubSeq(Reversed(s), 2, Len(Reversed(s)))
            f == Front(s)
<1>1. Len(s) \in Nat /\ Len(s) > 0
  BY LenProperties, EmptySeq
<1>2. /\ Reversed(s) \in Seq(S) /\ Len(Reversed(s)) = Len(s)
      /\ \A i \in 1 .. Len(s) : Reversed(s)[i] = s[Len(s) + 1 - i]
  BY ReversedIsSequence
<1>3. /\ f \in Seq(S) /\ Len(f) = Len(s) - 1
      /\ \A i \in 1 .. Len(s) - 1 : f[i] = s[i]
  <2>1. \A i \in 1 .. Len(s) - 1 : s[i] \in S
    BY <1>1, ElementOfSeq
  <2>2. f = SubSeq(s, 1, Len(s) - 1)
    BY DEF Front
  <2>. HIDE DEF f
  <2>3. /\ f \in Seq(S)
        /\ Len(f) = IF 1 <= Len(s) - 1 THEN Len(s) - 1 - 1 + 1 ELSE 0
        /\ \A i \in 1 .. Len(s) - 1 - 1 + 1 : f[i] = s[1 + i - 1]
    <3>1. Len(s) - 1 \in Int /\ 1 \in Int
      BY <1>1
    <3>2. /\ SubSeq(s, 1, Len(s) - 1) \in Seq(S)
          /\ Len(SubSeq(s, 1, Len(s) - 1)) = IF 1 <= Len(s) - 1 THEN Len(s) - 1 - 1 + 1 ELSE 0
          /\ \A i \in 1 .. Len(s) - 1 - 1 + 1 : SubSeq(s, 1, Len(s) - 1)[i] = s[1 + i - 1]
      BY <2>1, <3>1, SubSeqProperties
    <3>3. QED
      BY ONLY <2>2, <3>2
  <2>4. Len(f) = Len(s) - 1
    BY <1>1, <2>3, FrontLength, Zenon
  <2>5. ASSUME NEW i \in 1 .. Len(s) - 1 PROVE f[i] = s[i]
    <3>1. i \in 1 .. Len(s) - 1 - 1 + 1 /\ 1 + i - 1 = i
      BY <1>1
    <3>2. QED
      BY <2>3, <3>1
  <2>6. QED
    BY <2>3, <2>4, <2>5
<1>4. /\ rest \in Seq(S) /\ Len(rest) = Len(s) - 1
      /\ \A i \in 1 .. Len(s) - 1 : rest[i] = Reversed(s)[i + 1]
  BY <1>1, <1>2, SubSeqProperties
<1>5. /\ Reversed(f) \in Seq(S) /\ Len(Reversed(f)) = Len(s) - 1
      /\ \A i \in 1 .. Len(s) - 1 : Reversed(f)[i] = f[Len(s) - i]
  BY <1>1, <1>3, ReversedIsSequence
<1>6. ASSUME NEW i \in 1 .. Len(s) - 1
      PROVE  Reversed(f)[i] = rest[i]
  <2>1. Len(s) - i \in 1 .. Len(s) - 1 /\ i + 1 \in 1 .. Len(s)
    BY <1>1
  <2>2. Reversed(f)[i] = s[Len(s) - i]
    BY <1>3, <1>5, <2>1
  <2>3. rest[i] = s[Len(s) + 1 - (i + 1)]
    BY <1>2, <1>4, <2>1
  <2>4. QED
    BY <1>1, <2>2, <2>3, Len(s) - i = Len(s) + 1 - (i + 1)
<1>7. Reversed(f) = rest
  BY <1>4, <1>5, <1>6, SeqEqual
<1>8. Reversed(s)[1] = Last(s)
  BY <1>1, <1>2 DEF Last
<1>9. QED
  BY <1>1, <1>2, <1>3, <1>7, <1>8, EmptySeq

-----------------------------------------------------------------------------
(* What the operations do to the journals.                                 *)

JournalsOK ==
  /\ IsSequence(undo) /\ IsSequence(redo)
  /\ limit \in Limits
  /\ Len(undo) <= limit /\ Len(redo) <= limit

EditStep == undo' = PushBounded(undo, doc) /\ redo' = << >> /\ UNCHANGED limit
AmendStep == UNCHANGED <<undo, redo, limit>>

LEMMA NextSteps ==
    ASSUME Next
    PROVE  \/ EditStep \/ AmendStep
           \/ Undo \/ Redo \/ AbandonLastEdit
           \/ \E l \in Limits : SetUndoLimit(l)
           \/ Reopen
<1> USE DEF EditStep, AmendStep
<1>1. ASSUME NEW draft \in Drafts, AppendCommitted(draft) \/ AppendDirty(draft)
      PROVE  EditStep
  BY <1>1 DEF AppendCommitted, AppendDirty, Grow, Edit
<1>2. ASSUME NEW id \in Features, RemovePlane(id) \/ SetSuppressed(id) \/ BeginRebuild(id)
      PROVE  EditStep \/ AmendStep
  BY <1>2 DEF RemovePlane, SetSuppressed, BeginRebuild, Edit
<1>3. ASSUME NEW id \in Features, NEW v \in Recipes, ReplaceAction(id, v)
      PROVE  EditStep
  BY <1>3 DEF ReplaceAction, Edit
<1>4. ASSUME NEW s \in Sketches, NEW v \in Recipes, ReplacePayload(s, v)
      PROVE  EditStep
  BY <1>4 DEF ReplacePayload, Edit
<1>5. ASSUME NEW s \in Sketches, AutoHide(s) \/ FollowVariable(s)
      PROVE  AmendStep
  BY <1>5 DEF AutoHide, FollowVariable, Amend
<1>6. ASSUME NEW s \in Sketches, NEW b \in BOOLEAN, SetSketchVisible(s, b)
      PROVE  EditStep
  BY <1>6 DEF SetSketchVisible, Edit
<1>7. ASSUME NEW position \in 0 .. Len(doc.features), SetHistoryPosition(position)
      PROVE  EditStep
  BY <1>7 DEF SetHistoryPosition, Edit
<1>8. ASSUME NEW v \in Values, SetVariable(v)
      PROVE  EditStep
  BY <1>8 DEF SetVariable, Edit
<1>9. ASSUME NEW t \in rebuild,
             RecordSuccess(t) \/ RecordFailure(t) \/ CommitRebuild(t)
      PROVE  AmendStep
  BY <1>9 DEF RecordSuccess, RecordFailure, CommitRebuild, Amend
<1>10. ASSUME DropRebuild PROVE AmendStep
  BY <1>10 DEF DropRebuild
<1>11. QED
  BY <1>1, <1>2, <1>3, <1>4, <1>5, <1>6, <1>7, <1>8, <1>9, <1>10 DEF Next

LEMMA EmptyIsSequence == IsSequence(<< >>) /\ Len(<< >>) = 0 /\ Reversed(<< >>) = << >>
<1>1. << >> \in Seq(Nat) /\ Len(<< >>) = 0
  BY EmptySeq
<1>2. IsSequence(<< >>)
  BY <1>1, SequencesAreSequences
<1>3. Reversed(<< >>) = << >>
  BY DEF Reversed
<1>4. QED
  BY <1>1, <1>2, <1>3

LEMMA InitJournals == Init => JournalsOK
<1>. SUFFICES ASSUME Init PROVE JournalsOK
  OBVIOUS
<1>1. IsSequence(<< >>) /\ Len(<< >>) = 0
  BY EmptyIsSequence
<1>2. \E l \in Limits : \A m \in Limits : m <= l
  BY DocumentAssumption DEF DocumentAssumption
<1>3. limit \in Limits
  BY <1>2 DEF Init
<1>4. limit \in Nat
  BY <1>3, DocumentAssumption DEF DocumentAssumption
<1>5. QED
  BY <1>1, <1>3, <1>4 DEF Init, JournalsOK

\* Keeping the latest states of a journal that is a sequence.
LEMMA TrimmedJournal ==
    ASSUME NEW s, IsSequence(s), NEW n \in Nat
    PROVE  /\ IsSequence(TrimFront(s, n))
           /\ Len(TrimFront(s, n)) <= n
           /\ Line!ForgetsOldest(s, TrimFront(s, n))
           /\ Line!ForgetsFarthest(Reversed(s), Reversed(TrimFront(s, n)))
<1>. DEFINE S == Elements(s)
<1>1. s \in Seq(S)
  BY DEF IsSequence
<1>. HIDE DEF S
<1>2. TrimFront(s, n) \in Seq(S)
  BY <1>1, TrimIsASuffix
<1>3. QED
  BY <1>1, <1>2, TrimIsASuffix, TrimReversedIsAPrefix, SequencesAreSequences

\* A push: the new state is the latest, the oldest states are forgotten.
LEMMA PushedJournal ==
    ASSUME NEW s, IsSequence(s), NEW x, limit \in Nat
    PROVE  /\ IsSequence(PushBounded(s, x))
           /\ Len(PushBounded(s, x)) <= limit
           /\ Line!ForgetsOldest(Append(s, x), PushBounded(s, x))
           /\ Line!ForgetsFarthest(<<x>> \o Reversed(s), Reversed(PushBounded(s, x)))
<1>. DEFINE S == Elements(s) \union {x}
<1>1. s \in Seq(Elements(s)) /\ Elements(s) \subseteq S /\ x \in S
  BY DEF IsSequence
<1>. HIDE DEF S
<1>2. s \in Seq(S)
  BY <1>1, SeqMonotonic
<1>3. Append(s, x) \in Seq(S)
  BY <1>1, <1>2, AppendProperties
<1>4. IsSequence(Append(s, x))
  BY <1>3, SequencesAreSequences
<1>5. Reversed(Append(s, x)) = <<x>> \o Reversed(s)
  BY <1>1, <1>2, ReversedAppend
<1>6. QED
  BY <1>4, <1>5, TrimmedJournal DEF PushBounded

\* A pop takes the latest state, which EditHistory reads as the nearest.
LEMMA PoppedJournal ==
    ASSUME NEW s, IsSequence(s), s # << >>
    PROVE  /\ IsSequence(Front(s)) /\ Len(Front(s)) = Len(s) - 1 /\ Len(s) \in Nat
           /\ Reversed(s) # << >> /\ Reversed(s)[1] = Last(s)
           /\ Reversed(Front(s)) = SubSeq(Reversed(s), 2, Len(Reversed(s)))
<1>. DEFINE S == Elements(s)
<1>1. s \in Seq(S)
  BY DEF IsSequence
<1>. HIDE DEF S
<1>2. Front(s) \in Seq(S)
  BY <1>1, ReversedFront
<1>3. QED
  BY <1>1, <1>2, ReversedFront, SequencesAreSequences, LenProperties

LEMMA LimitsAreNumbers == limit \in Limits => limit \in Nat
BY DocumentAssumption DEF DocumentAssumption

LEMMA StepJournals ==
    ASSUME JournalsOK, [Next]_vars
    PROVE  JournalsOK'
<1>. limit \in Nat /\ limit \in Limits /\ IsSequence(undo) /\ IsSequence(redo)
  BY LimitsAreNumbers DEF JournalsOK
<1>1. CASE EditStep
  <2>1. 0 <= limit
    OBVIOUS
  <2>2. QED
    BY <1>1, <2>1, PushedJournal, EmptyIsSequence DEF EditStep, JournalsOK
<1>2. CASE AmendStep \/ UNCHANGED vars
  BY <1>2 DEF AmendStep, JournalsOK, vars
<1>3. CASE Undo
  <2>1. Len(undo) - 1 <= limit /\ Len(undo) \in Nat
    BY <1>3, PoppedJournal DEF Undo, JournalsOK
  <2>2. QED
    BY <1>3, <2>1, PoppedJournal, PushedJournal DEF Undo, JournalsOK
<1>4. CASE Redo
  <2>1. Len(redo) - 1 <= limit /\ Len(redo) \in Nat
    BY <1>4, PoppedJournal DEF Redo, JournalsOK
  <2>2. QED
    BY <1>4, <2>1, PoppedJournal, PushedJournal DEF Redo, JournalsOK
<1>5. CASE AbandonLastEdit
  <2>1. CASE undo = << >>
    BY <1>5, <2>1 DEF AbandonLastEdit, JournalsOK
  <2>2. CASE undo # << >>
    <3>1. Len(undo) - 1 <= limit
      BY <2>2, PoppedJournal DEF JournalsOK
    <3>2. QED
      BY <1>5, <2>2, <3>1, PoppedJournal DEF AbandonLastEdit, JournalsOK
  <2>3. QED
    BY <2>1, <2>2
<1>6. ASSUME NEW l \in Limits, SetUndoLimit(l)
      PROVE  JournalsOK'
  <2>1. l \in Nat
    BY DocumentAssumption DEF DocumentAssumption
  <2>2. QED
    BY <1>6, <2>1, TrimmedJournal DEF SetUndoLimit, JournalsOK
<1>7. CASE Reopen
  BY <1>7, EmptyIsSequence DEF Reopen, JournalsOK
<1>8. QED
  BY <1>1, <1>2, <1>3, <1>4, <1>5, <1>6, <1>7, NextSteps

\* The journals stay sequences of states, and neither ever holds more than the
\* undo limit in force: set_undo_limit, push_bounded and the pops of undo,
\* redo and abandon_last_edit, in any order, for any limits.
THEOREM JournalsAreBounded == Spec => []JournalsOK
<1>1. Init => JournalsOK
  BY InitJournals
<1>2. JournalsOK /\ [Next]_vars => JournalsOK'
  BY StepJournals
<1>3. QED
  BY <1>1, <1>2, PTL DEF Spec

-----------------------------------------------------------------------------
(* The journals implement EditHistory.                                     *)

LEMMA FutureIsReversed ==
    [i \in DOMAIN redo |-> redo[Len(redo) + 1 - i]] = Reversed(redo)
BY DEF Reversed

LEMMA EverythingIsForgotten ==
    ASSUME NEW s, IsSequence(s)
    PROVE  Line!ForgetsOldest(s, << >>) /\ Line!ForgetsFarthest(Reversed(s), << >>)
<1>1. Len(s) \in Nat /\ Len(Reversed(s)) \in Nat
  BY LenProperties, ReversedIsSequence DEF IsSequence
<1>2. << >> = SubSeq(s, Len(s) - 0 + 1, Len(s)) /\ << >> = SubSeq(Reversed(s), 1, 0)
  BY <1>1, SubSeqEmpty
<1>3. QED
  BY <1>1, <1>2 DEF Line!ForgetsOldest, Line!ForgetsFarthest, Line!Latest, Line!Nearest

LEMMA InitLine == Init => Line!Init
BY EmptyIsSequence, FutureIsReversed DEF Init, Line!Init

LEMMA StepLine ==
    ASSUME JournalsOK, [Next]_vars
    PROVE  [Line!Next]_(Line!line)
<1>. limit \in Nat /\ limit \in Limits /\ IsSequence(undo) /\ IsSequence(redo)
  BY LimitsAreNumbers DEF JournalsOK
<1>. DEFINE future  == [i \in DOMAIN redo |-> redo[Len(redo) + 1 - i]]
            futureN == [i \in DOMAIN redo' |-> redo'[Len(redo') + 1 - i]]
<1>f. future = Reversed(redo) /\ futureN = Reversed(redo')
  BY DEF Reversed
<1>1. CASE EditStep
  <2>1. Line!ForgetsOldest(Append(undo, doc), undo')
    BY <1>1, PushedJournal DEF EditStep
  <2>2. futureN = << >>
    BY <1>1, <1>f, EmptyIsSequence DEF EditStep
  <2>3. Line!Edit
    BY <2>1, <2>2 DEF Line!Edit
  <2>4. QED
    BY <2>3 DEF Line!Next
<1>2. CASE AmendStep
  <2>1. Line!Amend
    BY <1>2 DEF AmendStep, Line!Amend
  <2>2. QED
    BY <2>1 DEF Line!Next
<1>3. CASE Undo
  <2>1. undo # << >> /\ doc' = undo[Len(undo)] /\ undo' = SubSeq(undo, 1, Len(undo) - 1)
    BY <1>3 DEF Undo, Last, Front
  <2>2. Line!ForgetsFarthest(<<doc>> \o future, futureN)
    <3>1. Line!ForgetsFarthest(<<doc>> \o Reversed(redo), Reversed(redo'))
      BY <1>3, PushedJournal DEF Undo
    <3>2. QED
      BY <3>1, <1>f
  <2>3. Line!Undo
    BY <2>1, <2>2 DEF Line!Undo
  <2>4. QED
    BY <2>3 DEF Line!Next
<1>4. CASE Redo
  <2>1. redo # << >> /\ doc' = Last(redo) /\ redo' = Front(redo)
    BY <1>4 DEF Redo
  <2>2. future # << >> /\ doc' = future[1] /\ futureN = SubSeq(future, 2, Len(future))
    BY <2>1, <1>f, PoppedJournal
  <2>3. Line!ForgetsOldest(Append(undo, doc), undo')
    BY <1>4, PushedJournal DEF Redo
  <2>4. Line!Redo
    BY <2>2, <2>3 DEF Line!Redo
  <2>5. QED
    BY <2>4 DEF Line!Next
<1>5. CASE AbandonLastEdit
  <2>1. CASE undo = << >>
    BY <1>5, <2>1 DEF AbandonLastEdit, Line!line
  <2>2. CASE undo # << >>
    <3>1. Line!Abandon
      BY <1>5, <2>2 DEF AbandonLastEdit, Line!Abandon, Last, Front
    <3>2. QED
      BY <3>1 DEF Line!Next
  <2>3. QED
    BY <2>1, <2>2
<1>6. ASSUME NEW l \in Limits, SetUndoLimit(l)
      PROVE  Line!Next
  <2>1. l \in Nat
    BY DocumentAssumption DEF DocumentAssumption
  <2>2. undo' = TrimFront(undo, l) /\ redo' = TrimFront(redo, l) /\ UNCHANGED doc
    BY <1>6 DEF SetUndoLimit
  <2>3. Line!ForgetsOldest(undo, undo') /\ Line!ForgetsFarthest(future, futureN)
    BY <2>1, <2>2, <1>f, TrimmedJournal
  <2>4. Line!Forget
    BY <2>2, <2>3 DEF Line!Forget
  <2>5. QED
    BY <2>4 DEF Line!Next
<1>7. CASE Reopen
  <2>1. /\ undo' = << >> /\ redo' = << >> /\ UNCHANGED doc
    BY <1>7 DEF Reopen
  <2>2. Line!ForgetsOldest(undo, << >>) /\ Line!ForgetsFarthest(future, << >>)
    BY <1>f, EverythingIsForgotten
  <2>3. Line!Forget
    BY <2>1, <2>2, <1>f, EmptyIsSequence DEF Line!Forget
  <2>4. QED
    BY <2>3 DEF Line!Next
<1>8. CASE UNCHANGED vars
  BY <1>8 DEF vars, Line!line
<1>9. QED
  BY <1>1, <1>2, <1>3, <1>4, <1>5, <1>6, <1>7, <1>8, NextSteps

\* Undo and redo are a place on a line of document states, for every sequence
\* of edits, amendments, rebuilds, abandoned edits, undos and redos and every
\* change of the undo limit: EditHistory is what the journals implement.
THEOREM JournalsAreALine == Spec => LineOfStates
<1>1. Init => Line!Init
  BY InitLine
<1>2. JournalsOK /\ [Next]_vars => [Line!Next]_(Line!line)
  BY StepLine
<1>3. QED
  BY <1>1, <1>2, JournalsAreBounded, PTL DEF Spec, LineOfStates, Line!Spec

-----------------------------------------------------------------------------
(* What every document state keeps.  Kept is the inductive invariant: the  *)
(* two properties and the fields they are read from.                       *)

HasFields(d) == {"features", "bodies", "sketches", "cursor", "head"} \subseteq DOMAIN d

Named(f) == {"id", "kind"} \subseteq DOMAIN f

FeaturesHaveIds(d) ==
  /\ IsSequence(d.features)
  /\ \A i \in DOMAIN d.features : Named(d.features[i])
  /\ \A s \in DOMAIN d.sketches : "madeBy" \in DOMAIN d.sketches[s]

Spent(d, next) ==
  /\ \A i \in DOMAIN d.features : d.features[i].id \in Nat /\ d.features[i].id < next.feature
  /\ \A b \in DOMAIN d.bodies : b \in Nat /\ b < next.body
  /\ \A s \in DOMAIN d.sketches : s \in Nat /\ s < next.sketch

\* The feature that draws a sketch is a sketch feature of the same state: the
\* payload of a sketch is found through it.
SketchesAreDrawn(d) ==
  \A s \in DOMAIN d.sketches : \E i \in DOMAIN d.features :
    d.features[i].id = d.sketches[s].madeBy /\ d.features[i].kind = "sketch"

Kept(d, next) ==
  /\ HasFields(d) /\ FeaturesHaveIds(d)
  /\ Spent(d, next) /\ SketchesAreDrawn(d) /\ CursorIsRetained(d)

Identities == [feature : Nat, body : Nat, sketch : Nat]

IdentitiesOK ==
  /\ ids \in Identities
  /\ \A d \in States : Kept(d, ids)
  /\ \A t \in rebuild : "base" \in DOMAIN t

SameName(f, g) == Named(g) /\ g.id = f.id /\ g.kind = f.kind

\* Most operations change what features, bodies and sketches say and not
\* which there are.
SameObjects(d, e) ==
  /\ DOMAIN e = DOMAIN d
  /\ IsSequence(e.features) /\ DOMAIN e.features = DOMAIN d.features
  /\ \A i \in DOMAIN d.features : SameName(d.features[i], e.features[i])
  /\ DOMAIN e.bodies = DOMAIN d.bodies
  /\ DOMAIN e.sketches = DOMAIN d.sketches
  /\ \A s \in DOMAIN d.sketches :
       /\ "madeBy" \in DOMAIN e.sketches[s]
       /\ e.sketches[s].madeBy = d.sketches[s].madeBy
  /\ e.cursor = d.cursor

LEMMA SameObjectsKept ==
    ASSUME NEW d, NEW e, NEW next, Kept(d, next), SameObjects(d, e)
    PROVE  Kept(e, next)
<1>1. HasFields(e) /\ FeaturesHaveIds(e)
  BY DEF Kept, SameObjects, SameName, HasFields, FeaturesHaveIds
<1>2. Spent(e, next)
  BY DEF Kept, SameObjects, SameName, Spent
<1>3. SketchesAreDrawn(e)
  BY DEF Kept, SameObjects, SameName, SketchesAreDrawn
<1>4. IdsOf(e.features) = IdsOf(d.features)
  BY DEF SameObjects, SameName, IdsOf
<1>5. QED
  BY <1>1, <1>2, <1>3, <1>4 DEF Kept, SameObjects, CursorIsRetained

LEMMA SameObjectsTransitive ==
    ASSUME NEW d, NEW e, NEW f, SameObjects(d, e), SameObjects(e, f)
    PROVE  SameObjects(d, f)
BY DEF SameObjects, SameName

LEMMA SequenceOverDomain ==
    ASSUME NEW s, IsSequence(s), NEW t, DOMAIN t = DOMAIN s, t = [i \in DOMAIN t |-> t[i]]
    PROVE  IsSequence(t)
<1>1. DOMAIN s = 1 .. Len(s) /\ Len(s) \in Nat
  BY LenProperties DEF IsSequence
<1>2. t \in [1 .. Len(s) -> Elements(t)]
  BY <1>1 DEF Elements
<1>3. t \in Seq(Elements(t))
  BY <1>1, <1>2, SeqDef
<1>4. QED
  BY <1>3 DEF IsSequence

LEMMA MarkDirtySame ==
    ASSUME NEW d, NEW roots, HasFields(d), FeaturesHaveIds(d)
    PROVE  SameObjects(d, MarkDirty(d, roots))
<1>. DEFINE impacted == Downstream(d.features, roots \intersect IdsOf(d.features))
            fs == [i \in DOMAIN d.features |->
                     IF d.features[i].id \in impacted
                     THEN [d.features[i] EXCEPT !.dirty = TRUE] ELSE d.features[i]]
            e == MarkDirty(d, roots)
<1>1. e = [d EXCEPT !.features = fs]
  BY DEF MarkDirty
<1>. HIDE DEF impacted, e
<1>2. e.features = fs /\ DOMAIN e = DOMAIN d
      /\ e.bodies = d.bodies /\ e.sketches = d.sketches /\ e.cursor = d.cursor
  BY <1>1 DEF HasFields
<1>3. IsSequence(fs)
  BY SequenceOverDomain DEF FeaturesHaveIds
<1>4. \A i \in DOMAIN d.features : SameName(d.features[i], fs[i])
  BY DEF FeaturesHaveIds, Named, SameName
<1>5. QED
  BY <1>2, <1>3, <1>4 DEF SameObjects, FeaturesHaveIds, e

LEMMA ReconciledSame ==
    ASSUME NEW d, HasFields(d), FeaturesHaveIds(d)
    PROVE  SameObjects(d, Reconciled(d))
<1>. DEFINE heads == Heads(d, Position(d))
            e == Reconciled(d)
<1>1. /\ e.features = d.features /\ e.cursor = d.cursor
      /\ DOMAIN e = DOMAIN d
      /\ DOMAIN e.bodies = DOMAIN d.bodies /\ DOMAIN e.sketches = DOMAIN d.sketches
  BY DEF Reconciled, HasFields
<1>2. \A s \in DOMAIN d.sketches : /\ "madeBy" \in DOMAIN e.sketches[s]
                                   /\ e.sketches[s].madeBy = d.sketches[s].madeBy
  BY DEF Reconciled, HasFields, FeaturesHaveIds
<1>. HIDE DEF e
<1>3. QED
  BY <1>1, <1>2 DEF SameObjects, SameName, FeaturesHaveIds, e

LEMMA WithFeatureSame ==
    ASSUME NEW d, NEW id, NEW f, HasFields(d), FeaturesHaveIds(d),
           IndexOf(d.features, id) \in DOMAIN d.features =>
             SameName(FeatureOf(d, id), f)
    PROVE  SameObjects(d, WithFeature(d, id, f))
<1>. DEFINE fs == [d.features EXCEPT ![IndexOf(d.features, id)] = f]
            e == WithFeature(d, id, f)
<1>1. e = [d EXCEPT !.features = fs]
  BY DEF WithFeature
<1>2. IsSequence(fs)
  BY SequenceOverDomain DEF FeaturesHaveIds
<1>3. \A i \in DOMAIN d.features : SameName(d.features[i], fs[i])
  BY DEF FeaturesHaveIds, FeatureOf, SameName
<1>4. DOMAIN fs = DOMAIN d.features
  OBVIOUS
<1>. HIDE DEF fs, e
<1>5. e.features = fs /\ DOMAIN e = DOMAIN d
      /\ e.bodies = d.bodies /\ e.sketches = d.sketches /\ e.cursor = d.cursor
  BY <1>1 DEF HasFields
<1>6. QED
  BY <1>2, <1>3, <1>4, <1>5 DEF SameObjects, FeaturesHaveIds, e

\* A change of one feature that keeps its identity, then marking what it
\* affects.
LEMMA ChangedFeatureSame ==
    ASSUME NEW d, NEW id, NEW f, NEW roots, HasFields(d), FeaturesHaveIds(d),
           IndexOf(d.features, id) \in DOMAIN d.features =>
             SameName(FeatureOf(d, id), f)
    PROVE  SameObjects(d, MarkDirty(WithFeature(d, id, f), roots))
<1>. DEFINE e == WithFeature(d, id, f)
<1>1. SameObjects(d, e)
  BY WithFeatureSame
<1>. HIDE DEF e
<1>2. HasFields(e) /\ FeaturesHaveIds(e)
  BY <1>1 DEF SameObjects, SameName, HasFields, FeaturesHaveIds
<1>3. SameObjects(e, MarkDirty(e, roots))
  BY <1>2, MarkDirtySame
<1>4. QED
  BY <1>1, <1>3, SameObjectsTransitive DEF e

LEMMA SketchVisibilitySame ==
    ASSUME NEW d, NEW s, NEW visible, NEW hider, HasFields(d), FeaturesHaveIds(d)
    PROVE  SameObjects(d, [d EXCEPT !.sketches[s].visible = visible,
                                    !.sketches[s].hiddenBy = hider])
<1>. DEFINE e == [d EXCEPT !.sketches[s].visible = visible, !.sketches[s].hiddenBy = hider]
<1>1. /\ DOMAIN e = DOMAIN d /\ e.features = d.features /\ e.bodies = d.bodies
      /\ e.cursor = d.cursor /\ DOMAIN e.sketches = DOMAIN d.sketches
  BY DEF HasFields
<1>2. \A r \in DOMAIN d.sketches : /\ "madeBy" \in DOMAIN e.sketches[r]
                                   /\ e.sketches[r].madeBy = d.sketches[r].madeBy
  BY DEF HasFields, FeaturesHaveIds
<1>. HIDE DEF e
<1>3. SameObjects(d, e)
  BY <1>1, <1>2 DEF SameObjects, SameName, FeaturesHaveIds
<1>4. QED
  BY <1>3 DEF e

LEMMA FoundFeature ==
    ASSUME NEW fs, NEW id \in IdsOf(fs)
    PROVE  IndexOf(fs, id) \in DOMAIN fs /\ fs[IndexOf(fs, id)].id = id
BY DEF IdsOf, IndexOf

LEMMA DrawerFound ==
    ASSUME NEW d, NEW s \in DOMAIN d.sketches, SketchesAreDrawn(d)
    PROVE  /\ Drawer(d, s) \in IdsOf(d.features)
           /\ FeatureOf(d, Drawer(d, s)).id = Drawer(d, s)
<1>1. Drawer(d, s) \in IdsOf(d.features)
  BY DEF SketchesAreDrawn, Drawer, IdsOf
<1>2. QED
  BY <1>1, FoundFeature DEF FeatureOf

LEMMA InstalledSame ==
    ASSUME NEW s \in DOMAIN doc.sketches, NEW payload, NEW next, Kept(doc, next)
    PROVE  SameObjects(doc, Installed(s, payload))
<1>. DEFINE f == FeatureOf(doc, Drawer(doc, s))
            g == [f EXCEPT !.recipe = payload, !.revision = f.revision + 1]
            e == WithFeature(doc, f.id, g)
            h == [e EXCEPT !.sketches[s].revision = f.revision + 1]
<1>1. Installed(s, payload) = MarkDirty(h, {f.id})
  BY DEF Installed
<1>2. f.id = Drawer(doc, s) /\ FeatureOf(doc, f.id) = f /\ Named(f)
  BY DrawerFound, FoundFeature DEF Kept, FeaturesHaveIds, FeatureOf
<1>3. SameName(FeatureOf(doc, f.id), g)
  BY <1>2 DEF SameName, Named
<1>. HIDE DEF g
<1>4. SameObjects(doc, e)
  BY <1>3, WithFeatureSame DEF Kept
<1>. HIDE DEF e
<1>5. HasFields(e) /\ FeaturesHaveIds(e)
  BY <1>4 DEF SameObjects, SameName, HasFields, FeaturesHaveIds, Kept
<1>6. SameObjects(e, h)
  BY <1>5 DEF HasFields, SameObjects, SameName, FeaturesHaveIds
<1>. HIDE DEF h
<1>7. HasFields(h) /\ FeaturesHaveIds(h)
  BY <1>5, <1>6 DEF SameObjects, SameName, HasFields, FeaturesHaveIds
<1>8. SameObjects(h, MarkDirty(h, {f.id}))
  BY <1>7, MarkDirtySame
<1>9. QED
  BY <1>1, <1>4, <1>6, <1>8, SameObjectsTransitive

LEMMA RebuiltSame ==
    ASSUME NEW d, NEW from, NEW results, HasFields(d), FeaturesHaveIds(d)
    PROVE  SameObjects(d, Rebuilt(d, from, results))
<1>. DEFINE e == Published(d, from, results)
<1>1. /\ DOMAIN e = DOMAIN d
      /\ e.bodies = d.bodies /\ e.sketches = d.sketches /\ e.cursor = d.cursor
      /\ DOMAIN e.features = DOMAIN d.features
      /\ e.features = [i \in DOMAIN e.features |-> e.features[i]]
  BY DEF Published, HasFields
<1>2. \A i \in DOMAIN d.features : SameName(d.features[i], e.features[i])
  BY DEF Published, HasFields, FeaturesHaveIds, Named, SameName
<1>. HIDE DEF e
<1>3. IsSequence(e.features)
  BY <1>1, SequenceOverDomain DEF FeaturesHaveIds
<1>4. SameObjects(d, e)
  BY <1>1, <1>2, <1>3 DEF SameObjects, FeaturesHaveIds
<1>5. HasFields(e) /\ FeaturesHaveIds(e)
  BY <1>1, <1>2, <1>3 DEF HasFields, FeaturesHaveIds, SameName
<1>6. SameObjects(e, Reconciled(e))
  BY <1>5, ReconciledSame
<1>7. QED
  BY <1>4, <1>6, SameObjectsTransitive DEF Rebuilt, e

-----------------------------------------------------------------------------
(* The operations that add a feature, remove one or move the cursor.       *)

\* What is appended is the last element, and nothing else changes.
LEMMA LongerSequence ==
    ASSUME NEW s, IsSequence(s), NEW x
    PROVE  LET longer == Append(s, x)
           IN  /\ IsSequence(longer) /\ Len(s) \in Nat /\ Len(longer) = Len(s) + 1
               /\ DOMAIN s = 1 .. Len(s) /\ DOMAIN longer = 1 .. Len(s) + 1
               /\ \A i \in DOMAIN s : longer[i] = s[i]
               /\ longer[Len(s) + 1] = x
<1>. DEFINE S == Elements(s) \union {x}
            longer == Append(s, x)
<1>1. s \in Seq(Elements(s)) /\ Elements(s) \subseteq S /\ x \in S
  BY DEF IsSequence
<1>. HIDE DEF S
<1>2. s \in Seq(S)
  BY <1>1, SeqMonotonic
<1>3. /\ longer \in Seq(S) /\ Len(longer) = Len(s) + 1
      /\ \A i \in 1 .. Len(s) : longer[i] = s[i]
      /\ longer[Len(s) + 1] = x
  BY <1>1, <1>2, AppendProperties
<1>. HIDE DEF longer
<1>4. /\ IsSequence(longer) /\ Len(s) \in Nat /\ Len(longer) = Len(s) + 1
      /\ DOMAIN s = 1 .. Len(s) /\ DOMAIN longer = 1 .. Len(s) + 1
      /\ \A i \in DOMAIN s : longer[i] = s[i]
      /\ longer[Len(s) + 1] = x
  BY <1>2, <1>3, LenProperties, SequencesAreSequences
<1>5. QED
  BY <1>4 DEF longer

LEMMA AppendedKept ==
    ASSUME NEW d, NEW next \in Identities, Kept(d, next),
           NEW node, Named(node), node.id = next.feature,
           node.makes \in {0, next.body},
           node.draws = 0 \/ (node.draws = next.sketch /\ node.kind = "sketch")
    PROVE  Kept(Appended(d, node), AllocatedAfter(next, node))
<1>. DEFINE e == Appended(d, node)
            after == AllocatedAfter(next, node)
            fs == Append(d.features, node)
<1>1. /\ next.feature \in Nat /\ next.body \in Nat /\ next.sketch \in Nat
      /\ after.feature = next.feature + 1
      /\ after.body = IF node.makes = 0 THEN next.body ELSE next.body + 1
      /\ after.sketch = IF node.draws = 0 THEN next.sketch ELSE next.sketch + 1
  BY DEF AllocatedAfter, Identities
<1>2. /\ DOMAIN e = DOMAIN d /\ e.features = fs /\ e.cursor = End
  BY DEF Appended, Kept, HasFields
<1>3. DOMAIN e.bodies \subseteq DOMAIN d.bodies \union ({node.makes} \ {0})
  BY DEF Appended, Kept, HasFields, With
<1>4. /\ node.draws = 0 => e.sketches = d.sketches
      /\ node.draws # 0 =>
           /\ DOMAIN e.sketches = DOMAIN d.sketches \union {node.draws}
           /\ "madeBy" \in DOMAIN e.sketches[node.draws]
           /\ e.sketches[node.draws].madeBy = node.id
           /\ \A s \in DOMAIN d.sketches : s # node.draws => e.sketches[s] = d.sketches[s]
  BY DEF Appended, Kept, HasFields, With
<1>5. /\ IsSequence(fs) /\ Len(d.features) \in Nat
      /\ DOMAIN d.features = 1 .. Len(d.features)
      /\ DOMAIN fs = 1 .. Len(d.features) + 1
      /\ \A i \in DOMAIN d.features : fs[i] = d.features[i]
      /\ fs[Len(d.features) + 1] = node
  BY LongerSequence DEF Kept, FeaturesHaveIds
<1>. HIDE DEF e, fs, after
<1>6. HasFields(e)
  BY <1>2 DEF Kept, HasFields
<1>7. \A i \in DOMAIN fs : i \in DOMAIN d.features \/ (i = Len(d.features) + 1 /\ fs[i] = node)
  BY <1>5
<1>8. FeaturesHaveIds(e)
  <2>1. \A i \in DOMAIN fs : Named(fs[i])
    BY <1>5, <1>7 DEF Kept, FeaturesHaveIds
  <2>2. \A s \in DOMAIN e.sketches : "madeBy" \in DOMAIN e.sketches[s]
    BY <1>4 DEF Kept, FeaturesHaveIds
  <2>3. QED
    BY <1>2, <1>5, <2>1, <2>2 DEF FeaturesHaveIds
<1>9. Spent(e, after)
  <2>1. \A i \in DOMAIN fs : fs[i].id \in Nat /\ fs[i].id < after.feature
    BY <1>1, <1>5, <1>7 DEF Kept, Spent
  <2>2. \A b \in DOMAIN e.bodies : b \in Nat /\ b < after.body
    BY <1>1, <1>3 DEF Kept, Spent
  <2>3. \A s \in DOMAIN e.sketches : s \in Nat /\ s < after.sketch
    BY <1>1, <1>4 DEF Kept, Spent
  <2>4. QED
    BY <1>2, <2>1, <2>2, <2>3 DEF Spent
<1>10. SketchesAreDrawn(e)
  BY <1>2, <1>4, <1>5 DEF Kept, SketchesAreDrawn
<1>11. CursorIsRetained(e)
  BY <1>2 DEF CursorIsRetained
<1>12. QED
  BY <1>6, <1>8, <1>9, <1>10, <1>11 DEF Kept, e, after

LEMMA MovedKept ==
    ASSUME NEW d, NEW next, Kept(d, next), NEW position \in 0 .. Len(d.features)
    PROVE  Kept([d EXCEPT !.cursor = Cursor(d, position)], next)
<1>. DEFINE e == [d EXCEPT !.cursor = Cursor(d, position)]
<1>1. /\ DOMAIN e = DOMAIN d /\ e.features = d.features /\ e.bodies = d.bodies
      /\ e.sketches = d.sketches /\ e.cursor = Cursor(d, position)
  BY DEF Kept, HasFields
<1>. HIDE DEF e
<1>2. Cursor(d, position) \in {Start, End} \union IdsOf(d.features)
  <2>1. Len(d.features) \in Nat /\ DOMAIN d.features = 1 .. Len(d.features)
        /\ (d.features = << >> <=> Len(d.features) = 0)
    BY LenProperties, EmptySeq DEF Kept, FeaturesHaveIds, IsSequence
  <2>2. CASE position = Len(d.features) \/ (position = 0 /\ d.features # << >>)
    BY <2>2 DEF Cursor
  <2>3. CASE position # Len(d.features) /\ ~(position = 0 /\ d.features # << >>)
    <3>1. position \in DOMAIN d.features
      BY <2>1, <2>3
    <3>2. Cursor(d, position) = d.features[position].id
      BY <2>3 DEF Cursor
    <3>3. QED
      BY <3>1, <3>2 DEF IdsOf
  <2>4. QED
    BY <2>2, <2>3
<1>3. QED
  BY <1>1, <1>2 DEF Kept, HasFields, FeaturesHaveIds, Spent, SketchesAreDrawn, CursorIsRetained, e

LEMMA Slice ==
    ASSUME NEW S, NEW s, NEW a \in Int, NEW b \in Int, a <= b + 1,
           \A j \in a .. b : s[j] \in S
    PROVE  /\ SubSeq(s, a, b) \in Seq(S)
           /\ Len(SubSeq(s, a, b)) = b - a + 1
           /\ \A k \in 1 .. b - a + 1 : SubSeq(s, a, b)[k] = s[a + k - 1]
<1>1. (IF a <= b THEN b - a + 1 ELSE 0) = b - a + 1
  OBVIOUS
<1>2. /\ SubSeq(s, a, b) \in Seq(S)
      /\ Len(SubSeq(s, a, b)) = IF a <= b THEN b - a + 1 ELSE 0
      /\ \A k \in 1 .. b - a + 1 : SubSeq(s, a, b)[k] = s[a + k - 1]
  BY SubSeqProperties
<1>3. QED
  BY ONLY <1>1, <1>2

Cut(s, i) == SubSeq(s, 1, i - 1) \o SubSeq(s, i + 1, Len(s))

\* Cutting one element out of a sequence keeps all the others and no more.
LEMMA CutSequence ==
    ASSUME NEW s, IsSequence(s), NEW i \in DOMAIN s
    PROVE  /\ IsSequence(Cut(s, i)) /\ Len(Cut(s, i)) = Len(s) - 1
           /\ \A k \in 1 .. Len(s) - 1 : Cut(s, i)[k] = IF k < i THEN s[k] ELSE s[k + 1]
           /\ \A k \in DOMAIN Cut(s, i) : \E j \in DOMAIN s : j # i /\ Cut(s, i)[k] = s[j]
           /\ \A j \in DOMAIN s : j # i => \E k \in DOMAIN Cut(s, i) : Cut(s, i)[k] = s[j]
<1>. DEFINE S == Elements(s)
            t == Cut(s, i)
            n == Len(s)
            left == SubSeq(s, 1, i - 1)
            right == SubSeq(s, i + 1, n)
<1>1. s \in Seq(S) /\ n \in Nat /\ DOMAIN s = 1 .. n /\ i \in 1 .. n
  BY LenProperties DEF IsSequence
<1>. HIDE DEF S, n, t
<1>2. \A j \in 1 .. n : s[j] \in S
  BY <1>1 DEF S, Elements
<1>3. /\ left \in Seq(S) /\ Len(left) = i - 1
      /\ \A k \in 1 .. i - 1 : left[k] = s[k]
  <2>1. /\ 1 <= (i - 1) + 1 /\ (i - 1) - 1 + 1 = i - 1
        /\ \A j \in 1 .. i - 1 : s[j] \in S
        /\ \A k \in 1 .. i - 1 : 1 + k - 1 = k
    BY <1>1, <1>2
  <2>2. /\ left \in Seq(S) /\ Len(left) = (i - 1) - 1 + 1
        /\ \A k \in 1 .. (i - 1) - 1 + 1 : left[k] = s[1 + k - 1]
    BY <1>1, <2>1, Slice
  <2>. HIDE DEF left
  <2>3. QED
    BY <2>1, <2>2
<1>4. /\ right \in Seq(S) /\ Len(right) = n - i
      /\ \A k \in 1 .. n - i : right[k] = s[i + k]
  <2>. DEFINE a == i + 1
  <2>1. /\ a \in Int /\ n \in Int /\ a <= n + 1 /\ n - a + 1 = n - i
        /\ \A j \in a .. n : s[j] \in S
        /\ \A k \in 1 .. n - i : a + k - 1 = i + k
    BY <1>1, <1>2
  <2>2. right = SubSeq(s, a, n)
    OBVIOUS
  <2>. HIDE DEF a, right
  <2>3. /\ SubSeq(s, a, n) \in Seq(S) /\ Len(SubSeq(s, a, n)) = n - a + 1
        /\ \A k \in 1 .. n - a + 1 : SubSeq(s, a, n)[k] = s[a + k - 1]
    BY <2>1, Slice
  <2>4. QED
    BY <2>1, <2>2, <2>3
<1>. HIDE DEF left, right
<1>5. t = left \o right
  BY DEF left, right, n, t, Cut
<1>6. /\ t \in Seq(S) /\ Len(t) = n - 1
      /\ \A k \in 1 .. n - 1 : t[k] = IF k <= i - 1 THEN left[k] ELSE right[k - (i - 1)]
  <2>1. (i - 1) + (n - i) = n - 1
    BY <1>1
  <2>2. /\ left \o right \in Seq(S) /\ Len(left \o right) = Len(left) + Len(right)
        /\ \A k \in 1 .. Len(left) + Len(right) :
             (left \o right)[k] = IF k <= Len(left) THEN left[k] ELSE right[k - Len(left)]
    BY <1>3, <1>4, ConcatProperties
  <2>3. QED
    BY ONLY <1>3, <1>4, <1>5, <2>1, <2>2
<1>7. DOMAIN t = 1 .. n - 1
  BY <1>6, LenProperties
<1>8. ASSUME NEW k \in 1 .. n - 1
      PROVE  t[k] = IF k < i THEN s[k] ELSE s[k + 1]
  <2>1. CASE k < i
    <3>1. k \in 1 .. i - 1 /\ k <= i - 1
      BY <1>1, <2>1
    <3>2. QED
      BY <1>3, <1>6, <2>1, <3>1
  <2>2. CASE ~(k < i)
    <3>1. k - (i - 1) \in 1 .. n - i /\ ~(k <= i - 1) /\ i + (k - (i - 1)) = k + 1
      BY <1>1, <2>2
    <3>2. QED
      BY <1>4, <1>6, <2>2, <3>1
  <2>3. QED
    BY <2>1, <2>2
<1>9. ASSUME NEW k \in DOMAIN t
      PROVE  \E j \in DOMAIN s : j # i /\ t[k] = s[j]
  <2>1. CASE k < i
    <3>1. k \in 1 .. n - 1 /\ k \in DOMAIN s /\ k # i
      BY <1>1, <1>7, <2>1
    <3>2. t[k] = s[k]
      BY <1>8, <2>1, <3>1
    <3>3. QED
      BY <3>1, <3>2
  <2>2. CASE ~(k < i)
    <3>1. k \in 1 .. n - 1 /\ k + 1 \in DOMAIN s /\ k + 1 # i
      BY <1>1, <1>7, <2>2
    <3>2. t[k] = s[k + 1]
      BY <1>8, <2>2, <3>1
    <3>3. QED
      BY <3>1, <3>2
  <2>3. QED
    BY <2>1, <2>2
<1>10. ASSUME NEW j \in DOMAIN s, j # i
       PROVE  \E k \in DOMAIN t : t[k] = s[j]
  <2>1. CASE j < i
    <3>1. j \in DOMAIN t /\ t[j] = s[j]
      BY <1>1, <1>7, <1>8, <2>1
    <3>2. QED
      BY <3>1
  <2>2. CASE ~(j < i)
    <3>1. j - 1 \in 1 .. n - 1 /\ ~(j - 1 < i) /\ (j - 1) + 1 = j
      BY <1>1, <1>10, <2>2
    <3>2. j - 1 \in DOMAIN t /\ t[j - 1] = s[j]
      BY <1>7, <1>8, <3>1
    <3>3. QED
      BY <3>2
  <2>3. QED
    BY <2>1, <2>2
<1>11. QED
  BY <1>6, <1>8, <1>9, <1>10, SequencesAreSequences DEF t, n

LEMMA RemovedKept ==
    ASSUME NEW next, Kept(doc, next), NEW id \in Features,
           FeatureOf(doc, id).kind = "plane", NEW i, i = IndexOf(doc.features, id)
    PROVE  Kept(Reconciled([doc EXCEPT
                  !.cursor = CursorWithout(id),
                  !.features = SubSeq(@, 1, i - 1) \o SubSeq(@, i + 1, Len(@))]), next)
<1>. DEFINE fs == doc.features
            cut == Cut(fs, i)
            e == [doc EXCEPT
                  !.cursor = CursorWithout(id),
                  !.features = SubSeq(@, 1, i - 1) \o SubSeq(@, i + 1, Len(@))]
<1>1. /\ DOMAIN e = DOMAIN doc /\ e.features = cut /\ e.cursor = CursorWithout(id)
      /\ e.bodies = doc.bodies /\ e.sketches = doc.sketches
  BY DEF Kept, HasFields, Cut
<1>2. IsSequence(fs) /\ i \in DOMAIN fs /\ fs[i].id = id /\ fs[i].kind = "plane"
  BY FoundFeature DEF Features, Kept, FeaturesHaveIds, FeatureOf
<1>3. /\ IsSequence(cut)
      /\ \A k \in DOMAIN cut : \E j \in DOMAIN fs : j # i /\ cut[k] = fs[j]
      /\ \A j \in DOMAIN fs : j # i => \E k \in DOMAIN cut : cut[k] = fs[j]
  BY <1>2, CutSequence
<1>. HIDE DEF cut, e
<1>4. HasFields(e)
  BY <1>1 DEF Kept, HasFields
<1>5. FeaturesHaveIds(e)
  <2>1. \A k \in DOMAIN cut : Named(cut[k])
    BY <1>3 DEF Kept, FeaturesHaveIds
  <2>2. QED
    BY <1>1, <1>3, <2>1 DEF Kept, FeaturesHaveIds
<1>6. Spent(e, next)
  <2>1. \A k \in DOMAIN cut : cut[k].id \in Nat /\ cut[k].id < next.feature
    BY <1>3 DEF Kept, Spent
  <2>2. QED
    BY <1>1, <2>1 DEF Kept, Spent
<1>7. SketchesAreDrawn(e)
  <2>1. ASSUME NEW s \in DOMAIN doc.sketches
        PROVE  \E k \in DOMAIN cut : cut[k].id = doc.sketches[s].madeBy /\ cut[k].kind = "sketch"
    <3>1. PICK j \in DOMAIN fs : fs[j].id = doc.sketches[s].madeBy /\ fs[j].kind = "sketch"
      BY DEF Kept, SketchesAreDrawn
    <3>2. j # i
      BY <1>2, <3>1
    <3>3. QED
      BY <1>3, <3>1, <3>2
  <2>2. QED
    BY <1>1, <2>1 DEF SketchesAreDrawn
<1>8. CursorIsRetained(e)
  <2>1. CASE doc.cursor # id
    <3>1. CASE doc.cursor \in {Start, End}
      BY <1>1, <2>1, <3>1 DEF CursorWithout, CursorIsRetained
    <3>2. CASE doc.cursor \in IdsOf(fs)
      <4>1. PICK j \in DOMAIN fs : fs[j].id = doc.cursor
        BY <3>2 DEF IdsOf
      <4>2. PICK k \in DOMAIN cut : cut[k].id = doc.cursor
        BY <1>2, <1>3, <2>1, <4>1
      <4>3. QED
        BY <1>1, <2>1, <4>2 DEF CursorWithout, CursorIsRetained, IdsOf
    <3>3. QED
      BY <3>1, <3>2 DEF Kept, CursorIsRetained
  <2>2. CASE doc.cursor = id /\ i = 1
    BY <1>1, <2>2 DEF CursorWithout, CursorIsRetained
  <2>3. CASE doc.cursor = id /\ i # 1
    <3>1. i - 1 \in DOMAIN fs /\ i - 1 # i
      BY <1>2, <2>3, LenProperties DEF IsSequence
    <3>2. PICK k \in DOMAIN cut : cut[k] = fs[i - 1]
      BY <1>3, <3>1
    <3>3. CursorWithout(id) = cut[k].id
      BY <2>3, <3>2 DEF CursorWithout
    <3>4. QED
      BY <1>1, <3>3 DEF CursorIsRetained, IdsOf
  <2>4. QED
    BY <2>1, <2>2, <2>3
<1>9. Kept(e, next)
  BY <1>4, <1>5, <1>6, <1>7, <1>8 DEF Kept
<1>10. SameObjects(e, Reconciled(e))
  BY <1>4, <1>5, ReconciledSame
<1>11. QED
  BY <1>9, <1>10, SameObjectsKept DEF e

-----------------------------------------------------------------------------
(* Which states the journals and the plans hold after a step.              *)

LEMMA ElementsOfSeq ==
    ASSUME NEW S, NEW s \in Seq(S)
    PROVE  Elements(s) \subseteq S
BY LenProperties, ElementOfSeq DEF Elements

LEMMA TrimmedElements ==
    ASSUME NEW s, IsSequence(s), NEW n \in Nat
    PROVE  Elements(TrimFront(s, n)) \subseteq Elements(s)
BY TrimIsASuffix, ElementsOfSeq DEF IsSequence

LEMMA PushedElements ==
    ASSUME NEW s, IsSequence(s), NEW x, limit \in Nat
    PROVE  Elements(PushBounded(s, x)) \subseteq Elements(s) \union {x}
<1>. DEFINE S == Elements(s) \union {x}
<1>1. s \in Seq(Elements(s)) /\ Elements(s) \subseteq S /\ x \in S
  BY DEF IsSequence
<1>. HIDE DEF S
<1>2. Append(s, x) \in Seq(S)
  BY <1>1, SeqMonotonic, AppendProperties
<1>3. PushBounded(s, x) \in Seq(S)
  BY <1>2, TrimIsASuffix DEF PushBounded
<1>4. QED
  BY <1>3, ElementsOfSeq DEF S

LEMMA PoppedElements ==
    ASSUME NEW s, IsSequence(s), s # << >>
    PROVE  Elements(Front(s)) \subseteq Elements(s) /\ Last(s) \in Elements(s)
<1>1. s \in Seq(Elements(s)) /\ Len(s) \in Nat \ {0} /\ DOMAIN s = 1 .. Len(s)
  BY EmptySeq, LenProperties DEF IsSequence
<1>2. Elements(Front(s)) \subseteq Elements(s)
  BY <1>1, ReversedFront, ElementsOfSeq
<1>3. QED
  BY <1>1, <1>2 DEF Last, Elements

LEMMA JournaledStates ==
    ASSUME JournalsOK, Next
    PROVE  Journaled' \subseteq Journaled \union {doc}
<1>. limit \in Nat /\ IsSequence(undo) /\ IsSequence(redo)
  BY LimitsAreNumbers DEF JournalsOK
<1>e. Elements(<< >>) = {}
  BY DEF Elements
<1>j. /\ Journaled = Elements(undo) \union Elements(redo)
      /\ Journaled' = Elements(undo') \union Elements(redo')
  BY DEF Journaled, Elements
<1>1. CASE EditStep
  BY <1>1, <1>e, <1>j, PushedElements DEF EditStep
<1>2. CASE AmendStep
  BY <1>2, <1>j DEF AmendStep
<1>3. CASE Undo
  BY <1>3, <1>j, PushedElements, PoppedElements DEF Undo
<1>4. CASE Redo
  BY <1>4, <1>j, PushedElements, PoppedElements DEF Redo
<1>5. CASE AbandonLastEdit
  BY <1>5, <1>j, PoppedElements DEF AbandonLastEdit
<1>6. ASSUME NEW l \in Limits, SetUndoLimit(l)
      PROVE  Journaled' \subseteq Journaled
  <2>1. l \in Nat
    BY DocumentAssumption DEF DocumentAssumption
  <2>2. QED
    BY <1>6, <1>j, <2>1, TrimmedElements DEF SetUndoLimit
<1>7. CASE Reopen
  BY <1>7, <1>e, <1>j DEF Reopen
<1>8. QED
  BY <1>1, <1>2, <1>3, <1>4, <1>5, <1>6, <1>7, NextSteps

PlansHaveBases == \A t \in rebuild : "base" \in DOMAIN t
Bases == { t.base : t \in rebuild }

LEMMA PlannedStates ==
    ASSUME PlansHaveBases, Next
    PROVE  PlansHaveBases' /\ Bases' \subseteq Bases \union {doc}
<1> USE DEF PlansHaveBases, Bases
<1>1. ASSUME NEW draft \in Drafts, AppendCommitted(draft) \/ AppendDirty(draft)
      PROVE  UNCHANGED rebuild
  BY <1>1 DEF AppendCommitted, AppendDirty, Grow, Edit
<1>2. ASSUME NEW id \in Features, RemovePlane(id) \/ SetSuppressed(id)
      PROVE  UNCHANGED rebuild
  BY <1>2 DEF RemovePlane, SetSuppressed, Edit
<1>3. ASSUME NEW id \in Features, BeginRebuild(id)
      PROVE  PlansHaveBases' /\ Bases' \subseteq Bases \union {doc}
  BY <1>3 DEF BeginRebuild
<1>4. ASSUME NEW s \in Sketches, NEW v \in Recipes, ReplacePayload(s, v)
      PROVE  UNCHANGED rebuild
  BY <1>4 DEF ReplacePayload, Edit
<1>5. ASSUME NEW id \in Features, NEW v \in Recipes, ReplaceAction(id, v)
      PROVE  UNCHANGED rebuild
  BY <1>5 DEF ReplaceAction, Edit
<1>6. ASSUME NEW s \in Sketches, AutoHide(s) \/ FollowVariable(s)
      PROVE  UNCHANGED rebuild
  BY <1>6 DEF AutoHide, FollowVariable
<1>7. ASSUME NEW s \in Sketches, NEW b \in BOOLEAN, SetSketchVisible(s, b)
      PROVE  UNCHANGED rebuild
  BY <1>7 DEF SetSketchVisible, Edit
<1>8. ASSUME NEW position \in 0 .. Len(doc.features), SetHistoryPosition(position)
      PROVE  UNCHANGED rebuild
  BY <1>8 DEF SetHistoryPosition, Edit
<1>9. ASSUME NEW v \in Values, SetVariable(v)
      PROVE  UNCHANGED rebuild
  BY <1>9 DEF SetVariable, Edit
<1>10. ASSUME AbandonLastEdit \/ Undo \/ Redo \/ \E l \in Limits : SetUndoLimit(l)
       PROVE  UNCHANGED rebuild
  BY <1>10 DEF AbandonLastEdit, Undo, Redo, SetUndoLimit
<1>11. ASSUME Reopen \/ DropRebuild
       PROVE  rebuild' = {}
  BY <1>11 DEF Reopen, DropRebuild
<1>12. ASSUME NEW t \in rebuild, RecordSuccess(t) \/ RecordFailure(t) \/ CommitRebuild(t)
       PROVE  PlansHaveBases' /\ Bases' \subseteq Bases
  BY <1>12 DEF RecordSuccess, RecordFailure, CommitRebuild
<1>13. QED
  BY <1>1, <1>2, <1>3, <1>4, <1>5, <1>6, <1>7, <1>8, <1>9, <1>10, <1>11, <1>12 DEF Next

-----------------------------------------------------------------------------
(* The present after a step.                                               *)

Later(n, m) ==
  /\ n \in Identities /\ m \in Identities
  /\ n.feature <= m.feature /\ n.body <= m.body /\ n.sketch <= m.sketch

PresentOK == Later(ids, ids') /\ Kept(doc', ids')

LEMMA KeptLater ==
    ASSUME NEW d, NEW n, NEW m, Kept(d, n), Later(n, m)
    PROVE  Kept(d, m)
BY DEF Kept, Later, Spent, Identities

LEMMA SameIsOK ==
    ASSUME IdentitiesOK, UNCHANGED ids, SameObjects(doc, doc') \/ doc' = doc
    PROVE  PresentOK
<1>1. Kept(doc, ids) /\ ids \in Identities
  BY DEF IdentitiesOK, States
<1>2. Later(ids, ids')
  BY <1>1 DEF Later, Identities
<1>3. QED
  BY <1>1, <1>2, SameObjectsKept DEF PresentOK

LEMMA BroughtBackIsOK ==
    ASSUME IdentitiesOK, UNCHANGED ids, doc' \in Journaled
    PROVE  PresentOK
<1>1. Kept(doc', ids) /\ ids \in Identities
  BY DEF IdentitiesOK, States
<1>2. QED
  BY <1>1 DEF PresentOK, Later, Identities

LEMMA AppendIsOK ==
    ASSUME IdentitiesOK, NEW draft, AppendCommitted(draft) \/ AppendDirty(draft)
    PROVE  PresentOK
<1>1. Kept(doc, ids) /\ ids \in Identities
  BY DEF IdentitiesOK, States
<1>2. ASSUME NEW commit, NEW node, node = Node(draft, commit), Grow(node)
      PROVE  PresentOK
  <2>1. /\ Named(node) /\ node.id = ids.feature /\ node.makes \in {0, ids.body}
        /\ node.draws = 0 \/ (node.draws = ids.sketch /\ node.kind = "sketch")
    BY <1>2 DEF Node, NodeOf, Named
  <2>2. doc' = Appended(doc, node) /\ ids' = AllocatedAfter(ids, node)
    BY <1>2 DEF Grow, Edit
  <2>3. Kept(doc', ids')
    BY <1>1, <2>1, <2>2, AppendedKept
  <2>4. Later(ids, ids')
    BY <1>1, <2>2 DEF AllocatedAfter, Later, Identities
  <2>5. QED
    BY <2>3, <2>4 DEF PresentOK
<1>3. QED
  BY <1>2 DEF AppendCommitted, AppendDirty, CommittedNode

LEMMA FeatureChangeIsOK ==
    ASSUME IdentitiesOK, UNCHANGED ids, NEW id \in Features, NEW f, NEW roots,
           SameName(FeatureOf(doc, id), f),
           doc' = MarkDirty(WithFeature(doc, id, f), roots)
    PROVE  PresentOK
<1>1. Kept(doc, ids)
  BY DEF IdentitiesOK, States
<1>2. SameObjects(doc, doc')
  BY <1>1, ChangedFeatureSame DEF Kept
<1>3. QED
  BY <1>2, SameIsOK

LEMMA PresentStep ==
    ASSUME JournalsOK, IdentitiesOK, Next
    PROVE  PresentOK
<1>k. Kept(doc, ids) /\ ids \in Identities /\ HasFields(doc) /\ FeaturesHaveIds(doc)
  BY DEF IdentitiesOK, States, Kept
<1>j. IsSequence(undo) /\ IsSequence(redo)
  BY DEF JournalsOK
<1>1. ASSUME NEW draft \in Drafts, AppendCommitted(draft) \/ AppendDirty(draft)
      PROVE  PresentOK
  BY <1>1, AppendIsOK
<1>2. ASSUME NEW id \in Features, RemovePlane(id)
      PROVE  PresentOK
  <2>1. Kept(doc', ids) /\ UNCHANGED ids
    BY <1>2, <1>k, RemovedKept DEF RemovePlane, Edit
  <2>2. QED
    BY <1>k, <2>1 DEF PresentOK, Later, Identities
<1>3. ASSUME NEW id \in Features, NEW v \in Recipes, ReplaceAction(id, v)
      PROVE  PresentOK
  <2>. DEFINE f == [FeatureOf(doc, id) EXCEPT !.recipe = v]
  <2>1. SameName(FeatureOf(doc, id), f)
    BY <1>k, FoundFeature DEF Features, FeaturesHaveIds, FeatureOf, Named, SameName
  <2>2. doc' = MarkDirty(WithFeature(doc, id, f), {id}) /\ UNCHANGED ids
    BY <1>3 DEF ReplaceAction, Edit
  <2>. HIDE DEF f
  <2>3. QED
    BY <2>1, <2>2, FeatureChangeIsOK
<1>4. ASSUME NEW id \in Features, SetSuppressed(id)
      PROVE  PresentOK
  <2>. DEFINE f == [FeatureOf(doc, id) EXCEPT !.suppressed = ~@]
  <2>1. SameName(FeatureOf(doc, id), f)
    BY <1>k, FoundFeature DEF Features, FeaturesHaveIds, FeatureOf, Named, SameName
  <2>2. doc' = MarkDirty(WithFeature(doc, id, f), {id}) /\ UNCHANGED ids
    BY <1>4 DEF SetSuppressed, Edit
  <2>. HIDE DEF f
  <2>3. QED
    BY <2>1, <2>2, FeatureChangeIsOK
<1>5. ASSUME NEW s \in Sketches, NEW v, doc' = Installed(s, v), UNCHANGED ids
      PROVE  PresentOK
  BY <1>5, <1>k, InstalledSame, SameIsOK DEF Sketches
<1>6. ASSUME NEW s \in Sketches, NEW v \in Recipes, ReplacePayload(s, v)
      PROVE  PresentOK
  BY <1>5, <1>6 DEF ReplacePayload, Edit
<1>7. ASSUME NEW s \in Sketches, FollowVariable(s)
      PROVE  PresentOK
  BY <1>5, <1>7, SameIsOK DEF FollowVariable, Amend
<1>8. ASSUME NEW s \in Sketches, NEW b \in BOOLEAN, AutoHide(s) \/ SetSketchVisible(s, b)
      PROVE  PresentOK
  <2>1. SameObjects(doc, doc')
    <3>1. CASE AutoHide(s)
      <4>1. SameObjects(doc, [doc EXCEPT !.sketches[s].visible = FALSE,
                !.sketches[s].hiddenBy = doc.features[Len(doc.features)].id])
        BY <1>k, SketchVisibilitySame
      <4>2. QED
        BY <3>1, <4>1, Zenon DEF AutoHide
    <3>2. CASE SetSketchVisible(s, b)
      <4>1. SameObjects(doc, [doc EXCEPT !.sketches[s].visible = b, !.sketches[s].hiddenBy = 0])
        BY <1>k, SketchVisibilitySame
      <4>2. QED
        BY <3>2, <4>1, Zenon DEF SetSketchVisible, Edit
    <3>3. QED
      BY <1>8, <3>1, <3>2
  <2>2. QED
    BY <1>8, <2>1, SameIsOK DEF AutoHide, SetSketchVisible
<1>9. ASSUME NEW position \in 0 .. Len(doc.features), SetHistoryPosition(position)
      PROVE  PresentOK
  <2>. DEFINE e == [doc EXCEPT !.cursor = Cursor(doc, position)]
  <2>1. Kept(e, ids)
    BY <1>k, MovedKept
  <2>2. doc' = Reconciled(e) /\ UNCHANGED ids
    BY <1>9 DEF SetHistoryPosition, Edit
  <2>. HIDE DEF e
  <2>3. Kept(doc', ids)
    BY <2>1, <2>2, ReconciledSame, SameObjectsKept DEF Kept
  <2>4. QED
    BY <1>k, <2>2, <2>3 DEF PresentOK, Later, Identities
<1>10. ASSUME NEW v \in Values, SetVariable(v)
       PROVE  PresentOK
  <2>. DEFINE e == [doc EXCEPT !.variable = v]
  <2>1. SameObjects(doc, e) /\ HasFields(e) /\ FeaturesHaveIds(e)
    BY <1>k DEF SameObjects, SameName, HasFields, FeaturesHaveIds
  <2>2. doc' = MarkDirty(e, Readers(doc)) /\ UNCHANGED ids
    BY <1>10 DEF SetVariable, Edit
  <2>. HIDE DEF e
  <2>3. QED
    BY <2>1, <2>2, MarkDirtySame, SameObjectsTransitive, SameIsOK
<1>11. ASSUME AbandonLastEdit \/ Undo \/ Redo
       PROVE  PresentOK
  <2>1. undo # << >> => Last(undo) \in Journaled
    BY <1>j, PoppedElements DEF Journaled, Elements
  <2>2. redo # << >> => Last(redo) \in Journaled
    BY <1>j, PoppedElements DEF Journaled, Elements
  <2>3. UNCHANGED ids /\ (doc' = doc \/ doc' \in Journaled)
    BY <1>11, <2>1, <2>2 DEF AbandonLastEdit, Undo, Redo
  <2>4. QED
    BY <2>3, SameIsOK, BroughtBackIsOK
<1>12. ASSUME NEW t \in rebuild, CommitRebuild(t)
       PROVE  PresentOK
  BY <1>12, <1>k, RebuiltSame, SameIsOK DEF CommitRebuild, Amend
<1>13. ASSUME NEW t \in rebuild, RecordSuccess(t) \/ RecordFailure(t)
       PROVE  PresentOK
  BY <1>13, SameIsOK DEF RecordSuccess, RecordFailure
<1>14. ASSUME NEW id \in Features, BeginRebuild(id)
       PROVE  PresentOK
  BY <1>14, SameIsOK DEF BeginRebuild
<1>15. ASSUME Reopen \/ DropRebuild \/ \E l \in Limits : SetUndoLimit(l)
       PROVE  PresentOK
  BY <1>15, SameIsOK DEF Reopen, DropRebuild, SetUndoLimit
<1>16. QED
  BY <1>1, <1>2, <1>3, <1>4, <1>6, <1>7, <1>8, <1>9, <1>10, <1>11, <1>12, <1>13,
     <1>14, <1>15 DEF Next

-----------------------------------------------------------------------------
(* The theorems.                                                           *)

LEMMA InitIdentities == Init => IdentitiesOK
<1>. SUFFICES ASSUME Init PROVE IdentitiesOK
  OBVIOUS
<1>1. ids \in Identities /\ rebuild = {} /\ doc = EmptyDocument
  BY DEF Init, Identities
<1>2. States = {doc}
  BY <1>1 DEF Init, States, Journaled
<1>3. Kept(doc, ids)
  BY <1>1, EmptyIsSequence DEF Kept, HasFields, FeaturesHaveIds, Spent, SketchesAreDrawn,
     CursorIsRetained, EmptyDocument
<1>4. QED
  BY <1>1, <1>2, <1>3 DEF IdentitiesOK

LEMMA StepIdentities ==
    ASSUME JournalsOK, IdentitiesOK, [Next]_vars
    PROVE  IdentitiesOK'
<1>1. CASE Next
  <2>1. PresentOK
    BY <1>1, PresentStep
  <2>2. Journaled' \subseteq Journaled \union {doc}
    BY <1>1, JournaledStates
  <2>3. PlansHaveBases' /\ Bases' \subseteq Bases \union {doc}
    BY <1>1, PlannedStates DEF IdentitiesOK, PlansHaveBases
  <2>4. States = {doc} \union Journaled \union Bases
    BY DEF States, Bases
  <2>5. States' = {doc'} \union Journaled' \union Bases'
    BY DEF States, Bases
  <2>6. \A d \in States : Kept(d, ids')
    BY <2>1, KeptLater DEF IdentitiesOK, PresentOK
  <2>7. \A d \in States' : Kept(d, ids')
    BY <2>1, <2>2, <2>3, <2>4, <2>5, <2>6 DEF PresentOK
  <2>8. QED
    BY <2>1, <2>3, <2>7 DEF IdentitiesOK, PresentOK, Later, PlansHaveBases
<1>2. CASE UNCHANGED vars
  BY <1>2 DEF vars, IdentitiesOK, States, Journaled
<1>3. QED
  BY <1>1, <1>2

\* Whatever is edited, undone, redone, planned and committed, every state the
\* document may return to names identities the allocator has left behind and
\* draws every sketch by a sketch feature of its own.
THEOREM IdentitiesAreKept == Spec => [](JournalsOK /\ IdentitiesOK)
<1>1. Init => JournalsOK /\ IdentitiesOK
  BY InitJournals, InitIdentities
<1>2. JournalsOK /\ IdentitiesOK /\ [Next]_vars => (JournalsOK /\ IdentitiesOK)'
  BY StepJournals, StepIdentities
<1>3. QED
  BY <1>1, <1>2, PTL DEF Spec

\* IdAllocator never hands out an identity that the document, a journal or a
\* rebuild plan still knows: undo and redo restore content and leave the
\* allocator alone.
THEOREM IdentitiesAreNeverReused == Spec => []IdentitiesAreSpent
<1>1. IdentitiesOK => IdentitiesAreSpent
  BY DEF IdentitiesOK, IdentitiesAreSpent, Kept, Spent, IdsOf
<1>2. QED
  BY <1>1, IdentitiesAreKept, PTL

\* history_position finds the feature the cursor names, in the present and in
\* every state undo, redo or a rebuild can make the present.
THEOREM CursorsNeverDangle == Spec => []CursorsAreRetained
<1>1. IdentitiesOK => CursorsAreRetained
  BY DEF IdentitiesOK, CursorsAreRetained, Kept
<1>2. QED
  BY <1>1, IdentitiesAreKept, PTL

-----------------------------------------------------------------------------
(* What the features say.  Settled is the inductive invariant: the shape   *)
(* of a state, the order of its sketches and their consumers, and what the *)
(* clean features carry.                                                   *)

NodeFields == {"id", "kind", "recipe", "reads", "body", "tool", "sketch", "plane", "makes",
               "draws", "revision", "deps", "suppressed", "dirty", "commit"}

Given(x) == IsSequence(x) /\ x # None

IsResult(c) == \E input, output : c = Commit(input, output) /\ Given(input) /\ Given(output)
CommitOK(c) == c = NoCommit \/ IsResult(c)

TypedFeature(f) ==
  /\ NodeFields \subseteq DOMAIN f
  /\ f.kind \in Kinds /\ f.recipe \in Recipes \union Values \union {0}
  /\ f.reads \in BOOLEAN /\ f.dirty \in BOOLEAN /\ f.suppressed \in BOOLEAN
  /\ CommitOK(f.commit)

TypedState(d) ==
  /\ "variable" \in DOMAIN d /\ d.variable \in Values
  /\ Len(d.features) <= MaxFeatures
  /\ \A i \in DOMAIN d.features : TypedFeature(d.features[i])

HeadsOK(d) ==
  /\ IsSequence(d.head)
  /\ \A b \in DOMAIN d.bodies : /\ {"madeBy", "last", "snapshot"} \subseteq DOMAIN d.bodies[b]
                                /\ IsSequence(d.bodies[b].snapshot)

Distinct(d) ==
  \A i, j \in DOMAIN d.features : d.features[i].id = d.features[j].id => i = j

\* A feature that takes a sketch depends on the earlier feature that draws it.
TakesDrawnSketch(d, i) ==
  LET s == d.features[i].sketch
  IN  s # 0 => /\ s \in DOMAIN d.sketches
               /\ Drawer(d, s) \in d.features[i].deps
               /\ \E j \in 1 .. i - 1 : d.features[j].id = Drawer(d, s)

Fresh(d, f) ==
  (~f.dirty /\ f.commit # NoCommit /\ f.kind \notin DocumentOnly) =>
    \E tool : f.commit.output = Append(f.commit.input, OperationOf(d, f, tool))

Settled(d) ==
  /\ TypedState(d) /\ HeadsOK(d) /\ Distinct(d)
  /\ \A i \in DOMAIN d.features : TakesDrawnSketch(d, i) /\ Fresh(d, d.features[i])

-----------------------------------------------------------------------------
(* Snapshots and results.                                                  *)

LEMMA NoneIsSequence == IsSequence(None) /\ Len(None) = 1 /\ None[1].recipe = -1
<1>. DEFINE op == Operation(-1, -1, -1, Zero)
<1>1. op.recipe = -1
  BY DEF Operation
<1>2. None = <<op>>
  BY DEF None
<1>. HIDE DEF op
<1>3. <<op>> \in Seq({op}) /\ Len(<<op>>) = 1 /\ <<op>>[1] = op
  OBVIOUS
<1>4. QED
  BY <1>1, <1>2, <1>3, SequencesAreSequences

LEMMA EmptyIsGiven == Given(Zero)
<1>1. IsSequence(Zero) /\ Len(Zero) = 0
  BY EmptyIsSequence DEF Zero
<1>2. QED
  BY <1>1, NoneIsSequence DEF Given

LEMMA CommitFields ==
    ASSUME NEW input, NEW output
    PROVE  /\ Commit(input, output).input = input
           /\ Commit(input, output).output = output
BY DEF Commit

LEMMA CommitSequences ==
    ASSUME NEW c, CommitOK(c)
    PROVE  /\ IsSequence(c.input) /\ IsSequence(c.output)
           /\ c # NoCommit => Given(c.input) /\ Given(c.output)
<1>1. CASE c = NoCommit
  BY <1>1, NoneIsSequence, CommitFields DEF NoCommit
<1>2. CASE IsResult(c)
  BY <1>2, CommitFields DEF IsResult, Given
<1>3. QED
  BY <1>1, <1>2 DEF CommitOK

\* An operation is appended to its input and can be read off the end again.
LEMMA AppendedOperation ==
    ASSUME NEW input, IsSequence(input), NEW op
    PROVE  /\ IsSequence(Append(input, op))
           /\ Len(Append(input, op)) = Len(input) + 1
           /\ Append(input, op)[Len(Append(input, op))] = op
<1>. DEFINE S == Elements(input) \union {op}
<1>1. input \in Seq(Elements(input)) /\ Elements(input) \subseteq S /\ op \in S
  BY DEF IsSequence
<1>. HIDE DEF S
<1>2. input \in Seq(S)
  BY <1>1, SeqMonotonic
<1>3. /\ Append(input, op) \in Seq(S) /\ Len(Append(input, op)) = Len(input) + 1
      /\ Append(input, op)[Len(input) + 1] = op
  BY <1>1, <1>2, AppendProperties
<1>4. QED
  BY <1>3, SequencesAreSequences

LEMMA BuiltIsResult ==
    ASSUME NEW d, NEW f, NEW input, NEW tool, Given(input), f.recipe # -1
    PROVE  IsResult(Built(d, f, input, tool))
<1>. DEFINE op == OperationOf(d, f, tool)
            out == IF f.kind \in DocumentOnly THEN input ELSE Append(input, op)
<1>1. Built(d, f, input, tool) = Commit(input, out)
  BY DEF Built
<1>2. op.recipe = f.recipe
  BY DEF OperationOf, Operation
<1>. HIDE DEF op
<1>3. Append(input, op) # None
  <2>1. /\ Len(Append(input, op)) = Len(input) + 1
        /\ Append(input, op)[Len(Append(input, op))] = op
    BY AppendedOperation DEF Given
  <2>2. SUFFICES ASSUME Append(input, op) = None PROVE FALSE
    OBVIOUS
  <2>3. None[1] = op
    BY <2>1, <2>2, NoneIsSequence
  <2>4. QED
    BY <1>2, <2>3, NoneIsSequence
<1>4. Given(out)
  BY <1>3, AppendedOperation DEF Given
<1>. HIDE DEF out
<1>5. QED
  BY <1>1, <1>4 DEF IsResult

LEMMA BuiltIsFresh ==
    ASSUME NEW d, NEW f, NEW input, NEW tool, f.kind \notin DocumentOnly
    PROVE  /\ Built(d, f, input, tool).input = input
           /\ Built(d, f, input, tool).output = Append(input, OperationOf(d, f, tool))
BY CommitFields DEF Built

LEMMA RecipesAreNumbers ==
    \A r \in Recipes \union Values \union {0} : r \in Nat /\ r # -1
BY DocumentAssumption DEF DocumentAssumption

-----------------------------------------------------------------------------
(* The recursive operators, one feature at a time.                         *)

\* What a rebuild from the first n features reaches.
Grown(features, roots, n, reached) ==
  LET f == features[n]
  IN  IF f.id \in roots \/ f.deps \intersect reached # {} THEN reached \union {f.id} ELSE reached

ReachedBy(g, fs, roots) ==
  /\ g \in [0 .. Len(fs) -> SUBSET IdsOf(fs)]
  /\ Downstream(fs, roots) = g[Len(fs)]
  /\ g[0] = {}
  /\ \A n \in 1 .. Len(fs) : g[n] = Grown(fs, roots, n, g[n - 1])

LEMMA DownstreamSteps ==
    ASSUME NEW fs, IsSequence(fs), NEW roots
    PROVE  \E g : ReachedBy(g, fs, roots)
<1>. DEFINE N == Len(fs)
            S == SUBSET IdsOf(fs)
            step == [n \in 1 .. N |-> [r \in S |-> Grown(fs, roots, n, r)]]
            body(g) == [n \in 0 .. N |-> IF n = 0 THEN {} ELSE Grown(fs, roots, n, g[n - 1])]
            reached == CHOOSE g : g = body(g)
<1>1. N \in Nat /\ DOMAIN fs = 1 .. N
  BY LenProperties DEF IsSequence
<1>2. Downstream(fs, roots) = reached[N]
  BY DEF Downstream, Grown
<1>. HIDE DEF N
<1>3. step \in [1 .. N -> [S -> S]]
  <2>1. \A n \in 1 .. N : fs[n].id \in IdsOf(fs)
    BY <1>1 DEF IdsOf
  <2>2. \A n \in 1 .. N, r \in S : Grown(fs, roots, n, r) \in S
    BY <2>1 DEF Grown
  <2>3. QED
    BY <2>2
<1>4. PICK g \in [0 .. N -> S] : Follows(g, N, {}, step)
  <2>1. {} \in S
    OBVIOUS
  <2>. HIDE DEF S, step
  <2>2. QED
    BY <1>1, <1>3, <2>1, PrefixRecursion
<1>5. g = body(g)
  <2>. DEFINE by(n) == IF n = 0 THEN {} ELSE step[n][g[n - 1]]
              with(n) == IF n = 0 THEN {} ELSE Grown(fs, roots, n, g[n - 1])
  <2>1. \A n \in 0 .. N : by(n) = with(n)
    <3>1. \A n \in 1 .. N : n - 1 \in 0 .. N /\ g[n - 1] \in S
      BY <1>1, <1>4
    <3>. HIDE DEF S
    <3>2. \A n \in 1 .. N : step[n][g[n - 1]] = Grown(fs, roots, n, g[n - 1])
      BY <3>1
    <3>3. \A n \in 0 .. N : n = 0 \/ n \in 1 .. N
      BY <1>1
    <3>. HIDE DEF step
    <3>4. QED
      BY <3>2, <3>3
  <2>. HIDE DEF step
  <2>2. g = [n \in 0 .. N |-> by(n)]
    BY <1>4 DEF Follows
  <2>. HIDE DEF by, with
  <2>3. [n \in 0 .. N |-> by(n)] = [n \in 0 .. N |-> with(n)]
    BY ONLY <2>1
  <2>4. g = [n \in 0 .. N |-> with(n)]
    BY ONLY <2>2, <2>3
  <2>5. QED
    BY <2>4 DEF with
<1>6. reached = body(reached)
  BY <1>5
<1>. HIDE DEF reached, step
<1>7. /\ reached[0] = {}
      /\ \A n \in 1 .. N : reached[n] = Grown(fs, roots, n, reached[n - 1])
  <2>. DEFINE with(n) == IF n = 0 THEN {} ELSE Grown(fs, roots, n, reached[n - 1])
  <2>1. reached = [n \in 0 .. N |-> with(n)]
    BY <1>6
  <2>. HIDE DEF with
  <2>2. \A n \in 0 .. N : reached[n] = with(n)
    BY <2>1
  <2>3. 0 \in 0 .. N /\ \A n \in 1 .. N : n \in 0 .. N /\ n # 0
    BY <1>1
  <2>4. QED
    BY <2>2, <2>3 DEF with
<1>8. reached \in [0 .. N -> S]
  <2>. DEFINE G == {n \in 0 .. N : reached[n] \in S}
  <2>1. 0 \in G
    BY <1>1, <1>7
  <2>2. ASSUME NEW n \in 0 .. (N - 1), n \in G PROVE n + 1 \in G
    <3>1. n + 1 \in 1 .. N /\ n + 1 \in 0 .. N /\ (n + 1) - 1 = n
      BY <1>1
    <3>2. reached[n + 1] = Grown(fs, roots, n + 1, reached[n])
      BY <1>7, <3>1
    <3>3. fs[n + 1].id \in IdsOf(fs)
      BY <1>1, <3>1 DEF IdsOf
    <3>4. QED
      BY <2>2, <3>1, <3>2, <3>3 DEF Grown
  <2>. HIDE DEF G
  <2>3. \A n \in 0 .. N : n \in G
    BY <1>1, <2>1, <2>2, PrefixInduction
  <2>4. DOMAIN reached = 0 .. N /\ reached = [n \in 0 .. N |-> reached[n]]
    <3>1. DOMAIN reached = 0 .. N
      BY <1>6
    <3>2. reached = [n \in DOMAIN reached |-> reached[n]]
      BY <1>6
    <3>3. QED
      BY <3>1, <3>2
  <2>. HIDE DEF S
  <2>5. QED
    BY <2>3, <2>4 DEF G
<1>9. QED
  BY <1>2, <1>7, <1>8 DEF N, ReachedBy

LEMMA DownstreamFacts ==
    ASSUME NEW fs, IsSequence(fs), NEW roots
    PROVE  /\ Downstream(fs, roots) \subseteq IdsOf(fs)
           /\ \A i \in DOMAIN fs : fs[i].id \in roots => fs[i].id \in Downstream(fs, roots)
           /\ \A i \in DOMAIN fs : \A j \in 1 .. i - 1 :
                (fs[j].id \in roots /\ fs[j].id \in fs[i].deps) =>
                  fs[i].id \in Downstream(fs, roots)
<1>. DEFINE N == Len(fs)
            reach == Downstream(fs, roots)
<1>1. N \in Nat /\ DOMAIN fs = 1 .. N
  BY LenProperties DEF IsSequence
<1>a. PICK g : ReachedBy(g, fs, roots)
  BY DownstreamSteps
<1>2. /\ g \in [0 .. N -> SUBSET IdsOf(fs)]
      /\ reach = g[N] /\ g[0] = {}
      /\ \A n \in 1 .. N : g[n] = Grown(fs, roots, n, g[n - 1])
  BY <1>a DEF ReachedBy
<1>. HIDE DEF N, reach
<1>3. reach \subseteq IdsOf(fs)
  BY <1>1, <1>2
<1>4. \A n \in 0 .. N : \A m \in 0 .. n : g[m] \subseteq g[n]
  <2>. DEFINE G == {n \in 0 .. N : \A m \in 0 .. n : g[m] \subseteq g[n]}
  <2>1. 0 \in G
    BY <1>1
  <2>2. ASSUME NEW n \in 0 .. (N - 1), n \in G PROVE n + 1 \in G
    <3>1. n + 1 \in 1 .. N /\ n + 1 \in 0 .. N /\ (n + 1) - 1 = n
      BY <1>1
    <3>2. g[n] \subseteq g[n + 1]
      <4>1. g[n + 1] = Grown(fs, roots, n + 1, g[n])
        BY <1>2, <3>1
      <4>2. QED
        BY <4>1 DEF Grown
    <3>3. \A m \in 0 .. n + 1 : m \in 0 .. n \/ m = n + 1
      BY <3>1
    <3>4. \A m \in 0 .. n + 1 : g[m] \subseteq g[n + 1]
      BY <2>2, <3>2, <3>3
    <3>5. QED
      BY <3>1, <3>4
  <2>. HIDE DEF G
  <2>3. \A n \in 0 .. N : n \in G
    BY <1>1, <2>1, <2>2, PrefixInduction
  <2>4. QED
    BY <2>3 DEF G
<1>5. ASSUME NEW i \in 1 .. N, fs[i].id \in roots \/ fs[i].deps \intersect g[i - 1] # {}
      PROVE  fs[i].id \in g[i] /\ fs[i].id \in reach
  <2>1. g[i] = Grown(fs, roots, i, g[i - 1])
    BY <1>2
  <2>2. fs[i].id \in g[i]
    BY <1>5, <2>1 DEF Grown
  <2>3. g[i] \subseteq g[N]
    BY <1>1, <1>4
  <2>4. QED
    BY <1>2, <2>2, <2>3
<1>6. ASSUME NEW i \in 1 .. N, NEW j \in 1 .. i - 1,
             fs[j].id \in roots, fs[j].id \in fs[i].deps
      PROVE  fs[i].id \in reach
  <2>1. j \in 1 .. N /\ i - 1 \in 0 .. N /\ j \in 0 .. i - 1
    BY <1>1
  <2>2. fs[j].id \in g[j]
    BY <1>5, <1>6, <2>1
  <2>3. g[j] \subseteq g[i - 1]
    BY <1>4, <2>1
  <2>4. fs[i].deps \intersect g[i - 1] # {}
    BY <1>6, <2>2, <2>3
  <2>5. QED
    BY <1>5, <2>4
<1>7. QED
  BY <1>1, <1>3, <1>5, <1>6 DEF reach

\* The members of a set among the first n features.
Listed(features, set, n, kept) ==
  LET id == features[n].id
  IN  IF id \in set THEN Append(kept, id) ELSE kept

ListedBy(g, d, set) ==
  /\ g \in [0 .. Len(d.features) -> Seq(set)]
  /\ InOrder(d, set) = g[Len(d.features)]
  /\ g[0] = << >>
  /\ \A n \in 1 .. Len(d.features) : g[n] = Listed(d.features, set, n, g[n - 1])

LEMMA InOrderSteps ==
    ASSUME NEW d, IsSequence(d.features), NEW set
    PROVE  \E g : ListedBy(g, d, set)
<1>. DEFINE fs == d.features
            N == Len(fs)
            S == Seq(set)
            step == [n \in 1 .. N |-> [r \in S |-> Listed(fs, set, n, r)]]
            body(g) == [n \in 0 .. N |-> IF n = 0 THEN << >> ELSE Listed(fs, set, n, g[n - 1])]
            kept == CHOOSE g : g = body(g)
<1>1. N \in Nat /\ << >> \in S
  BY LenProperties, EmptySeq DEF IsSequence
<1>2. InOrder(d, set) = kept[N]
  BY DEF InOrder, Listed
<1>. HIDE DEF N, fs
<1>3. step \in [1 .. N -> [S -> S]]
  <2>1. ASSUME NEW n \in 1 .. N, NEW r \in S PROVE Listed(fs, set, n, r) \in S
    BY AppendProperties DEF Listed
  <2>. HIDE DEF S
  <2>2. QED
    BY <2>1
<1>. HIDE DEF S
<1>4. PICK g \in [0 .. N -> S] : Follows(g, N, << >>, step)
  <2>. HIDE DEF step
  <2>1. QED
    BY <1>1, <1>3, PrefixRecursion
<1>5. g = body(g)
  <2>. DEFINE by(n) == IF n = 0 THEN << >> ELSE step[n][g[n - 1]]
              with(n) == IF n = 0 THEN << >> ELSE Listed(fs, set, n, g[n - 1])
  <2>1. \A n \in 0 .. N : by(n) = with(n)
    <3>1. \A n \in 1 .. N : n - 1 \in 0 .. N /\ g[n - 1] \in S
      BY <1>1, <1>4
    <3>2. \A n \in 1 .. N : step[n][g[n - 1]] = Listed(fs, set, n, g[n - 1])
      BY <3>1
    <3>3. \A n \in 0 .. N : n = 0 \/ n \in 1 .. N
      BY <1>1
    <3>. HIDE DEF step
    <3>4. QED
      BY <3>2, <3>3
  <2>. HIDE DEF step
  <2>2. g = [n \in 0 .. N |-> by(n)]
    BY <1>4 DEF Follows
  <2>. HIDE DEF by, with
  <2>3. [n \in 0 .. N |-> by(n)] = [n \in 0 .. N |-> with(n)]
    BY ONLY <2>1
  <2>4. g = [n \in 0 .. N |-> with(n)]
    BY ONLY <2>2, <2>3
  <2>5. QED
    BY <2>4 DEF with
<1>6. kept = body(kept)
  BY <1>5
<1>. HIDE DEF kept, step
<1>7. /\ kept[0] = << >>
      /\ \A n \in 1 .. N : kept[n] = Listed(fs, set, n, kept[n - 1])
  <2>. DEFINE with(n) == IF n = 0 THEN << >> ELSE Listed(fs, set, n, kept[n - 1])
  <2>1. kept = [n \in 0 .. N |-> with(n)]
    BY <1>6
  <2>. HIDE DEF with
  <2>2. \A n \in 0 .. N : kept[n] = with(n)
    BY <2>1
  <2>3. 0 \in 0 .. N /\ \A n \in 1 .. N : n \in 0 .. N /\ n # 0
    BY <1>1
  <2>4. QED
    BY <2>2, <2>3 DEF with
<1>8. kept \in [0 .. N -> S]
  <2>. DEFINE G == {n \in 0 .. N : kept[n] \in S}
  <2>1. 0 \in G
    BY <1>1, <1>7
  <2>2. ASSUME NEW n \in 0 .. (N - 1), n \in G PROVE n + 1 \in G
    <3>1. n + 1 \in 1 .. N /\ n + 1 \in 0 .. N /\ (n + 1) - 1 = n
      BY <1>1
    <3>2. kept[n + 1] = Listed(fs, set, n + 1, kept[n])
      BY <1>7, <3>1
    <3>3. Listed(fs, set, n + 1, kept[n]) \in S
      BY <2>2, AppendProperties DEF Listed, S
    <3>4. QED
      BY <3>1, <3>2, <3>3
  <2>. HIDE DEF G
  <2>3. \A n \in 0 .. N : n \in G
    BY <1>1, <2>1, <2>2, PrefixInduction
  <2>4. DOMAIN kept = 0 .. N /\ kept = [n \in 0 .. N |-> kept[n]]
    <3>1. DOMAIN kept = 0 .. N
      BY <1>6
    <3>2. kept = [n \in DOMAIN kept |-> kept[n]]
      BY <1>6
    <3>3. QED
      BY <3>1, <3>2
  <2>5. QED
    BY <2>3, <2>4 DEF G
<1>9. QED
  BY <1>2, <1>7, <1>8 DEF N, S, fs, ListedBy

LEMMA InOrderFacts ==
    ASSUME NEW d, IsSequence(d.features), NEW set
    PROVE  /\ InOrder(d, set) \in Seq(set)
           /\ \A id \in set \intersect IdsOf(d.features) :
                \E k \in DOMAIN InOrder(d, set) : InOrder(d, set)[k] = id
<1>. DEFINE fs == d.features
            N == Len(fs)
            listed == InOrder(d, set)
<1>1. N \in Nat /\ DOMAIN fs = 1 .. N
  BY LenProperties DEF IsSequence
<1>2. PICK g : ListedBy(g, d, set)
  BY InOrderSteps
<1>3. /\ \A n \in 0 .. N : g[n] \in Seq(set)
      /\ listed = g[N] /\ g[0] = << >>
      /\ \A n \in 1 .. N : g[n] = Listed(fs, set, n, g[n - 1])
  BY <1>2 DEF ListedBy
<1>. HIDE DEF N, fs, listed
<1>. DEFINE Has(n, i) == \E k \in DOMAIN g[n] : g[n][k] = fs[i].id
            G == {n \in 0 .. N : \A i \in 1 .. n : fs[i].id \in set => Has(n, i)}
<1>4. 0 \in G
  BY <1>1
<1>5. ASSUME NEW n \in 0 .. (N - 1), n \in G PROVE n + 1 \in G
  <2>1. n + 1 \in 1 .. N /\ n + 1 \in 0 .. N /\ (n + 1) - 1 = n /\ n \in 0 .. N
    BY <1>1
  <2>2. g[n + 1] = Listed(fs, set, n + 1, g[n])
    BY <1>3, <2>1
  <2>3. g[n] \in Seq(set)
    BY <1>3, <2>1
  <2>4. /\ \A k \in DOMAIN g[n] : k \in DOMAIN g[n + 1] /\ g[n + 1][k] = g[n][k]
        /\ fs[n + 1].id \in set => Has(n + 1, n + 1)
    <3>1. CASE fs[n + 1].id \in set
      <4>1. g[n + 1] = Append(g[n], fs[n + 1].id)
        BY <2>2, <3>1 DEF Listed
      <4>2. /\ DOMAIN g[n] = 1 .. Len(g[n]) /\ Len(g[n]) \in Nat
            /\ g[n + 1] \in Seq(set) /\ Len(g[n + 1]) = Len(g[n]) + 1
            /\ \A k \in 1 .. Len(g[n]) : g[n + 1][k] = g[n][k]
            /\ g[n + 1][Len(g[n]) + 1] = fs[n + 1].id
        <5>. DEFINE r == g[n]
                    x == fs[n + 1].id
        <5>1. r \in Seq(set) /\ x \in set
          BY <2>3, <3>1
        <5>. HIDE DEF r, x
        <5>2. /\ DOMAIN r = 1 .. Len(r) /\ Len(r) \in Nat
              /\ Append(r, x) \in Seq(set) /\ Len(Append(r, x)) = Len(r) + 1
              /\ \A k \in 1 .. Len(r) : Append(r, x)[k] = r[k]
              /\ Append(r, x)[Len(r) + 1] = x
          BY <5>1, AppendProperties, LenProperties
        <5>3. g[n + 1] = Append(r, x)
          BY <4>1 DEF r, x
        <5>4. QED
          BY <5>2, <5>3 DEF r, x
      <4>3. DOMAIN g[n + 1] = 1 .. Len(g[n]) + 1
        BY <4>2, LenProperties
      <4>4. QED
        BY <4>2, <4>3
    <3>2. CASE fs[n + 1].id \notin set
      BY <2>2, <3>2 DEF Listed
    <3>3. QED
      BY <3>1, <3>2
  <2>5. ASSUME NEW i \in 1 .. n + 1, fs[i].id \in set PROVE Has(n + 1, i)
    <3>1. CASE i = n + 1
      BY <2>4, <2>5, <3>1
    <3>2. CASE i # n + 1
      <4>1. i \in 1 .. n
        BY <2>1, <3>2
      <4>2. Has(n, i)
        BY <1>5, <2>5, <4>1
      <4>3. QED
        BY <2>4, <4>2
    <3>3. QED
      BY <3>1, <3>2
  <2>. HIDE DEF Has
  <2>6. QED
    BY <2>1, <2>5
<1>. HIDE DEF G, Has
<1>6. \A n \in 0 .. N : n \in G
  BY <1>1, <1>4, <1>5, PrefixInduction
<1>7. ASSUME NEW i \in 1 .. N, fs[i].id \in set PROVE Has(N, i)
  BY <1>1, <1>6, <1>7 DEF G
<1>8. listed \in Seq(set)
  BY <1>1, <1>3
<1>9. ASSUME NEW id \in set \intersect IdsOf(fs)
      PROVE  \E k \in DOMAIN listed : listed[k] = id
  <2>1. PICK i \in 1 .. N : fs[i].id = id
    BY <1>1 DEF IdsOf
  <2>2. Has(N, i)
    BY <1>7, <2>1
  <2>3. QED
    BY <1>3, <2>1, <2>2 DEF Has
<1>10. QED
  BY <1>8, <1>9 DEF listed, fs

\* What a feature of the timeline can leave on the bodies and sketches.
Outputs(d) == {None} \union { d.features[i].commit.output : i \in DOMAIN d.features }
DrawnRevisions(d) == {0} \union { d.features[i].revision : i \in DOMAIN d.features }
HeadStates(d) ==
  [bodies   : [DOMAIN d.bodies -> Outputs(d)],
   sketches : [DOMAIN d.sketches -> [snapshot : Outputs(d), revision : DrawnRevisions(d)]],
   head     : Outputs(d)]

LEMMA AbsorbTyped ==
    ASSUME NEW d, NEW heads \in HeadStates(d), NEW i \in DOMAIN d.features
    PROVE  Absorb(d, heads, d.features[i]) \in HeadStates(d)
<1>. DEFINE f == d.features[i]
            Snap == Outputs(d)
            Rev == DrawnRevisions(d)
            Drawn == [snapshot : Snap, revision : Rev]
            built == f.commit # NoCommit /\ Attached(d, f, heads)
            new == [snapshot |-> f.commit.output, revision |-> f.revision]
            drawn == IF built /\ f.draws # 0
                     THEN [heads.sketches EXCEPT ![f.draws] = new] ELSE heads.sketches
            marked == IF f.dirty /\ f.draws # 0
                      THEN [drawn EXCEPT ![f.draws].revision = f.revision] ELSE drawn
            bodies == [b \in DOMAIN heads.bodies |->
                         IF built /\ b \in Branches(d, f) THEN f.commit.output
                                                          ELSE heads.bodies[b]]
            head == IF built THEN f.commit.output ELSE heads.head
<1>1. f.commit.output \in Snap /\ f.revision \in Rev
  BY DEF Outputs, DrawnRevisions
<1>2. /\ heads.bodies \in [DOMAIN d.bodies -> Snap]
      /\ heads.sketches \in [DOMAIN d.sketches -> Drawn]
      /\ heads.head \in Snap
  BY DEF HeadStates
<1>3. Absorb(d, heads, f) = [bodies |-> bodies, sketches |-> marked, head |-> head]
  BY DEF Absorb
<1>. HIDE DEF f, Snap, Rev, built
<1>4. new \in Drawn
  BY <1>1
<1>. HIDE DEF new
<1>5. drawn \in [DOMAIN d.sketches -> Drawn]
  <2>. HIDE DEF Drawn
  <2>1. QED
    BY <1>2, <1>4
<1>. HIDE DEF drawn
<1>6. marked \in [DOMAIN d.sketches -> Drawn]
  <2>1. \A s \in DOMAIN d.sketches : [drawn[s] EXCEPT !.revision = f.revision] \in Drawn
    BY <1>1, <1>5
  <2>. HIDE DEF Drawn
  <2>2. QED
    BY <1>5, <2>1
<1>7. bodies \in [DOMAIN d.bodies -> Snap] /\ head \in Snap
  BY <1>1, <1>2
<1>. HIDE DEF Drawn, bodies, marked, head
<1>8. [bodies |-> bodies, sketches |-> marked, head |-> head] \in
        [bodies : [DOMAIN d.bodies -> Snap], sketches : [DOMAIN d.sketches -> Drawn], head : Snap]
  BY <1>6, <1>7
<1>9. QED
  BY <1>3, <1>8 DEF HeadStates, Snap, Rev, Drawn, f

LEMMA BlankTyped ==
    ASSUME NEW d
    PROVE  Blank(d) \in HeadStates(d)
<1>. DEFINE Snap == Outputs(d)
            Rev == DrawnRevisions(d)
            new == [snapshot |-> None, revision |-> 0]
            bodies == [b \in DOMAIN d.bodies |-> None]
            sketches == [s \in DOMAIN d.sketches |-> new]
            Drawn == [snapshot : Snap, revision : Rev]
<1>1. None \in Snap /\ 0 \in Rev
  BY DEF Outputs, DrawnRevisions
<1>2. Blank(d) = [bodies |-> bodies, sketches |-> sketches,
                  head |-> IF DOMAIN d.bodies = {} THEN None ELSE None]
  BY DEF Blank
<1>. HIDE DEF Snap, Rev
<1>3. new \in Drawn
  BY <1>1
<1>. HIDE DEF new, Drawn
<1>4. sketches \in [DOMAIN d.sketches -> Drawn] /\ bodies \in [DOMAIN d.bodies -> Snap]
  BY <1>1, <1>3
<1>. HIDE DEF sketches, bodies
<1>5. QED
  BY <1>1, <1>2, <1>4 DEF HeadStates, Snap, Rev, Drawn

\* The features of the active prefix are absorbed one after the other.
LEMMA HeadsSteps ==
    ASSUME NEW d, IsSequence(d.features), NEW N \in 0 .. Len(d.features)
    PROVE  \E after : /\ after[0] = Blank(d) /\ after[N] = Heads(d, N)
                      /\ \A n \in 0 .. N : after[n] \in HeadStates(d)
                      /\ \A n \in 1 .. N : after[n] = Absorb(d, after[n - 1], d.features[n])
<1>. DEFINE fs == d.features
            S == HeadStates(d)
            base == Blank(d)
            absorb(n, r) == Absorb(d, r, fs[n])
            step == [n \in 1 .. N |-> [r \in S |-> absorb(n, r)]]
            body(g) == [n \in 0 .. N |-> IF n = 0 THEN base ELSE absorb(n, g[n - 1])]
            after == CHOOSE g : g = body(g)
<1>1. N \in Nat /\ 1 .. N \subseteq DOMAIN fs /\ base \in S
  BY LenProperties, BlankTyped DEF IsSequence
<1>2. Heads(d, N) = after[N]
  BY DEF Heads
<1>a. \A n \in 1 .. N, r \in S : absorb(n, r) \in S
  BY <1>1, AbsorbTyped
<1>. HIDE DEF S, base, fs, absorb
<1>3. step \in [1 .. N -> [S -> S]]
  BY <1>a
<1>4. PICK g \in [0 .. N -> S] : Follows(g, N, base, step)
  <2>. HIDE DEF step
  <2>1. QED
    BY <1>1, <1>3, PrefixRecursion
<1>5. g = body(g)
  <2>. DEFINE by(n) == IF n = 0 THEN base ELSE step[n][g[n - 1]]
              with(n) == IF n = 0 THEN base ELSE absorb(n, g[n - 1])
  <2>1. \A n \in 0 .. N : by(n) = with(n)
    <3>1. \A n \in 1 .. N : n - 1 \in 0 .. N /\ g[n - 1] \in S
      BY <1>1, <1>4
    <3>2. \A n \in 1 .. N : step[n][g[n - 1]] = absorb(n, g[n - 1])
      BY <3>1
    <3>3. \A n \in 0 .. N : n = 0 \/ n \in 1 .. N
      BY <1>1
    <3>. HIDE DEF step
    <3>4. QED
      BY <3>2, <3>3
  <2>. HIDE DEF step
  <2>2. g = [n \in 0 .. N |-> by(n)]
    BY <1>4 DEF Follows
  <2>. HIDE DEF by, with
  <2>3. [n \in 0 .. N |-> by(n)] = [n \in 0 .. N |-> with(n)]
    BY ONLY <2>1
  <2>4. g = [n \in 0 .. N |-> with(n)]
    BY ONLY <2>2, <2>3
  <2>5. QED
    BY <2>4 DEF with
<1>6. after = body(after)
  BY <1>5
<1>. HIDE DEF after, step
<1>7. /\ after[0] = base
      /\ \A n \in 1 .. N : after[n] = absorb(n, after[n - 1])
  <2>. DEFINE with(n) == IF n = 0 THEN base ELSE absorb(n, after[n - 1])
  <2>1. after = [n \in 0 .. N |-> with(n)]
    BY <1>6
  <2>. HIDE DEF with
  <2>2. \A n \in 0 .. N : after[n] = with(n)
    BY <2>1
  <2>3. 0 \in 0 .. N /\ \A n \in 1 .. N : n \in 0 .. N /\ n # 0
    BY <1>1
  <2>4. QED
    BY <2>2, <2>3 DEF with
<1>8. \A n \in 0 .. N : after[n] \in S
  <2>. DEFINE G == {n \in 0 .. N : after[n] \in S}
  <2>1. 0 \in G
    BY <1>1, <1>7
  <2>2. ASSUME NEW n \in 0 .. (N - 1), n \in G PROVE n + 1 \in G
    <3>1. n + 1 \in 1 .. N /\ n + 1 \in 0 .. N /\ (n + 1) - 1 = n
      BY <1>1
    <3>2. after[n + 1] = absorb(n + 1, after[n])
      BY <1>7, <3>1
    <3>3. QED
      BY <1>a, <2>2, <3>1, <3>2
  <2>. HIDE DEF G
  <2>3. \A n \in 0 .. N : n \in G
    BY <1>1, <2>1, <2>2, PrefixInduction, Zenon
  <2>4. QED
    BY <2>3 DEF G
<1>9. QED
  BY <1>2, <1>7, <1>8 DEF S, base, fs, absorb

LEMMA HeadsTyped ==
    ASSUME NEW d, IsSequence(d.features), NEW N \in 0 .. Len(d.features)
    PROVE  Heads(d, N) \in HeadStates(d)
<1>1. N \in 0 .. N
  BY LenProperties DEF IsSequence
<1>2. QED
  BY <1>1, HeadsSteps

LEMMA PositionInTimeline ==
    ASSUME NEW d, IsSequence(d.features)
    PROVE  Position(d) \in 0 .. Len(d.features)
<1>. DEFINE n == Len(d.features)
            T == { i \in DOMAIN d.features : \E j \in i .. Len(d.features) : d.features[j].id = d.cursor }
<1>1. n \in Nat /\ DOMAIN d.features = 1 .. n
  BY LenProperties DEF IsSequence
<1>2. Position(d) = IF d.cursor = End THEN n ELSE Cardinality(T)
  BY DEF Position
<1>. HIDE DEF n
<1>3. T \subseteq 1 .. n
  BY <1>1
<1>. HIDE DEF T
<1>4. IsFiniteSet(1 .. n) /\ Cardinality(1 .. n) = n
  <2>1. 1 \in Int /\ n \in Int /\ n - 1 + 1 = n /\ (1 > n => n = 0)
    BY <1>1
  <2>2. IsFiniteSet(1 .. n) /\ Cardinality(1 .. n) = IF 1 > n THEN 0 ELSE n - 1 + 1
    BY <2>1, FS_Interval
  <2>3. QED
    BY <2>1, <2>2
<1>5. Cardinality(T) \in Nat /\ Cardinality(T) <= n
  BY <1>3, <1>4, FS_Subset, FS_CardinalityType
<1>6. QED
  BY <1>1, <1>2, <1>5 DEF n

-----------------------------------------------------------------------------
(* Where features are found, and what an operation is made of.             *)

LEMMA FeatureAt ==
    ASSUME NEW d, Distinct(d), NEW i \in DOMAIN d.features
    PROVE  /\ IndexOf(d.features, d.features[i].id) = i
           /\ FeatureOf(d, d.features[i].id) = d.features[i]
<1>1. d.features[i].id \in IdsOf(d.features)
  BY DEF IdsOf
<1>2. IndexOf(d.features, d.features[i].id) = i
  BY <1>1, FoundFeature DEF Distinct
<1>3. QED
  BY <1>2 DEF FeatureOf

LEMMA FeatureFound ==
    ASSUME NEW d, NEW id \in IdsOf(d.features)
    PROVE  \E i \in DOMAIN d.features : FeatureOf(d, id) = d.features[i] /\ d.features[i].id = id
BY FoundFeature DEF FeatureOf

\* The feature that draws the sketch feature i takes.
DrawnAt(d, i, j) ==
  /\ d.features[i].sketch # 0
  /\ j \in 1 .. i - 1 /\ j \in DOMAIN d.features
  /\ d.features[j].id = Drawer(d, d.features[i].sketch)
  /\ d.features[j].id \in d.features[i].deps
  /\ FeatureOf(d, Drawer(d, d.features[i].sketch)) = d.features[j]

LEMMA DrawerBefore ==
    ASSUME NEW d, IsSequence(d.features), Distinct(d), NEW i \in DOMAIN d.features,
           TakesDrawnSketch(d, i), d.features[i].sketch # 0
    PROVE  \E j : DrawnAt(d, i, j)
<1>. DEFINE fs == d.features
            id == Drawer(d, fs[i].sketch)
<1>1. id \in fs[i].deps /\ \E j \in 1 .. i - 1 : fs[j].id = id
  BY DEF TakesDrawnSketch
<1>2. PICK j \in 1 .. i - 1 : fs[j].id = id
  BY <1>1
<1>3. DOMAIN fs = 1 .. Len(fs) /\ Len(fs) \in Nat
  BY LenProperties DEF IsSequence
<1>4. j \in DOMAIN fs
  BY <1>3
<1>5. FeatureOf(d, fs[j].id) = fs[j]
  BY <1>4, FeatureAt
<1>6. QED
  BY <1>1, <1>2, <1>4, <1>5 DEF DrawnAt

-----------------------------------------------------------------------------
(* What the operations do to a settled state.                              *)

\* Nothing that a result is made of changes.
LEMMA UndisturbedSettled ==
    ASSUME NEW d, NEW e, Settled(d), HeadsOK(e), FeaturesHaveIds(d), SameObjects(d, e),
           e.features = d.features, "variable" \in DOMAIN e, e.variable = d.variable
    PROVE  Settled(e)
<1>. DEFINE fs == d.features
<1>1. TypedState(e) /\ Distinct(e)
  BY DEF Settled, TypedState, Distinct
<1>2. \A s \in DOMAIN d.sketches : Drawer(e, s) = Drawer(d, s)
  BY DEF SameObjects, Drawer
<1>3. ASSUME NEW i \in DOMAIN fs
      PROVE  TakesDrawnSketch(e, i) /\ Fresh(e, fs[i])
  <2>1. TakesDrawnSketch(d, i) /\ Fresh(d, fs[i])
    BY DEF Settled
  <2>2. TakesDrawnSketch(e, i)
    BY <1>2, <2>1 DEF TakesDrawnSketch, SameObjects
  <2>3. fs[i].sketch # 0 => Drawer(e, fs[i].sketch) = Drawer(d, fs[i].sketch)
    BY <1>2, <2>1 DEF TakesDrawnSketch
  <2>4. \A id : FeatureOf(e, id) = FeatureOf(d, id)
    BY DEF FeatureOf
  <2>5. \A tool : OperationOf(e, fs[i], tool) = OperationOf(d, fs[i], tool)
    BY <2>3, <2>4 DEF OperationOf
  <2>6. Fresh(e, fs[i])
    BY <2>1, <2>5 DEF Fresh
  <2>7. QED
    BY <2>2, <2>6
<1>4. QED
  BY <1>1, <1>3 DEF Settled

\* A feature keeps its place in the timeline and what it depends on.
Placed(f, g) == SameName(f, g) /\ g.sketch = f.sketch /\ g.deps = f.deps

\* A feature is at most marked dirty.
OnlyMarked(f, g) ==
  /\ DOMAIN g = DOMAIN f
  /\ g.id = f.id /\ g.kind = f.kind /\ g.recipe = f.recipe /\ g.reads = f.reads
  /\ g.sketch = f.sketch /\ g.deps = f.deps /\ g.suppressed = f.suppressed
  /\ g.commit = f.commit
  /\ g.dirty = f.dirty \/ g.dirty = TRUE

LEMMA MarkedFeature ==
    ASSUME NEW e, NEW roots, HasFields(e), NEW i \in DOMAIN e.features,
           NodeFields \subseteq DOMAIN e.features[i]
    PROVE  LET impacted == Downstream(e.features, roots \intersect IdsOf(e.features))
               f == e.features[i]
               g == MarkDirty(e, roots).features[i]
           IN  /\ f.id \notin impacted => g = f
               /\ f.id \in impacted => g.dirty = TRUE
               /\ OnlyMarked(f, g)
<1>. DEFINE impacted == Downstream(e.features, roots \intersect IdsOf(e.features))
            f == e.features[i]
            g == MarkDirty(e, roots).features[i]
<1>1. g = IF f.id \in impacted THEN [f EXCEPT !.dirty = TRUE] ELSE f
  BY DEF MarkDirty, HasFields
<1>. HIDE DEF impacted, f, g
<1>2. NodeFields \subseteq DOMAIN f
  BY DEF f
<1>3. /\ f.id \notin impacted => g = f
      /\ f.id \in impacted => g.dirty = TRUE
      /\ OnlyMarked(f, g)
  BY <1>1, <1>2 DEF NodeFields, OnlyMarked
<1>4. QED
  BY <1>3 DEF impacted, f, g

LEMMA SameLength ==
    ASSUME NEW d, NEW e, FeaturesHaveIds(d), SameObjects(d, e)
    PROVE  Len(e.features) = Len(d.features)
<1>1. /\ DOMAIN d.features = 1 .. Len(d.features) /\ Len(d.features) \in Nat
      /\ DOMAIN e.features = 1 .. Len(e.features) /\ Len(e.features) \in Nat
  BY LenProperties DEF FeaturesHaveIds, SameObjects, IsSequence
<1>2. 1 .. Len(d.features) = 1 .. Len(e.features)
  BY <1>1 DEF SameObjects
<1>3. QED
  BY <1>1, <1>2

\* The same objects in the same places: the order of the timeline stays.
LEMMA OrderStays ==
    ASSUME NEW d, NEW e, Settled(d), FeaturesHaveIds(d), SameObjects(d, e),
           \A i \in DOMAIN d.features : Placed(d.features[i], e.features[i])
    PROVE  /\ Distinct(e)
           /\ \A i \in DOMAIN d.features : TakesDrawnSketch(e, i)
           /\ \A i \in DOMAIN d.features : \A j :
                DrawnAt(d, i, j) => FeatureOf(e, Drawer(e, d.features[i].sketch)) = e.features[j]
<1>. DEFINE fs == d.features
            gs == e.features
<1>1. /\ DOMAIN gs = DOMAIN fs
      /\ \A i \in DOMAIN fs : gs[i].id = fs[i].id /\ gs[i].sketch = fs[i].sketch
                              /\ gs[i].deps = fs[i].deps
  BY DEF SameObjects, Placed, SameName
<1>2. Distinct(e)
  BY <1>1 DEF Settled, Distinct
<1>3. \A s \in DOMAIN d.sketches : Drawer(e, s) = Drawer(d, s)
  BY DEF SameObjects, Drawer
<1>4. DOMAIN fs = 1 .. Len(fs) /\ Len(fs) \in Nat
  BY LenProperties DEF FeaturesHaveIds, IsSequence
<1>5. ASSUME NEW i \in DOMAIN fs
      PROVE  TakesDrawnSketch(e, i)
  <2>1. TakesDrawnSketch(d, i)
    BY DEF Settled
  <2>2. SUFFICES ASSUME gs[i].sketch # 0
                 PROVE  LET s == gs[i].sketch
                        IN  /\ s \in DOMAIN e.sketches
                            /\ Drawer(e, s) \in gs[i].deps
                            /\ \E j \in 1 .. i - 1 : gs[j].id = Drawer(e, s)
    BY DEF TakesDrawnSketch
  <2>. DEFINE s == fs[i].sketch
  <2>3. /\ s \in DOMAIN d.sketches /\ Drawer(d, s) \in fs[i].deps
        /\ \E j \in 1 .. i - 1 : fs[j].id = Drawer(d, s)
    BY <1>1, <2>1, <2>2 DEF TakesDrawnSketch
  <2>4. PICK j \in 1 .. i - 1 : fs[j].id = Drawer(d, s)
    BY <2>3
  <2>5. j \in DOMAIN fs
    BY <1>4
  <2>6. gs[j].id = Drawer(e, s)
    BY <1>1, <1>3, <2>3, <2>4, <2>5
  <2>7. s \in DOMAIN e.sketches /\ Drawer(e, s) \in gs[i].deps
    BY <1>1, <1>3, <2>3 DEF SameObjects
  <2>8. s = gs[i].sketch
    BY <1>1
  <2>. HIDE DEF s
  <2>9. QED
    BY <2>6, <2>7, <2>8
<1>6. ASSUME NEW i \in DOMAIN fs, NEW j, DrawnAt(d, i, j)
      PROVE  FeatureOf(e, Drawer(e, fs[i].sketch)) = gs[j]
  <2>. DEFINE s == fs[i].sketch
  <2>1. j \in DOMAIN fs /\ fs[j].id = Drawer(d, s)
    BY <1>6 DEF DrawnAt
  <2>2. Drawer(e, s) = Drawer(d, s)
    <3>1. s \in DOMAIN d.sketches
      BY <1>6 DEF Settled, TakesDrawnSketch, DrawnAt
    <3>2. QED
      BY <1>3, <3>1
  <2>3. FeatureOf(e, gs[j].id) = gs[j]
    BY <1>1, <1>2, <2>1, FeatureAt
  <2>4. QED
    BY <1>1, <2>1, <2>2, <2>3
<1>7. QED
  BY <1>1, <1>2, <1>5, <1>6

MarkDirtyKeeps(e, m) ==
  /\ DOMAIN m = DOMAIN e /\ m.bodies = e.bodies /\ m.sketches = e.sketches
  /\ m.head = e.head /\ ("variable" \in DOMAIN e => m.variable = e.variable)

LEMMA MarkedRest ==
    ASSUME NEW e, NEW roots, HasFields(e)
    PROVE  MarkDirtyKeeps(e, MarkDirty(e, roots))
BY DEF MarkDirty, HasFields, MarkDirtyKeeps

\* Features change, and everything that reads what changed is marked.
LEMMA MarkedSettled ==
    ASSUME NEW d, NEW e, NEW roots, Settled(d), FeaturesHaveIds(d),
           HasFields(e), SameObjects(d, e), HeadsOK(e),
           "variable" \in DOMAIN e, e.variable \in Values,
           \A i \in DOMAIN d.features :
             /\ Placed(d.features[i], e.features[i]) /\ TypedFeature(e.features[i])
             /\ d.features[i].id \notin roots => e.features[i] = d.features[i],
           e.variable = d.variable \/ Readers(d) \subseteq roots
    PROVE  Settled(MarkDirty(e, roots))
<1>. DEFINE fs == d.features
            hs == e.features
            m == MarkDirty(e, roots)
            gs == m.features
            marked == roots \intersect IdsOf(hs)
            impacted == Downstream(hs, marked)
<1>1. FeaturesHaveIds(e) /\ DOMAIN hs = DOMAIN fs /\ IsSequence(hs)
  BY DEF SameObjects, SameName, FeaturesHaveIds
<1>2. SameObjects(e, m) /\ SameObjects(d, m)
  BY <1>1, MarkDirtySame, SameObjectsTransitive
<1>3. MarkDirtyKeeps(e, m)
  BY MarkedRest
<1>4. ASSUME NEW i \in DOMAIN fs
      PROVE  /\ hs[i].id \notin impacted => gs[i] = hs[i]
             /\ hs[i].id \in impacted => gs[i].dirty = TRUE
             /\ OnlyMarked(hs[i], gs[i])
  <2>1. i \in DOMAIN hs /\ NodeFields \subseteq DOMAIN hs[i]
    BY <1>1 DEF TypedFeature
  <2>2. QED
    BY <2>1, MarkedFeature
<1>5. /\ \A i \in DOMAIN hs : hs[i].id \in marked => hs[i].id \in impacted
      /\ \A i \in DOMAIN hs : \A j \in 1 .. i - 1 :
           (hs[j].id \in marked /\ hs[j].id \in hs[i].deps) => hs[i].id \in impacted
  BY <1>1, DownstreamFacts
<1>. HIDE DEF m, impacted
<1>7. \A i \in DOMAIN fs : Placed(fs[i], gs[i])
  <2>1. ASSUME NEW i \in DOMAIN fs PROVE Placed(fs[i], gs[i])
    <3>1. SameName(fs[i], gs[i])
      BY <1>2 DEF SameObjects
    <3>2. Placed(fs[i], hs[i])
      OBVIOUS
    <3>3. QED
      BY <1>4, <3>1, <3>2 DEF Placed, OnlyMarked
  <2>2. QED
    BY <2>1
<1>8. /\ Distinct(m)
      /\ \A i \in DOMAIN fs : TakesDrawnSketch(m, i)
      /\ \A i \in DOMAIN fs : \A j :
           DrawnAt(d, i, j) => FeatureOf(m, Drawer(m, fs[i].sketch)) = gs[j]
  BY <1>2, <1>7, OrderStays
<1>9. TypedState(m)
  <2>1. ASSUME NEW i \in DOMAIN fs PROVE TypedFeature(gs[i])
    <3>1. TypedFeature(hs[i])
      OBVIOUS
    <3>2. NodeFields \subseteq DOMAIN gs[i]
      BY <1>4, <3>1 DEF TypedFeature, OnlyMarked
    <3>3. QED
      BY <1>4, <3>1, <3>2 DEF TypedFeature, OnlyMarked
  <2>2. Len(gs) <= MaxFeatures
    BY <1>2, SameLength DEF Settled, TypedState
  <2>3. DOMAIN gs = DOMAIN fs
    BY <1>2 DEF SameObjects
  <2>4. QED
    BY <1>3, <2>1, <2>2, <2>3 DEF TypedState, MarkDirtyKeeps
<1>10. HeadsOK(m)
  BY <1>3 DEF HeadsOK, MarkDirtyKeeps
<1>11. ASSUME NEW i \in DOMAIN fs
       PROVE  Fresh(m, gs[i])
  <2>1. SUFFICES ASSUME ~gs[i].dirty, gs[i].commit # NoCommit, gs[i].kind \notin DocumentOnly
                 PROVE  \E tool : gs[i].commit.output
                                    = Append(gs[i].commit.input, OperationOf(m, gs[i], tool))
    BY DEF Fresh
  <2>2. hs[i].id \notin impacted /\ gs[i] = hs[i]
    BY <1>4, <2>1
  <2>3. fs[i].id = hs[i].id
    BY DEF Placed, SameName
  <2>4. \A k \in DOMAIN fs : hs[k].id \in IdsOf(hs) /\ fs[k].id = hs[k].id
    BY <1>1 DEF Placed, SameName, IdsOf
  <2>5. fs[i].id \notin roots
    BY <1>1, <1>5, <2>2, <2>4
  <2>6. gs[i] = fs[i]
    BY <2>2, <2>5
  <2>7. PICK tool : fs[i].commit.output = Append(fs[i].commit.input, OperationOf(d, fs[i], tool))
    BY <2>1, <2>6 DEF Settled, Fresh
  <2>8. fs[i].reads => m.variable = d.variable
    <3>1. fs[i].reads => fs[i].id \in Readers(d)
      BY DEF Readers
    <3>2. QED
      BY <1>3, <2>5, <3>1 DEF MarkDirtyKeeps
  <2>9. fs[i].sketch # 0 => FeatureOf(m, Drawer(m, fs[i].sketch)).recipe
                              = FeatureOf(d, Drawer(d, fs[i].sketch)).recipe
    <3>1. SUFFICES ASSUME fs[i].sketch # 0
                   PROVE  FeatureOf(m, Drawer(m, fs[i].sketch)).recipe
                            = FeatureOf(d, Drawer(d, fs[i].sketch)).recipe
      OBVIOUS
    <3>2. PICK j : DrawnAt(d, i, j)
      BY <3>1, DrawerBefore DEF Settled, FeaturesHaveIds
    <3>3. /\ j \in DOMAIN fs /\ j \in 1 .. i - 1 /\ fs[j].id \in fs[i].deps
          /\ FeatureOf(d, Drawer(d, fs[i].sketch)) = fs[j]
      BY <3>2 DEF DrawnAt
    <3>4. fs[j].id \notin roots
      <4>1. hs[j].id \in hs[i].deps
        BY <2>4, <3>3 DEF Placed
      <4>2. hs[j].id \notin marked
        BY <1>1, <1>5, <2>2, <3>3, <4>1
      <4>3. QED
        BY <2>4, <3>3, <4>2
    <3>5. gs[j].recipe = fs[j].recipe
      BY <1>4, <3>3, <3>4 DEF OnlyMarked
    <3>6. QED
      BY <1>8, <3>2, <3>3, <3>5
  <2>10. OperationOf(m, fs[i], tool) = OperationOf(d, fs[i], tool)
    BY <2>8, <2>9 DEF OperationOf
  <2>11. QED
    BY <2>6, <2>7, <2>10
<1>12. DOMAIN gs = DOMAIN fs
  BY <1>2 DEF SameObjects
<1>13. Settled(m)
  BY <1>8, <1>9, <1>10, <1>11, <1>12 DEF Settled
<1>14. QED
  BY <1>13 DEF m

\* Bodies and sketches are shown as the active features left them.
LEMMA ReconciledSettled ==
    ASSUME NEW d, Settled(d), HasFields(d), FeaturesHaveIds(d)
    PROVE  Settled(Reconciled(d))
<1>. DEFINE heads == Heads(d, Position(d))
            e == Reconciled(d)
<1>1. heads \in HeadStates(d)
  BY PositionInTimeline, HeadsTyped DEF FeaturesHaveIds
<1>2. \A x \in Outputs(d) : IsSequence(x)
  <2>1. \A i \in DOMAIN d.features : IsSequence(d.features[i].commit.output)
    BY CommitSequences DEF Settled, TypedState, TypedFeature
  <2>2. QED
    BY <2>1, NoneIsSequence DEF Outputs
<1>3. \A b \in DOMAIN d.bodies : heads.bodies[b] \in Outputs(d)
  BY <1>1 DEF HeadStates
<1>4. heads.head \in Outputs(d)
  BY <1>1 DEF HeadStates
<1>. HIDE DEF heads
<1>5. /\ e.features = d.features /\ DOMAIN e = DOMAIN d
      /\ "variable" \in DOMAIN d => e.variable = d.variable
      /\ DOMAIN e.bodies = DOMAIN d.bodies
      /\ \A b \in DOMAIN d.bodies : e.bodies[b] = [d.bodies[b] EXCEPT !.snapshot = heads.bodies[b]]
      /\ e.head = heads.head
  BY DEF Reconciled, HasFields, heads
<1>6. SameObjects(d, e)
  BY ReconciledSame
<1>. HIDE DEF e
<1>7. HeadsOK(e)
  <2>1. IsSequence(e.head)
    BY <1>2, <1>4, <1>5
  <2>2. ASSUME NEW b \in DOMAIN d.bodies
        PROVE  /\ {"madeBy", "last", "snapshot"} \subseteq DOMAIN e.bodies[b]
               /\ IsSequence(e.bodies[b].snapshot)
    <3>1. {"madeBy", "last", "snapshot"} \subseteq DOMAIN d.bodies[b]
      BY DEF Settled, HeadsOK
    <3>2. /\ {"madeBy", "last", "snapshot"} \subseteq DOMAIN e.bodies[b]
          /\ e.bodies[b].snapshot = heads.bodies[b]
      BY <1>5, <3>1
    <3>3. IsSequence(heads.bodies[b])
      BY <1>2, <1>3
    <3>4. QED
      BY <3>2, <3>3
  <2>3. QED
    BY <1>5, <2>1, <2>2 DEF HeadsOK
<1>8. "variable" \in DOMAIN e /\ e.variable = d.variable
  BY <1>5 DEF Settled, TypedState
<1>9. Settled(e)
  BY <1>5, <1>6, <1>7, <1>8, UndisturbedSettled
<1>10. QED
  BY <1>9 DEF e

\* The cursor moves.
LEMMA MovedSettled ==
    ASSUME NEW d, Settled(d), HasFields(d), FeaturesHaveIds(d), NEW cursor
    PROVE  Settled(Reconciled([d EXCEPT !.cursor = cursor]))
<1>. DEFINE e == [d EXCEPT !.cursor = cursor]
<1>1. /\ DOMAIN e = DOMAIN d /\ e.features = d.features /\ e.bodies = d.bodies
      /\ e.sketches = d.sketches /\ e.head = d.head
      /\ "variable" \in DOMAIN d => e.variable = d.variable
  BY DEF HasFields
<1>. HIDE DEF e
<1>2. HasFields(e) /\ FeaturesHaveIds(e)
  BY <1>1 DEF HasFields, FeaturesHaveIds
<1>3. TypedState(e) /\ HeadsOK(e) /\ Distinct(e)
  BY <1>1 DEF Settled, TypedState, HeadsOK, Distinct
<1>4. \A id : FeatureOf(e, id) = FeatureOf(d, id)
  BY <1>1 DEF FeatureOf
<1>5. \A s : Drawer(e, s) = Drawer(d, s)
  BY <1>1 DEF Drawer
<1>6. ASSUME NEW i \in DOMAIN d.features
      PROVE  TakesDrawnSketch(e, i) /\ Fresh(e, d.features[i])
  <2>1. TakesDrawnSketch(d, i) /\ Fresh(d, d.features[i])
    BY DEF Settled
  <2>2. TakesDrawnSketch(e, i)
    BY <1>1, <1>5, <2>1 DEF TakesDrawnSketch
  <2>3. e.variable = d.variable
    BY <1>1 DEF Settled, TypedState
  <2>4. \A tool : OperationOf(e, d.features[i], tool) = OperationOf(d, d.features[i], tool)
    BY <1>4, <1>5, <2>3 DEF OperationOf
  <2>5. Fresh(e, d.features[i])
    BY <2>1, <2>4 DEF Fresh
  <2>6. QED
    BY <2>2, <2>5
<1>7. Settled(e)
  BY <1>1, <1>3, <1>6 DEF Settled
<1>8. QED
  BY <1>2, <1>7, ReconciledSettled DEF e

\* What shows and what hides a sketch says nothing of a result.
LEMMA ShownSettled ==
    ASSUME NEW d, Settled(d), HasFields(d), FeaturesHaveIds(d), NEW s, NEW visible, NEW hider
    PROVE  Settled([d EXCEPT !.sketches[s].visible = visible, !.sketches[s].hiddenBy = hider])
<1>. DEFINE e == [d EXCEPT !.sketches[s].visible = visible, !.sketches[s].hiddenBy = hider]
<1>1. SameObjects(d, e)
  <2>1. SameObjects(d, [d EXCEPT !.sketches[s].visible = visible,
                                 !.sketches[s].hiddenBy = hider])
    BY SketchVisibilitySame, Zenon
  <2>2. QED
    BY <2>1, Zenon
<1>2. /\ DOMAIN e = DOMAIN d /\ e.features = d.features /\ e.bodies = d.bodies
      /\ e.head = d.head /\ ("variable" \in DOMAIN d => e.variable = d.variable)
  BY DEF HasFields
<1>. HIDE DEF e
<1>3. HeadsOK(e) /\ "variable" \in DOMAIN e /\ e.variable = d.variable
  BY <1>2 DEF Settled, HeadsOK, TypedState
<1>4. Settled(e)
  BY <1>1, <1>2, <1>3, UndisturbedSettled
<1>5. QED
  BY <1>4 DEF e

\* One feature takes another recipe, payload or suppression.
LEMMA OneFeature ==
    ASSUME NEW d, HasFields(d), FeaturesHaveIds(d), NEW id \in IdsOf(d.features), NEW f,
           Placed(FeatureOf(d, id), f)
    PROVE  LET e == WithFeature(d, id, f)
           IN  /\ SameObjects(d, e) /\ DOMAIN e = DOMAIN d /\ e.bodies = d.bodies
               /\ e.sketches = d.sketches /\ e.head = d.head
               /\ "variable" \in DOMAIN d => e.variable = d.variable
               /\ \A i \in DOMAIN d.features :
                    \/ e.features[i] = f /\ FeatureOf(d, id) = d.features[i]
                    \/ e.features[i] = d.features[i] /\ i # IndexOf(d.features, id)
<1>. DEFINE e == WithFeature(d, id, f)
            k == IndexOf(d.features, id)
<1>1. k \in DOMAIN d.features /\ FeatureOf(d, id) = d.features[k]
  BY FoundFeature DEF FeatureOf
<1>2. SameObjects(d, e)
  BY WithFeatureSame DEF Placed
<1>3. e = [d EXCEPT !.features = [@ EXCEPT ![k] = f]]
  BY DEF WithFeature
<1>. HIDE DEF k, e
<1>4. /\ DOMAIN e = DOMAIN d /\ e.bodies = d.bodies
      /\ e.sketches = d.sketches /\ e.head = d.head
      /\ "variable" \in DOMAIN d => e.variable = d.variable
      /\ e.features = [d.features EXCEPT ![k] = f]
  BY <1>3 DEF HasFields
<1>5. \A i \in DOMAIN d.features :
        \/ e.features[i] = f /\ FeatureOf(d, id) = d.features[i]
        \/ e.features[i] = d.features[i] /\ i # k
  BY <1>1, <1>4
<1>6. QED
  BY <1>2, <1>4, <1>5 DEF k, e

LEMMA PlacedItself ==
    ASSUME NEW f, Named(f)
    PROVE  Placed(f, f)
BY DEF Placed, SameName

LEMMA ChangedFeatureSettled ==
    ASSUME NEW d, Settled(d), HasFields(d), FeaturesHaveIds(d), NEW id \in IdsOf(d.features),
           NEW f, Placed(FeatureOf(d, id), f), TypedFeature(f),
           NEW e, HasFields(e), SameObjects(d, e), HeadsOK(e),
           e.features = WithFeature(d, id, f).features,
           "variable" \in DOMAIN e, e.variable = d.variable
    PROVE  Settled(MarkDirty(e, {id}))
<1>1. \A i \in DOMAIN d.features :
        \/ e.features[i] = f /\ FeatureOf(d, id) = d.features[i]
        \/ e.features[i] = d.features[i] /\ i # IndexOf(d.features, id)
  BY OneFeature
<1>2. ASSUME NEW i \in DOMAIN d.features
      PROVE  /\ Placed(d.features[i], e.features[i]) /\ TypedFeature(e.features[i])
             /\ d.features[i].id \notin {id} => e.features[i] = d.features[i]
  <2>1. CASE e.features[i] = f /\ FeatureOf(d, id) = d.features[i]
    <3>1. d.features[i].id = id
      BY <2>1, FoundFeature DEF FeatureOf
    <3>2. QED
      BY <2>1, <3>1
  <2>2. CASE e.features[i] = d.features[i]
    <3>1. Placed(d.features[i], d.features[i])
      BY PlacedItself DEF FeaturesHaveIds
    <3>2. TypedFeature(d.features[i])
      BY DEF Settled, TypedState
    <3>3. QED
      BY <2>2, <3>1, <3>2
  <2>3. QED
    BY <1>1, <2>1, <2>2
<1>3. e.variable \in Values
  BY DEF Settled, TypedState
<1>4. QED
  BY <1>2, <1>3, MarkedSettled

LEMMA EditedFeatureSettled ==
    ASSUME NEW d, Settled(d), HasFields(d), FeaturesHaveIds(d), NEW id \in IdsOf(d.features),
           NEW f, Placed(FeatureOf(d, id), f), TypedFeature(f)
    PROVE  Settled(MarkDirty(WithFeature(d, id, f), {id}))
<1>. DEFINE e == WithFeature(d, id, f)
<1>1. /\ SameObjects(d, e) /\ DOMAIN e = DOMAIN d /\ e.bodies = d.bodies
      /\ e.sketches = d.sketches /\ e.head = d.head
      /\ "variable" \in DOMAIN d => e.variable = d.variable
  BY OneFeature
<1>2. e.features = WithFeature(d, id, f).features
  OBVIOUS
<1>. HIDE DEF e
<1>3. HasFields(e) /\ HeadsOK(e) /\ "variable" \in DOMAIN e /\ e.variable = d.variable
  BY <1>1 DEF HasFields, Settled, HeadsOK, TypedState
<1>4. Settled(MarkDirty(e, {id}))
  BY <1>1, <1>2, <1>3, ChangedFeatureSettled
<1>5. QED
  BY <1>4 DEF e

LEMMA InstalledSettled ==
    ASSUME NEW next, Kept(doc, next), Settled(doc), NEW s \in DOMAIN doc.sketches,
           NEW payload \in Recipes \union Values
    PROVE  Settled(Installed(s, payload))
<1>. DEFINE f == FeatureOf(doc, Drawer(doc, s))
            id == f.id
            g == [f EXCEPT !.recipe = payload, !.revision = f.revision + 1]
            e == WithFeature(doc, id, g)
            h == [e EXCEPT !.sketches[s].revision = f.revision + 1]
<1>1. Installed(s, payload) = MarkDirty(h, {id})
  BY DEF Installed
<1>2. id = Drawer(doc, s) /\ id \in IdsOf(doc.features) /\ FeatureOf(doc, id) = f /\ Named(f)
  BY DrawerFound, FoundFeature DEF Kept, FeaturesHaveIds, FeatureOf
<1>3. TypedFeature(f)
  BY <1>2, FeatureFound DEF Settled, TypedState
<1>4. Placed(f, g) /\ TypedFeature(g)
  BY <1>2, <1>3 DEF Placed, SameName, Named, TypedFeature, NodeFields
<1>k. HasFields(doc) /\ FeaturesHaveIds(doc)
  BY DEF Kept
<1>. HIDE DEF id, g
<1>5. /\ SameObjects(doc, e) /\ DOMAIN e = DOMAIN doc /\ e.bodies = doc.bodies
      /\ e.sketches = doc.sketches /\ e.head = doc.head
      /\ "variable" \in DOMAIN doc => e.variable = doc.variable
  BY <1>k, <1>2, <1>4, OneFeature
<1>a. e.features = WithFeature(doc, id, g).features
  OBVIOUS
<1>. HIDE DEF e
<1>6. HasFields(e) /\ FeaturesHaveIds(e)
  BY <1>k, <1>5 DEF SameObjects, SameName, HasFields, FeaturesHaveIds
<1>7. /\ SameObjects(e, h) /\ DOMAIN h = DOMAIN e /\ h.features = e.features
      /\ h.bodies = e.bodies /\ h.head = e.head
      /\ "variable" \in DOMAIN e => h.variable = e.variable
  BY <1>6 DEF HasFields, SameObjects, SameName, FeaturesHaveIds
<1>. HIDE DEF h
<1>8. SameObjects(doc, h)
  BY <1>5, <1>7, SameObjectsTransitive
<1>9. HasFields(h) /\ HeadsOK(h) /\ "variable" \in DOMAIN h /\ h.variable = doc.variable
  BY <1>k, <1>5, <1>7 DEF HasFields, Settled, HeadsOK, TypedState
<1>10. h.features = WithFeature(doc, id, g).features
  BY <1>7, <1>a
<1>11. Placed(FeatureOf(doc, id), g)
  BY <1>2, <1>4
<1>12. Settled(MarkDirty(h, {id}))
  BY <1>k, <1>2, <1>4, <1>8, <1>9, <1>10, <1>11, ChangedFeatureSettled
<1>13. QED
  BY <1>1, <1>12

LEMMA VariableSettled ==
    ASSUME NEW d, Settled(d), HasFields(d), FeaturesHaveIds(d), NEW v \in Values
    PROVE  Settled(MarkDirty([d EXCEPT !.variable = v], Readers(d)))
<1>. DEFINE e == [d EXCEPT !.variable = v]
            roots == Readers(d)
<1>1. /\ DOMAIN e = DOMAIN d /\ e.features = d.features /\ e.bodies = d.bodies
      /\ e.sketches = d.sketches /\ e.head = d.head /\ e.cursor = d.cursor
      /\ "variable" \in DOMAIN d => e.variable = v
  BY DEF HasFields
<1>. HIDE DEF e
<1>2. HasFields(e) /\ HeadsOK(e) /\ "variable" \in DOMAIN e /\ e.variable \in Values
  BY <1>1 DEF HasFields, Settled, HeadsOK, TypedState
<1>3. SameObjects(d, e)
  BY <1>1 DEF SameObjects, SameName, FeaturesHaveIds
<1>4. ASSUME NEW i \in DOMAIN d.features
      PROVE  /\ Placed(d.features[i], e.features[i]) /\ TypedFeature(e.features[i])
             /\ d.features[i].id \notin roots => e.features[i] = d.features[i]
  <2>1. Placed(d.features[i], d.features[i])
    BY PlacedItself DEF FeaturesHaveIds
  <2>2. TypedFeature(d.features[i])
    BY DEF Settled, TypedState
  <2>3. QED
    BY <1>1, <2>1, <2>2
<1>5. Readers(d) \subseteq roots
  OBVIOUS
<1>. HIDE DEF roots
<1>6. Settled(MarkDirty(e, roots))
  BY <1>2, <1>3, <1>4, <1>5, MarkedSettled
<1>7. QED
  BY <1>6 DEF e, roots

-----------------------------------------------------------------------------
(* Rebuild plans.                                                          *)

\* What a step of a plan records for a feature.
StepResult(d, f, r) == \E input, tool : Given(input) /\ r = Built(d, f, input, tool)

LEMMA ImpactedFeatures ==
    ASSUME NEW d, IsSequence(d.features), NEW from
    PROVE  Impacted(d, from) \subseteq IdsOf(d.features)
<1>. DEFINE fs == d.features
            n == Position(d)
            active == SubSeq(fs, 1, n)
<1>1. n \in 0 .. Len(fs) /\ DOMAIN fs = 1 .. Len(fs) /\ Len(fs) \in Nat /\ fs \in Seq(Elements(fs))
  BY PositionInTimeline, LenProperties DEF IsSequence
<1>. HIDE DEF n
<1>2. /\ active \in Seq(Elements(fs)) /\ Len(active) = n - 1 + 1
      /\ \A k \in 1 .. n - 1 + 1 : active[k] = fs[1 + k - 1]
  <2>. DEFINE S == Elements(fs)
  <2>a. 1 \in Int /\ n \in Int /\ 1 <= n + 1 /\ \A j \in 1 .. n : j \in DOMAIN fs
    BY <1>1
  <2>b. \A j \in DOMAIN fs : fs[j] \in S
    BY DEF Elements
  <2>. HIDE DEF fs, S
  <2>1. 1 \in Int /\ n \in Int /\ 1 <= n + 1 /\ \A j \in 1 .. n : fs[j] \in S
    BY <2>a, <2>b
  <2>2. /\ SubSeq(fs, 1, n) \in Seq(S) /\ Len(SubSeq(fs, 1, n)) = n - 1 + 1
        /\ \A k \in 1 .. n - 1 + 1 : SubSeq(fs, 1, n)[k] = fs[1 + k - 1]
    BY <2>1, Slice
  <2>3. QED
    BY <2>2 DEF S
<1>3. DOMAIN active = 1 .. n /\ \A k \in 1 .. n : active[k] = fs[k] /\ k \in DOMAIN fs
  <2>. HIDE DEF active
  <2>1. n - 1 + 1 = n /\ \A k \in 1 .. n : 1 + k - 1 = k /\ k \in 1 .. Len(fs)
    BY <1>1
  <2>2. DOMAIN active = 1 .. Len(active)
    BY <1>2, LenProperties
  <2>3. QED
    BY <1>1, <1>2, <2>1, <2>2
<1>4. IsSequence(active)
  BY <1>2, SequencesAreSequences
<1>5. active = Active(d)
  BY DEF Active, n
<1>. HIDE DEF active, fs
<1>6. IdsOf(active) \subseteq IdsOf(fs)
  BY <1>3 DEF IdsOf
<1>7. Downstream(active, {from}) \subseteq IdsOf(active)
  BY <1>4, DownstreamFacts
<1>8. QED
  BY <1>5, <1>6, <1>7 DEF Impacted, fs

LEMMA StepsFacts ==
    ASSUME NEW d, IsSequence(d.features), NEW from
    PROVE  /\ IsSequence(Steps(d, from))
           /\ \A k \in DOMAIN Steps(d, from) :
                Steps(d, from)[k] \in Impacted(d, from) /\ Steps(d, from)[k] \in IdsOf(d.features)
           /\ \A id \in Impacted(d, from) \ Skipped(d) :
                \E k \in DOMAIN Steps(d, from) : Steps(d, from)[k] = id
<1>. DEFINE set == Impacted(d, from) \ Skipped(d)
            steps == Steps(d, from)
<1>1. set \subseteq Impacted(d, from) /\ set \subseteq IdsOf(d.features)
  BY ImpactedFeatures
<1>2. steps = InOrder(d, set)
  BY DEF Steps
<1>. HIDE DEF set, steps
<1>3. /\ InOrder(d, set) \in Seq(set)
      /\ \A id \in set \intersect IdsOf(d.features) :
           \E k \in DOMAIN InOrder(d, set) : InOrder(d, set)[k] = id
  BY InOrderFacts
<1>4. IsSequence(steps) /\ \A k \in DOMAIN steps : steps[k] \in set
  BY <1>2, <1>3, SequencesAreSequences, LenProperties, ElementOfSeq
<1>5. \A id \in set : \E k \in DOMAIN steps : steps[k] = id
  BY <1>1, <1>2, <1>3
<1>6. QED
  BY <1>1, <1>4, <1>5 DEF set, steps

CleanWith(f, commit) == [f EXCEPT !.dirty = FALSE, !.commit = commit]

\* What publishing a plan makes of one feature.
PublishedFeature(d, from, results, f, g) ==
  \/ f.id \notin Impacted(d, from) /\ g = f
  \/ f.id \in Impacted(d, from) /\ f.id \in Skipped(d)
     /\ g = CleanWith(f, NoCommit)
  \/ \E k \in DOMAIN Steps(d, from) :
       Steps(d, from)[k] = f.id /\ g = CleanWith(f, results[k])

PublishedKeeps(d, e) ==
  /\ DOMAIN e = DOMAIN d /\ e.bodies = d.bodies /\ e.sketches = d.sketches
  /\ e.head = d.head /\ e.cursor = d.cursor /\ ("variable" \in DOMAIN d => e.variable = d.variable)
  /\ DOMAIN e.features = DOMAIN d.features
  /\ e.features = [i \in DOMAIN e.features |-> e.features[i]]

Result(d, from, results, id) ==
  results[CHOOSE k \in DOMAIN Steps(d, from) : Steps(d, from)[k] = id]

PublishedAs(d, from, results, f) ==
  IF f.id \notin Impacted(d, from) THEN f
  ELSE [f EXCEPT !.dirty = FALSE,
                 !.commit = IF f.id \in Skipped(d) THEN NoCommit
                            ELSE Result(d, from, results, f.id)]

LEMMA PublishedOne ==
    ASSUME NEW d, IsSequence(d.features), NEW from, NEW results, NEW f,
           f.id \in IdsOf(d.features)
    PROVE  PublishedFeature(d, from, results, f, PublishedAs(d, from, results, f))
<1>. DEFINE g == PublishedAs(d, from, results, f)
<1>a. g = IF f.id \notin Impacted(d, from) THEN f
          ELSE IF f.id \in Skipped(d) THEN CleanWith(f, NoCommit)
          ELSE CleanWith(f, Result(d, from, results, f.id))
  <2>1. f.id \in Skipped(d) \/ f.id \notin Skipped(d)
    OBVIOUS
  <2>2. QED
    BY <2>1 DEF PublishedAs, CleanWith
<1>. HIDE DEF g
<1>. SUFFICES PublishedFeature(d, from, results, f, g)
  BY DEF g
<1>1. CASE f.id \notin Impacted(d, from)
  BY <1>a, <1>1 DEF PublishedFeature
<1>2. CASE f.id \in Impacted(d, from) /\ f.id \in Skipped(d)
  BY <1>a, <1>2 DEF PublishedFeature
<1>3. CASE f.id \in Impacted(d, from) /\ f.id \notin Skipped(d)
  <2>. DEFINE steps == Steps(d, from)
              k == CHOOSE k \in DOMAIN steps : steps[k] = f.id
  <2>1. \E j \in DOMAIN steps : steps[j] = f.id
    BY <1>3, StepsFacts
  <2>2. k \in DOMAIN steps /\ steps[k] = f.id
    BY <2>1
  <2>3. Result(d, from, results, f.id) = results[k]
    BY DEF Result
  <2>. HIDE DEF k
  <2>4. g = CleanWith(f, results[k])
    BY <1>3, <1>a, <2>3
  <2>5. QED
    BY <2>2, <2>4 DEF PublishedFeature
<1>4. QED
  BY <1>1, <1>2, <1>3

LEMMA PublishedFeatures ==
    ASSUME NEW d, HasFields(d), IsSequence(d.features), NEW from, NEW results
    PROVE  /\ PublishedKeeps(d, Published(d, from, results))
           /\ \A i \in DOMAIN d.features :
                PublishedFeature(d, from, results, d.features[i],
                                 Published(d, from, results).features[i])
<1>. DEFINE as(f) == PublishedAs(d, from, results, f)
            fs == [i \in DOMAIN d.features |-> as(d.features[i])]
            e == Published(d, from, results)
<1>1. e = [d EXCEPT !.features = fs]
  BY DEF Published, PublishedAs, Result
<1>2. ASSUME NEW i \in DOMAIN d.features
      PROVE  PublishedFeature(d, from, results, d.features[i], as(d.features[i]))
  <2>1. d.features[i].id \in IdsOf(d.features)
    BY DEF IdsOf
  <2>2. QED
    BY <2>1, PublishedOne
<1>. HIDE DEF as, e
<1>3. /\ DOMAIN fs = DOMAIN d.features
      /\ fs = [i \in DOMAIN fs |-> fs[i]]
      /\ \A i \in DOMAIN d.features : fs[i] = as(d.features[i])
  OBVIOUS
<1>. HIDE DEF fs
<1>4. e.features = fs /\ PublishedKeeps(d, e)
  BY <1>1, <1>3 DEF HasFields, PublishedKeeps
<1>5. QED
  BY <1>2, <1>3, <1>4 DEF e

LEMMA CleanWithFields ==
    ASSUME NEW f, TypedFeature(f), NEW commit, CommitOK(commit)
    PROVE  LET g == CleanWith(f, commit)
           IN  /\ TypedFeature(g)
               /\ g.id = f.id /\ g.kind = f.kind /\ g.recipe = f.recipe /\ g.reads = f.reads
               /\ g.sketch = f.sketch /\ g.deps = f.deps /\ g.commit = commit
BY DEF CleanWith, TypedFeature, NodeFields

LEMMA StepResultOK ==
    ASSUME NEW d, NEW f, TypedFeature(f), NEW r, StepResult(d, f, r)
    PROVE  /\ IsResult(r)
           /\ f.kind \notin DocumentOnly =>
                \E tool : r.output = Append(r.input, OperationOf(d, f, tool))
<1>1. PICK input, tool : Given(input) /\ r = Built(d, f, input, tool)
  BY DEF StepResult
<1>2. IsResult(r)
  <2>1. f.recipe # -1
    BY RecipesAreNumbers DEF TypedFeature
  <2>2. QED
    BY <1>1, <2>1, BuiltIsResult
<1>3. f.kind \notin DocumentOnly => r.input = input /\ r.output = Append(input, OperationOf(d, f, tool))
  BY <1>1, BuiltIsFresh
<1>4. QED
  BY <1>2, <1>3

\* A plan of the present is published: every executed feature carries what the
\* present makes of it.
LEMMA PublishedSettled ==
    ASSUME NEW d, Settled(d), HasFields(d), FeaturesHaveIds(d), NEW from, NEW results,
           \A k \in DOMAIN Steps(d, from) :
             StepResult(d, FeatureOf(d, Steps(d, from)[k]), results[k])
    PROVE  Settled(Published(d, from, results))
<1>. DEFINE fs == d.features
            e == Published(d, from, results)
            gs == e.features
            now(i, k) == Steps(d, from)[k] = fs[i].id /\ gs[i] = CleanWith(fs[i], results[k])
<1>1. /\ PublishedKeeps(d, e)
      /\ \A i \in DOMAIN fs : PublishedFeature(d, from, results, fs[i], gs[i])
  BY PublishedFeatures DEF FeaturesHaveIds
<1>. HIDE DEF e
<1>2. \A i \in DOMAIN fs : TypedFeature(fs[i]) /\ TakesDrawnSketch(d, i) /\ Fresh(d, fs[i])
  BY DEF Settled, TypedState
<1>3. ASSUME NEW i \in DOMAIN fs
      PROVE  \/ gs[i] = fs[i]
             \/ gs[i] = CleanWith(fs[i], NoCommit)
             \/ \E k \in DOMAIN Steps(d, from) :
                  gs[i] = CleanWith(fs[i], results[k]) /\ StepResult(d, fs[i], results[k])
  <2>1. PublishedFeature(d, from, results, fs[i], gs[i])
    BY <1>1
  <2>2. CASE \E k \in DOMAIN Steps(d, from) :
               Steps(d, from)[k] = fs[i].id /\ gs[i] = CleanWith(fs[i], results[k])
    <3>1. PICK k \in DOMAIN Steps(d, from) :
            Steps(d, from)[k] = fs[i].id /\ gs[i] = CleanWith(fs[i], results[k])
      BY <2>2
    <3>2. FeatureOf(d, fs[i].id) = fs[i]
      BY FeatureAt DEF Settled
    <3>3. StepResult(d, FeatureOf(d, Steps(d, from)[k]), results[k])
      OBVIOUS
    <3>4. StepResult(d, fs[i], results[k])
      BY <3>1, <3>2, <3>3
    <3>5. QED
      BY <3>1, <3>4
  <2>3. QED
    BY <2>1, <2>2 DEF PublishedFeature
<1>4. ASSUME NEW i \in DOMAIN fs
      PROVE  /\ TypedFeature(gs[i])
             /\ gs[i].id = fs[i].id /\ gs[i].kind = fs[i].kind /\ gs[i].recipe = fs[i].recipe
             /\ gs[i].reads = fs[i].reads /\ gs[i].sketch = fs[i].sketch
             /\ gs[i].deps = fs[i].deps
             /\ \/ gs[i] = fs[i] \/ gs[i].commit = NoCommit
                \/ fs[i].kind \notin DocumentOnly =>
                     \E tool : gs[i].commit.output
                                 = Append(gs[i].commit.input, OperationOf(d, fs[i], tool))
  <2>1. TypedFeature(fs[i])
    BY <1>2
  <2>2. CASE gs[i] = fs[i]
    BY <2>1, <2>2
  <2>3. CASE gs[i] = CleanWith(fs[i], NoCommit)
    BY <2>1, <2>3, CleanWithFields DEF CommitOK
  <2>4. ASSUME NEW k \in DOMAIN Steps(d, from),
               gs[i] = CleanWith(fs[i], results[k]), StepResult(d, fs[i], results[k])
        PROVE  /\ TypedFeature(gs[i])
               /\ gs[i].id = fs[i].id /\ gs[i].kind = fs[i].kind /\ gs[i].recipe = fs[i].recipe
               /\ gs[i].reads = fs[i].reads /\ gs[i].sketch = fs[i].sketch
               /\ gs[i].deps = fs[i].deps
               /\ fs[i].kind \notin DocumentOnly =>
                    \E tool : gs[i].commit.output
                                = Append(gs[i].commit.input, OperationOf(d, fs[i], tool))
    <3>. DEFINE r == results[k]
    <3>1. /\ IsResult(r)
          /\ fs[i].kind \notin DocumentOnly =>
               \E tool : r.output = Append(r.input, OperationOf(d, fs[i], tool))
      BY <2>1, <2>4, StepResultOK
    <3>2. CommitOK(r)
      BY <3>1 DEF CommitOK
    <3>3. gs[i] = CleanWith(fs[i], r)
      BY <2>4
    <3>. HIDE DEF r
    <3>4. /\ TypedFeature(gs[i])
          /\ gs[i].id = fs[i].id /\ gs[i].kind = fs[i].kind /\ gs[i].recipe = fs[i].recipe
          /\ gs[i].reads = fs[i].reads /\ gs[i].sketch = fs[i].sketch
          /\ gs[i].deps = fs[i].deps /\ gs[i].commit = r
      BY <2>1, <3>2, <3>3, CleanWithFields
    <3>5. QED
      BY <3>1, <3>4
  <2>5. QED
    BY <1>3, <2>2, <2>3, <2>4
<1>5. DOMAIN gs = DOMAIN fs /\ IsSequence(gs)
  BY <1>1, SequenceOverDomain DEF PublishedKeeps, FeaturesHaveIds
<1>6. \A i \in DOMAIN fs : SameName(fs[i], gs[i])
  BY <1>4 DEF SameName, Named, TypedFeature, NodeFields
<1>7. SameObjects(d, e)
  BY <1>1, <1>5, <1>6 DEF SameObjects, PublishedKeeps, FeaturesHaveIds
<1>8. \A i \in DOMAIN fs : Placed(fs[i], gs[i])
  BY <1>4, <1>6 DEF Placed
<1>9. /\ Distinct(e)
      /\ \A i \in DOMAIN fs : TakesDrawnSketch(e, i)
      /\ \A i \in DOMAIN fs : \A j :
           DrawnAt(d, i, j) => FeatureOf(e, Drawer(e, fs[i].sketch)) = gs[j]
  BY <1>7, <1>8, OrderStays
<1>10. TypedState(e) /\ HeadsOK(e) /\ e.variable = d.variable
  <2>1. Len(gs) <= MaxFeatures
    BY <1>7, SameLength DEF Settled, TypedState
  <2>2. \A i \in DOMAIN gs : TypedFeature(gs[i])
    BY <1>4, <1>5
  <2>3. "variable" \in DOMAIN e /\ e.variable = d.variable /\ e.variable \in Values
    BY <1>1 DEF PublishedKeeps, Settled, TypedState
  <2>4. HeadsOK(e)
    BY <1>1 DEF PublishedKeeps, Settled, HeadsOK
  <2>5. QED
    BY <2>1, <2>2, <2>3, <2>4 DEF TypedState
<1>11. ASSUME NEW i \in DOMAIN fs
       PROVE  Fresh(e, gs[i])
  <2>1. fs[i].sketch # 0 => FeatureOf(e, Drawer(e, fs[i].sketch)).recipe
                              = FeatureOf(d, Drawer(d, fs[i].sketch)).recipe
    <3>1. SUFFICES ASSUME fs[i].sketch # 0
                   PROVE  FeatureOf(e, Drawer(e, fs[i].sketch)).recipe
                            = FeatureOf(d, Drawer(d, fs[i].sketch)).recipe
      OBVIOUS
    <3>2. PICK j : DrawnAt(d, i, j)
      BY <1>2, <3>1, DrawerBefore DEF Settled, FeaturesHaveIds
    <3>3. j \in DOMAIN fs /\ FeatureOf(d, Drawer(d, fs[i].sketch)) = fs[j]
      BY <3>2 DEF DrawnAt
    <3>4. QED
      BY <1>4, <1>9, <3>2, <3>3
  <2>2. /\ gs[i].recipe = fs[i].recipe /\ gs[i].reads = fs[i].reads
        /\ gs[i].sketch = fs[i].sketch
    BY <1>4
  <2>3. \A tool : OperationOf(e, gs[i], tool) = OperationOf(d, fs[i], tool)
    BY <1>10, <2>1, <2>2 DEF OperationOf
  <2>4. SUFFICES ASSUME ~gs[i].dirty, gs[i].commit # NoCommit, gs[i].kind \notin DocumentOnly
                 PROVE  \E tool : gs[i].commit.output
                                    = Append(gs[i].commit.input, OperationOf(e, gs[i], tool))
    BY DEF Fresh
  <2>5. \E tool : gs[i].commit.output
                    = Append(gs[i].commit.input, OperationOf(d, fs[i], tool))
    <3>1. fs[i].kind \notin DocumentOnly
      BY <1>4, <2>4
    <3>2. CASE gs[i] = fs[i]
      <4>1. Fresh(d, fs[i])
        BY <1>2
      <4>2. QED
        BY <2>4, <3>2, <4>1 DEF Fresh
    <3>3. QED
      BY <1>4, <2>4, <3>1, <3>2
  <2>6. QED
    BY <2>3, <2>5
<1>12. Settled(e)
  BY <1>5, <1>9, <1>10, <1>11 DEF Settled
<1>13. QED
  BY <1>12 DEF e

LEMMA RebuiltSettled ==
    ASSUME NEW d, Settled(d), HasFields(d), FeaturesHaveIds(d), NEW from, NEW results,
           \A k \in DOMAIN Steps(d, from) :
             StepResult(d, FeatureOf(d, Steps(d, from)[k]), results[k])
    PROVE  Settled(Rebuilt(d, from, results))
<1>. DEFINE e == Published(d, from, results)
<1>1. Settled(e)
  BY PublishedSettled
<1>2. /\ PublishedKeeps(d, e)
      /\ \A i \in DOMAIN d.features : PublishedFeature(d, from, results, d.features[i], e.features[i])
  BY PublishedFeatures DEF FeaturesHaveIds
<1>. HIDE DEF e
<1>3. HasFields(e)
  BY <1>2 DEF PublishedKeeps, HasFields
<1>4. FeaturesHaveIds(e)
  <2>1. IsSequence(e.features)
    BY <1>2, SequenceOverDomain DEF PublishedKeeps, FeaturesHaveIds
  <2>2. \A i \in DOMAIN e.features : Named(e.features[i])
    BY <1>1 DEF Settled, TypedState, TypedFeature, NodeFields, Named
  <2>3. QED
    BY <1>2, <2>1, <2>2 DEF PublishedKeeps, FeaturesHaveIds
<1>5. QED
  BY <1>1, <1>3, <1>4, ReconciledSettled DEF Rebuilt, e

-----------------------------------------------------------------------------
(* A feature is removed, a feature is added.                               *)

LEMMA CutSettled ==
    ASSUME NEW d, Settled(d), HasFields(d), FeaturesHaveIds(d), NEW i \in DOMAIN d.features,
           \A k \in DOMAIN d.features : d.features[i].id \notin d.features[k].deps,
           NEW cursor
    PROVE  LET e == [d EXCEPT !.cursor = cursor, !.features = Cut(@, i)]
           IN  HasFields(e) /\ FeaturesHaveIds(e) /\ Settled(e)
<1>. DEFINE fs == d.features
            cut == Cut(fs, i)
            e == [d EXCEPT !.cursor = cursor, !.features = Cut(@, i)]
            at(k) == IF k < i THEN k ELSE k + 1
            n == Len(fs)
<1>1. /\ DOMAIN e = DOMAIN d /\ e.features = cut
      /\ e.bodies = d.bodies /\ e.sketches = d.sketches /\ e.head = d.head
      /\ "variable" \in DOMAIN d => e.variable = d.variable
  BY DEF HasFields
<1>2. DOMAIN fs = 1 .. n /\ n \in Nat /\ i \in 1 .. n
  BY LenProperties DEF FeaturesHaveIds, IsSequence
<1>3. /\ IsSequence(cut) /\ Len(cut) = n - 1
      /\ \A k \in 1 .. n - 1 : cut[k] = IF k < i THEN fs[k] ELSE fs[k + 1]
  BY CutSequence DEF FeaturesHaveIds
<1>4. DOMAIN cut = 1 .. n - 1
  BY <1>3, LenProperties DEF IsSequence
<1>. HIDE DEF cut, e, n
<1>5. \A k \in DOMAIN cut : at(k) \in DOMAIN fs /\ at(k) # i /\ cut[k] = fs[at(k)]
  BY <1>2, <1>3, <1>4
<1>6. ASSUME NEW j \in DOMAIN fs, j # i
      PROVE  \E l \in DOMAIN cut : at(l) = j /\ \A k \in DOMAIN cut : j < at(k) => l \in 1 .. k - 1
  <2>. DEFINE l == IF j < i THEN j ELSE j - 1
  <2>1. l \in DOMAIN cut /\ at(l) = j
    BY <1>2, <1>4, <1>6
  <2>2. \A k \in DOMAIN cut : j < at(k) => l \in 1 .. k - 1
    BY <1>2, <1>4, <1>6
  <2>3. QED
    BY <2>1, <2>2
<1>7. \A k, l \in DOMAIN cut : at(k) = at(l) => k = l
  BY <1>2, <1>4
<1>. HIDE DEF at
<1>8. HasFields(e) /\ FeaturesHaveIds(e)
  <2>1. \A k \in DOMAIN cut : Named(cut[k])
    BY <1>5 DEF FeaturesHaveIds
  <2>2. QED
    BY <1>1, <1>3, <2>1 DEF HasFields, FeaturesHaveIds
<1>9. TypedState(e) /\ HeadsOK(e) /\ e.variable = d.variable
  <2>1. Len(cut) <= MaxFeatures
    <3>1. n <= MaxFeatures /\ MaxFeatures \in Nat
      BY DocumentAssumption DEF Settled, TypedState, DocumentAssumption, n
    <3>2. QED
      BY <1>2, <1>3, <3>1
  <2>2. \A k \in DOMAIN cut : TypedFeature(cut[k])
    BY <1>5 DEF Settled, TypedState
  <2>3. QED
    BY <1>1, <2>1, <2>2 DEF Settled, TypedState, HeadsOK
<1>10. Distinct(e)
  BY <1>1, <1>5, <1>7 DEF Settled, Distinct
<1>11. \A s : Drawer(e, s) = Drawer(d, s)
  BY <1>1 DEF Drawer
<1>12. ASSUME NEW k \in DOMAIN cut
       PROVE  TakesDrawnSketch(e, k) /\ Fresh(e, cut[k])
  <2>. DEFINE f == fs[at(k)]
  <2>1. /\ at(k) \in DOMAIN fs /\ cut[k] = f
        /\ TakesDrawnSketch(d, at(k)) /\ Fresh(d, f)
    BY <1>5 DEF Settled
  <2>2. f.sketch # 0 =>
          /\ f.sketch \in DOMAIN d.sketches /\ Drawer(d, f.sketch) \in f.deps
          /\ \E l \in 1 .. k - 1 : cut[l].id = Drawer(d, f.sketch)
          /\ FeatureOf(e, Drawer(d, f.sketch)) = FeatureOf(d, Drawer(d, f.sketch))
    <3>1. SUFFICES ASSUME f.sketch # 0
                   PROVE  /\ f.sketch \in DOMAIN d.sketches /\ Drawer(d, f.sketch) \in f.deps
                          /\ \E l \in 1 .. k - 1 : cut[l].id = Drawer(d, f.sketch)
                          /\ FeatureOf(e, Drawer(d, f.sketch)) = FeatureOf(d, Drawer(d, f.sketch))
      OBVIOUS
    <3>2. PICK j : DrawnAt(d, at(k), j)
      BY <2>1, <3>1, DrawerBefore DEF Settled, FeaturesHaveIds
    <3>3. /\ j \in 1 .. at(k) - 1 /\ j \in DOMAIN fs
          /\ fs[j].id = Drawer(d, f.sketch) /\ fs[j].id \in f.deps
          /\ FeatureOf(d, Drawer(d, f.sketch)) = fs[j]
      BY <3>2 DEF DrawnAt
    <3>4. j # i
      BY <2>1, <3>3
    <3>5. PICK l \in DOMAIN cut : at(l) = j /\ (j < at(k) => l \in 1 .. k - 1)
      BY <1>6, <3>3, <3>4
    <3>6. j < at(k)
      BY <1>2, <2>1, <3>3
    <3>7. cut[l] = fs[j] /\ l \in 1 .. k - 1
      BY <1>5, <3>5, <3>6
    <3>8. FeatureOf(e, cut[l].id) = cut[l]
      BY <1>1, <1>10, FeatureAt
    <3>9. QED
      BY <2>1, <3>1, <3>3, <3>7, <3>8 DEF TakesDrawnSketch
  <2>. HIDE DEF f
  <2>3. TakesDrawnSketch(e, k)
    BY <1>1, <1>11, <2>1, <2>2 DEF TakesDrawnSketch
  <2>4. \A tool : OperationOf(e, f, tool) = OperationOf(d, f, tool)
    BY <1>9, <1>11, <2>2 DEF OperationOf
  <2>5. Fresh(e, f)
    BY <2>1, <2>4 DEF Fresh
  <2>6. QED
    BY <2>1, <2>3, <2>5
<1>13. Settled(e)
  BY <1>1, <1>9, <1>10, <1>12 DEF Settled
<1>14. QED
  BY <1>8, <1>13 DEF e

\* A feature nothing depends on is cut out, and the bodies are folded again.
LEMMA RemovedSettled ==
    ASSUME NEW d, Settled(d), HasFields(d), FeaturesHaveIds(d), NEW i \in DOMAIN d.features,
           \A k \in DOMAIN d.features : d.features[i].id \notin d.features[k].deps,
           NEW cursor
    PROVE  Settled(Reconciled([d EXCEPT !.cursor = cursor, !.features = Cut(@, i)]))
BY CutSettled, ReconciledSettled

\* The bodies and the head after an append: the feature's output or what was there.
LEMMA AppendedHeads ==
    ASSUME NEW d, HasFields(d), HeadsOK(d), NEW node, IsSequence(node.commit.output)
    PROVE  HeadsOK(Appended(d, node))
<1>. DEFINE e == Appended(d, node)
            out == node.commit.output
            made == [madeBy |-> node.id, last |-> node.id, snapshot |-> out]
            whole(x) == {"madeBy", "last", "snapshot"} \subseteq DOMAIN x /\ IsSequence(x.snapshot)
            next(b) == [d.bodies[b] EXCEPT !.last = node.id,
                                           !.snapshot = IF out = None THEN @ ELSE out]
<1>1. e.head = d.head \/ e.head = out
  BY DEF Appended, HasFields
<1>2. \A b \in DOMAIN e.bodies :
        \/ e.bodies[b] = made
        \/ b \in DOMAIN d.bodies /\ (e.bodies[b] = next(b) \/ e.bodies[b] = d.bodies[b])
  BY DEF Appended, HasFields, With
<1>3. whole(made)
  OBVIOUS
<1>4. \A b \in DOMAIN d.bodies : whole(d.bodies[b])
  BY DEF HeadsOK
<1>. HIDE DEF e, made, out
<1>5. \A b \in DOMAIN d.bodies : whole(next(b))
  BY <1>4 DEF out
<1>. HIDE DEF next
<1>6. \A b \in DOMAIN e.bodies : whole(e.bodies[b])
  BY <1>2, <1>3, <1>4, <1>5
<1>7. IsSequence(e.head)
  BY <1>1 DEF HeadsOK, out
<1>8. QED
  BY <1>6, <1>7 DEF HeadsOK, e

LEMMA AppendedSettled ==
    ASSUME NEW d, NEW next \in Identities, Kept(d, next), Settled(d),
           Len(d.features) < MaxFeatures,
           NEW node, TypedFeature(node), Fresh(d, node), node.id = next.feature,
           node.draws \in {0, next.sketch},
           node.sketch # 0 => /\ node.sketch \in DOMAIN d.sketches
                              /\ Drawer(d, node.sketch) \in node.deps
    PROVE  Settled(Appended(d, node))
<1>. DEFINE fs == d.features
            e == Appended(d, node)
            gs == Append(fs, node)
            n == Len(fs)
<1>1. /\ DOMAIN e = DOMAIN d /\ e.features = gs
      /\ "variable" \in DOMAIN d => e.variable = d.variable
  BY DEF Appended, Kept, HasFields
<1>2. /\ DOMAIN d.sketches \subseteq DOMAIN e.sketches
      /\ \A s \in DOMAIN d.sketches :
           (node.draws = 0 \/ s # node.draws) => e.sketches[s] = d.sketches[s]
  BY DEF Appended, Kept, HasFields, With
<1>3. HeadsOK(e)
  BY AppendedHeads, CommitSequences DEF Kept, Settled, TypedFeature
<1>4. /\ IsSequence(gs) /\ n \in Nat /\ Len(gs) = n + 1
      /\ DOMAIN fs = 1 .. n /\ DOMAIN gs = 1 .. n + 1
      /\ \A i \in DOMAIN fs : gs[i] = fs[i]
      /\ gs[n + 1] = node
  BY LongerSequence DEF Kept, FeaturesHaveIds
<1>. HIDE DEF e, gs, n
<1>5. \A i \in DOMAIN gs : i \in DOMAIN fs \/ (i = n + 1 /\ gs[i] = node)
  BY <1>4
<1>6. \A i \in DOMAIN fs : fs[i].id # node.id
  BY DEF Kept, Spent, Identities
<1>7. Distinct(e)
  <2>1. ASSUME NEW i \in DOMAIN gs, NEW j \in DOMAIN gs, gs[i].id = gs[j].id
        PROVE  i = j
    BY <1>4, <1>5, <1>6, <2>1 DEF Settled, Distinct
  <2>2. QED
    BY <1>1, <2>1 DEF Distinct
<1>8. TypedState(e)
  <2>1. \A i \in DOMAIN gs : TypedFeature(gs[i])
    BY <1>4, <1>5 DEF Settled, TypedState
  <2>2. Len(gs) <= MaxFeatures
    BY <1>4, DocumentAssumption DEF DocumentAssumption, n
  <2>3. QED
    BY <1>1, <2>1, <2>2 DEF Settled, TypedState
<1>9. ASSUME NEW s \in DOMAIN d.sketches
      PROVE  /\ Drawer(e, s) = Drawer(d, s)
             /\ \E j \in DOMAIN fs : fs[j].id = Drawer(d, s)
             /\ FeatureOf(e, Drawer(e, s)) = FeatureOf(d, Drawer(d, s))
  <2>1. node.draws = 0 \/ s # node.draws
    BY DEF Kept, Spent, Identities
  <2>2. Drawer(e, s) = Drawer(d, s)
    BY <1>2, <2>1 DEF Drawer
  <2>3. PICK j \in DOMAIN fs : fs[j].id = Drawer(d, s)
    BY DEF Kept, SketchesAreDrawn, Drawer
  <2>4. FeatureOf(d, Drawer(d, s)) = fs[j]
    BY <2>3, FeatureAt DEF Settled
  <2>5. FeatureOf(e, gs[j].id) = gs[j]
    BY <1>1, <1>4, <1>7, FeatureAt
  <2>6. QED
    BY <1>4, <2>2, <2>3, <2>4, <2>5
<1>10. ASSUME NEW f, Fresh(d, f), f.sketch # 0 => f.sketch \in DOMAIN d.sketches
       PROVE  Fresh(e, f)
  <2>1. f.sketch # 0 => FeatureOf(e, Drawer(e, f.sketch)) = FeatureOf(d, Drawer(d, f.sketch))
    BY <1>9, <1>10
  <2>2. e.variable = d.variable
    BY <1>1 DEF Settled, TypedState
  <2>3. \A tool : OperationOf(e, f, tool) = OperationOf(d, f, tool)
    BY <2>1, <2>2 DEF OperationOf
  <2>4. QED
    BY <1>10, <2>3 DEF Fresh
<1>11. ASSUME NEW i \in DOMAIN fs
       PROVE  TakesDrawnSketch(e, i) /\ Fresh(e, gs[i])
  <2>1. TakesDrawnSketch(d, i) /\ Fresh(d, fs[i]) /\ gs[i] = fs[i]
    BY <1>4 DEF Settled
  <2>2. ASSUME fs[i].sketch # 0
        PROVE  /\ fs[i].sketch \in DOMAIN e.sketches
               /\ Drawer(e, fs[i].sketch) \in fs[i].deps
               /\ \E j \in 1 .. i - 1 : gs[j].id = Drawer(e, fs[i].sketch)
    <3>1. /\ fs[i].sketch \in DOMAIN d.sketches
          /\ Drawer(d, fs[i].sketch) \in fs[i].deps
          /\ \E j \in 1 .. i - 1 : fs[j].id = Drawer(d, fs[i].sketch)
      BY <2>1, <2>2 DEF TakesDrawnSketch
    <3>2. Drawer(e, fs[i].sketch) = Drawer(d, fs[i].sketch)
      BY <1>9, <3>1
    <3>3. PICK j \in 1 .. i - 1 : fs[j].id = Drawer(d, fs[i].sketch)
      BY <3>1
    <3>4. j \in DOMAIN fs
      BY <1>4
    <3>5. QED
      BY <1>2, <1>4, <3>1, <3>2, <3>3, <3>4
  <2>3. TakesDrawnSketch(e, i)
    BY <1>1, <2>1, <2>2 DEF TakesDrawnSketch
  <2>4. Fresh(e, fs[i])
    BY <1>10, <2>1 DEF TakesDrawnSketch
  <2>5. QED
    BY <2>1, <2>3, <2>4
<1>12. TakesDrawnSketch(e, n + 1) /\ Fresh(e, gs[n + 1])
  <2>1. ASSUME node.sketch # 0
        PROVE  /\ node.sketch \in DOMAIN e.sketches
               /\ Drawer(e, node.sketch) \in node.deps
               /\ \E j \in 1 .. (n + 1) - 1 : gs[j].id = Drawer(e, node.sketch)
    <3>1. node.sketch \in DOMAIN d.sketches /\ Drawer(d, node.sketch) \in node.deps
      BY <2>1
    <3>2. PICK j \in DOMAIN fs : fs[j].id = Drawer(d, node.sketch)
      BY <1>9, <3>1
    <3>3. Drawer(e, node.sketch) = Drawer(d, node.sketch)
      BY <1>9, <3>1
    <3>4. j \in 1 .. (n + 1) - 1 /\ gs[j] = fs[j]
      BY <1>4, <3>2
    <3>5. QED
      BY <1>2, <3>1, <3>2, <3>3, <3>4
  <2>2. TakesDrawnSketch(e, n + 1)
    BY <1>1, <1>4, <2>1 DEF TakesDrawnSketch
  <2>3. QED
    BY <1>4, <1>10, <2>2
<1>13. QED
  BY <1>1, <1>3, <1>5, <1>7, <1>8, <1>11, <1>12 DEF Settled, e

\* The node an append makes of a draft.
NodeFor(draft, commit, node) ==
  /\ NodeFields \subseteq DOMAIN node
  /\ node.id = ids.feature /\ node.kind = draft.kind /\ node.reads = draft.reads
  /\ node.recipe \in {draft.recipe, doc.variable} /\ node.sketch = draft.sketch
  /\ node.sketch # 0 => Drawer(doc, node.sketch) \in node.deps
  /\ node.makes \in {0, ids.body} /\ node.draws \in {0, ids.sketch}
  /\ node.suppressed = FALSE /\ node.dirty = (commit = NoCommit) /\ node.commit = commit

LEMMA NodeIsFor ==
    ASSUME NEW draft, "recipe" \in DOMAIN draft, NEW commit
    PROVE  NodeFor(draft, commit, Node(draft, commit))
<1>. DEFINE used == IF draft.kind = "sketch" /\ draft.reads
                    THEN [draft EXCEPT !.recipe = doc.variable] ELSE draft
<1>1. /\ used.kind = draft.kind /\ used.reads = draft.reads /\ used.sketch = draft.sketch
      /\ used.recipe \in {draft.recipe, doc.variable}
  OBVIOUS
<1>2. Node(draft, commit) = NodeOf(doc, ids, used, commit)
  BY DEF Node
<1>. HIDE DEF used
<1>3. used.sketch # 0 => Drawer(doc, used.sketch) \in Producers(doc, used)
  BY DEF Producers
<1>4. QED
  BY <1>1, <1>2, <1>3 DEF NodeFor, NodeOf, NodeFields

LEMMA DraftFields ==
    ASSUME NEW draft \in Drafts
    PROVE  /\ "recipe" \in DOMAIN draft /\ draft.kind \in Kinds
           /\ draft.reads \in BOOLEAN /\ draft.recipe \in Recipes
BY DocumentAssumption DEF DocumentAssumption

LEMMA NodeIsTyped ==
    ASSUME NEW draft \in Drafts, Settled(doc), NEW commit, CommitOK(commit)
    PROVE  TypedFeature(Node(draft, commit))
<1>. DEFINE node == Node(draft, commit)
<1>1. NodeFor(draft, commit, node)
  BY DraftFields, NodeIsFor
<1>. HIDE DEF node
<1>2. TypedFeature(node)
  BY <1>1, DraftFields DEF NodeFor, TypedFeature, Settled, TypedState
<1>3. QED
  BY <1>2 DEF node

\* A committed append stands on a body there is.
LEMMA InputIsGiven ==
    ASSUME NEW draft, Settled(doc), MayAppend(doc, draft), Ready(doc, draft)
    PROVE  Given(InputOf(doc, draft))
<1>1. CASE draft.body # 0
  <2>1. draft.body \in DOMAIN doc.bodies
    BY <1>1 DEF MayAppend, InputsExist
  <2>2. IsSequence(doc.bodies[draft.body].snapshot)
    BY <2>1 DEF Settled, HeadsOK
  <2>3. doc.bodies[draft.body].snapshot # None
    BY <1>1 DEF Ready
  <2>4. InputOf(doc, draft) = doc.bodies[draft.body].snapshot
    BY <1>1 DEF InputOf
  <2>5. QED
    BY <2>2, <2>3, <2>4 DEF Given
<1>2. CASE draft.body = 0 /\ draft.kind = "extrude"
  BY <1>2, EmptyIsGiven DEF InputOf
<1>3. CASE draft.body = 0 /\ draft.kind # "extrude"
  <2>1. Given(Shown(doc))
    BY EmptyIsGiven DEF Shown, Given, Settled, HeadsOK
  <2>2. QED
    BY <1>3, <2>1 DEF InputOf
<1>4. QED
  BY <1>1, <1>2, <1>3

LEMMA CommittedNodeOK ==
    ASSUME NEW draft \in Drafts, Settled(doc), MayAppend(doc, draft), Ready(doc, draft)
    PROVE  \E commit : /\ CommittedNode(draft) = Node(draft, commit) /\ CommitOK(commit)
                       /\ Fresh(doc, Node(draft, commit))
<1>. DEFINE bare == Node(draft, NoCommit)
            tool == IF draft.tool = 0 THEN Zero ELSE doc.bodies[draft.tool].snapshot
            input == InputOf(doc, draft)
            commit == Built(doc, bare, input, tool)
            node == Node(draft, commit)
<1>1. CommittedNode(draft) = node
  BY DEF CommittedNode
<1>2. Given(input)
  BY InputIsGiven
<1>3. TypedFeature(bare)
  BY NodeIsTyped DEF CommitOK
<1>4. NodeFor(draft, NoCommit, bare) /\ NodeFor(draft, commit, node)
  BY DraftFields, NodeIsFor
<1>5. bare.recipe = node.recipe
  BY DEF Node, NodeOf
<1>. HIDE DEF bare, node, tool, input
<1>6. StepResult(doc, bare, commit)
  BY <1>2 DEF StepResult
<1>7. IsResult(commit)
  BY <1>3, <1>6, StepResultOK
<1>8. \A t : OperationOf(doc, node, t) = OperationOf(doc, bare, t)
  BY <1>4, <1>5 DEF NodeFor, OperationOf
<1>9. Fresh(doc, node)
  <2>1. ASSUME node.kind \notin DocumentOnly
        PROVE  node.commit.output = Append(node.commit.input, OperationOf(doc, node, tool))
    BY <1>4, <1>8, <2>1, BuiltIsFresh DEF NodeFor
  <2>2. QED
    BY <2>1 DEF Fresh
<1>. HIDE DEF commit
<1>10. QED
  BY <1>1, <1>7, <1>9 DEF CommitOK, node

LEMMA AppendIsSettled ==
    ASSUME NEW draft \in Drafts, AppendCommitted(draft) \/ AppendDirty(draft),
           ids \in Identities, Kept(doc, ids), Settled(doc)
    PROVE  Settled(doc')
<1>1. PICK commit : /\ Grow(Node(draft, commit)) /\ CommitOK(commit)
                    /\ Fresh(doc, Node(draft, commit)) /\ MayAppend(doc, draft)
  <2>1. CASE AppendCommitted(draft)
    BY <2>1, CommittedNodeOK DEF AppendCommitted
  <2>2. CASE AppendDirty(draft)
    <3>1. NodeFor(draft, NoCommit, Node(draft, NoCommit))
      BY DraftFields, NodeIsFor
    <3>2. Node(draft, NoCommit).dirty = TRUE
      BY <3>1 DEF NodeFor
    <3>3. Grow(Node(draft, NoCommit)) /\ MayAppend(doc, draft)
      BY <2>2, Zenon DEF AppendDirty
    <3>4. QED
      BY <3>2, <3>3 DEF CommitOK, Fresh
  <2>3. QED
    BY <2>1, <2>2
<1>. DEFINE node == Node(draft, commit)
<1>2. NodeFor(draft, commit, node) /\ TypedFeature(node)
  BY <1>1, DraftFields, NodeIsFor, NodeIsTyped
<1>3. draft.sketch # 0 => draft.sketch \in DOMAIN doc.sketches
  BY <1>1 DEF MayAppend, InputsExist
<1>4. Fresh(doc, node) /\ Grow(node)
  BY <1>1
<1>. HIDE DEF node
<1>5. doc' = Appended(doc, node) /\ Len(doc.features) < MaxFeatures
  BY <1>4 DEF Grow, Edit
<1>6. QED
  BY <1>2, <1>3, <1>4, <1>5, AppendedSettled DEF NodeFor

-----------------------------------------------------------------------------
(* What a plan in flight has recorded.                                     *)

LEMMA CommitsOfFeatures ==
    ASSUME NEW d, Settled(d)
    PROVE  /\ \A i \in DOMAIN d.features : CommitOK(d.features[i].commit)
           /\ \A id \in IdsOf(d.features) : CommitOK(FeatureOf(d, id).commit)
<1>1. \A i \in DOMAIN d.features : CommitOK(d.features[i].commit)
  BY DEF Settled, TypedState, TypedFeature
<1>2. QED
  BY <1>1, FeatureFound

LEMMA BranchBaseIsSequence ==
    ASSUME NEW d, Settled(d), IsSequence(d.features), NEW from \in IdsOf(d.features), NEW b
    PROVE  IsSequence(BranchBase(d, from, b))
<1>. DEFINE T == { i \in 1 .. (IndexOf(d.features, from) - 1) :
                     d.features[i].commit # NoCommit /\ b \in Branches(d, d.features[i]) }
            i == CHOOSE i \in T : \A j \in T : j <= i
<1>1. BranchBase(d, from, b) = IF T = {} THEN None ELSE d.features[i].commit.output
  BY DEF BranchBase
<1>2. /\ DOMAIN d.features = 1 .. Len(d.features) /\ Len(d.features) \in Nat
      /\ IndexOf(d.features, from) \in DOMAIN d.features
  BY FoundFeature, LenProperties DEF IsSequence
<1>3. T \subseteq 1 .. Len(d.features) /\ T \subseteq DOMAIN d.features
  BY <1>2
<1>. HIDE DEF T
<1>4. T # {} => i \in DOMAIN d.features
  BY <1>2, <1>3, GreatestNumber
<1>. HIDE DEF i
<1>5. T # {} => IsSequence(d.features[i].commit.output)
  BY <1>4, CommitsOfFeatures, CommitSequences
<1>6. QED
  BY <1>1, <1>5, NoneIsSequence

LEMMA ReplayInputIsSequence ==
    ASSUME NEW d, Settled(d), IsSequence(d.features), NEW from \in IdsOf(d.features), NEW b,
           NEW g \in Impacted(d, from), b \in Branches(d, FeatureOf(d, g))
    PROVE  IsSequence(ReplayInput(d, from, b))
<1>. DEFINE plan == InOrder(d, Impacted(d, from))
            T == { i \in DOMAIN plan : b \in Branches(d, FeatureOf(d, plan[i])) }
            k == CHOOSE i \in DOMAIN plan :
                   /\ b \in Branches(d, FeatureOf(d, plan[i]))
                   /\ \A j \in 1 .. (i - 1) : b \notin Branches(d, FeatureOf(d, plan[j]))
            first == FeatureOf(d, plan[k])
            base == BranchBase(d, from, b)
<1>1. /\ base # None => ReplayInput(d, from, b) = base
      /\ base = None => \/ ReplayInput(d, from, b) = Zero
                        \/ ReplayInput(d, from, b) = first.commit.input
  BY DEF ReplayInput
<1>2. Impacted(d, from) \subseteq IdsOf(d.features)
  BY ImpactedFeatures
<1>3. /\ plan \in Seq(Impacted(d, from))
      /\ \E i \in DOMAIN plan : plan[i] = g
  <2>. DEFINE set == Impacted(d, from)
  <2>1. g \in set \intersect IdsOf(d.features) /\ plan = InOrder(d, set)
    BY <1>2
  <2>. HIDE DEF set, plan
  <2>2. /\ InOrder(d, set) \in Seq(set)
        /\ \A id \in set \intersect IdsOf(d.features) :
             \E i \in DOMAIN InOrder(d, set) : InOrder(d, set)[i] = id
    BY InOrderFacts
  <2>3. plan \in Seq(set) /\ \E i \in DOMAIN plan : plan[i] = g
    BY <2>1, <2>2
  <2>4. QED
    BY <2>3 DEF set
<1>. HIDE DEF plan, base
<1>4. DOMAIN plan = 1 .. Len(plan) /\ Len(plan) \in Nat
  BY <1>3, LenProperties
<1>5. T \subseteq 1 .. Len(plan) /\ T # {}
  BY <1>3, <1>4
<1>6. \E i \in T : \A j \in 1 .. i - 1 : j \notin T
  <2>. HIDE DEF T
  <2>1. QED
    BY <1>4, <1>5, FirstNumber
<1>7. k \in DOMAIN plan
  BY <1>4, <1>6
<1>. HIDE DEF k
<1>8. plan[k] \in IdsOf(d.features)
  <2>1. k \in 1 .. Len(plan)
    BY <1>4, <1>7
  <2>2. plan[k] \in Impacted(d, from)
    BY <1>3, <2>1, ElementOfSeq
  <2>3. QED
    BY <1>2, <2>2
<1>9. IsSequence(first.commit.input)
  BY <1>8, CommitsOfFeatures, CommitSequences
<1>10. IsSequence(base)
  BY BranchBaseIsSequence DEF base
<1>. HIDE DEF first
<1>11. QED
  BY <1>1, <1>9, <1>10, EmptyIsGiven DEF Given

PlanOK(t) ==
  /\ {"revision", "base", "from", "results", "failed"} \subseteq DOMAIN t
  /\ t.from \in IdsOf(t.base.features)
  /\ IsSequence(t.results) /\ Len(t.results) <= Len(Steps(t.base, t.from))
  /\ \A k \in DOMAIN t.results :
       StepResult(t.base, FeatureOf(t.base, Steps(t.base, t.from)[k]), t.results[k])

\* A step of a plan is a feature of the planned state.
LEMMA StepFeature ==
    ASSUME NEW d, Settled(d), IsSequence(d.features), NEW from,
           NEW k \in 1 .. Len(Steps(d, from))
    PROVE  /\ k \in DOMAIN Steps(d, from)
           /\ Steps(d, from)[k] \in IdsOf(d.features)
           /\ TypedFeature(FeatureOf(d, Steps(d, from)[k]))
<1>1. k \in DOMAIN Steps(d, from)
  BY StepsFacts, LenProperties DEF IsSequence
<1>2. Steps(d, from)[k] \in IdsOf(d.features)
  BY <1>1, StepsFacts
<1>3. QED
  BY <1>1, <1>2, FeatureFound DEF Settled, TypedState

LEMMA BranchInputIsSequence ==
    ASSUME NEW t, PlanOK(t), Settled(t.base), IsSequence(t.base.features), NEW b
    PROVE  IsSequence(BranchInput(t.base, t.from, t.results, b))
<1>. DEFINE d == t.base
            steps == Steps(d, t.from)
            T == { i \in DOMAIN t.results : b \in Branches(d, FeatureOf(d, steps[i])) }
            k == CHOOSE i \in T : \A j \in T : j <= i
            recorded == t.results[k].output
            unused == \A g \in Impacted(d, t.from) : b \notin Branches(d, FeatureOf(d, g))
<1>1. BranchInput(d, t.from, t.results, b) =
        IF T # {} THEN recorded
        ELSE IF unused THEN None ELSE ReplayInput(d, t.from, b)
  BY DEF BranchInput
<1>2. ASSUME T # {} PROVE IsSequence(recorded)
  <2>1. DOMAIN t.results = 1 .. Len(t.results) /\ Len(t.results) \in Nat
    BY LenProperties DEF PlanOK, IsSequence
  <2>2. T \subseteq 1 .. Len(t.results)
    BY <2>1
  <2>. HIDE DEF T
  <2>3. k \in T
    BY <1>2, <2>1, <2>2, GreatestNumber
  <2>4. k \in 1 .. Len(t.results)
    BY <2>2, <2>3
  <2>. HIDE DEF k
  <2>5. StepResult(d, FeatureOf(d, steps[k]), t.results[k])
    BY <2>1, <2>4 DEF PlanOK
  <2>6. k \in 1 .. Len(steps)
    <3>1. IsSequence(steps)
      BY StepsFacts
    <3>. HIDE DEF steps
    <3>2. Len(steps) \in Nat
      BY <3>1, LenProperties DEF IsSequence
    <3>3. Len(t.results) <= Len(steps)
      BY DEF PlanOK, steps
    <3>4. QED
      BY <2>1, <2>4, <3>2, <3>3
  <2>7. TypedFeature(FeatureOf(d, steps[k]))
    BY <2>6, StepFeature
  <2>8. IsResult(t.results[k])
    BY <2>5, <2>7, StepResultOK
  <2>9. QED
    BY <2>8, CommitSequences DEF CommitOK
<1>3. ASSUME ~unused PROVE IsSequence(ReplayInput(d, t.from, b))
  BY <1>3, ReplayInputIsSequence DEF PlanOK
<1>. HIDE DEF T, recorded, unused
<1>4. QED
  BY <1>1, <1>2, <1>3, NoneIsSequence

LEMMA CallerInputIsGiven ==
    ASSUME NEW t, PlanOK(t), Settled(t.base), IsSequence(t.base.features),
           NEW f, CommitOK(f.commit)
    PROVE  Given(CallerInput(t, f))
<1>. DEFINE expected == ExpectedInput(t.base, t.from, t.results, f)
<1>1. IsSequence(expected)
  BY BranchInputIsSequence, NoneIsSequence DEF ExpectedInput
<1>2. /\ expected # None => CallerInput(t, f) = expected
      /\ (expected = None /\ f.commit # NoCommit) => CallerInput(t, f) = f.commit.input
      /\ (expected = None /\ f.commit = NoCommit) => CallerInput(t, f) = Zero
  BY DEF CallerInput
<1>. HIDE DEF expected
<1>3. QED
  BY <1>1, <1>2, CommitSequences, EmptyIsGiven DEF Given

-----------------------------------------------------------------------------
(* The inductive invariant.                                                *)

\* The counters: at most one body and one sketch is allocated per feature.
CountersOK ==
  /\ ids.feature \in 1 .. MaxIds + 1
  /\ ids.body \in 1 .. ids.feature /\ ids.sketch \in 1 .. ids.feature
  /\ revision \in 0 .. Revisions - 1

OnePlan == rebuild = {} \/ \E t : rebuild = {t}

SettledOK ==
  /\ CountersOK /\ OnePlan
  /\ following \subseteq Sketches
  /\ \A d \in States : Settled(d)
  /\ \A t \in rebuild : PlanOK(t)

Quiet == UNCHANGED ids /\ (UNCHANGED revision \/ BumpRevision) /\ following' = {}

\* What a step does to the counters and to the sketches still to follow.
LEMMA CounterSteps ==
    ASSUME Next
    PROVE  \/ Quiet
           \/ \E draft \in Drafts : \E commit : following = {} /\ Grow(Node(draft, commit))
           \/ \E v \in Values : SetVariable(v)
           \/ \E s \in Sketches : FollowVariable(s)
<1> USE DEF Quiet
<1>1. ASSUME NEW draft \in Drafts, AppendCommitted(draft) \/ AppendDirty(draft)
      PROVE  \E commit : following = {} /\ Grow(Node(draft, commit))
  <2>1. CASE AppendCommitted(draft)
    BY <2>1 DEF AppendCommitted, CommittedNode, Idle
  <2>2. CASE AppendDirty(draft)
    <3>1. following = {} /\ Grow(Node(draft, NoCommit))
      BY <2>2, Zenon DEF AppendDirty, Idle
    <3>2. QED
      BY <3>1
  <2>3. QED
    BY <1>1, <2>1, <2>2
<1>2. ASSUME NEW id \in Features, RemovePlane(id) \/ SetSuppressed(id) \/ BeginRebuild(id)
      PROVE  Quiet
  BY <1>2 DEF RemovePlane, SetSuppressed, BeginRebuild, Idle, Edit
<1>3. ASSUME NEW id \in Features, NEW v \in Recipes, ReplaceAction(id, v)
      PROVE  Quiet
  BY <1>3 DEF ReplaceAction, Idle, Edit
<1>4. ASSUME NEW s \in Sketches, NEW v \in Recipes, ReplacePayload(s, v)
      PROVE  Quiet
  BY <1>4 DEF ReplacePayload, Idle, Edit
<1>5. ASSUME NEW s \in Sketches, AutoHide(s)
      PROVE  Quiet
  BY <1>5 DEF AutoHide, Idle
<1>6. ASSUME NEW s \in Sketches, NEW b \in BOOLEAN, SetSketchVisible(s, b)
      PROVE  Quiet
  BY <1>6 DEF SetSketchVisible, Idle, Edit
<1>7. ASSUME NEW position \in 0 .. Len(doc.features), SetHistoryPosition(position)
      PROVE  Quiet
  BY <1>7 DEF SetHistoryPosition, Idle, Edit
<1>8. ASSUME AbandonLastEdit \/ Undo \/ Redo \/ Reopen \/ DropRebuild
             \/ \E l \in Limits : SetUndoLimit(l)
      PROVE  Quiet
  BY <1>8 DEF AbandonLastEdit, Undo, Redo, Reopen, DropRebuild, SetUndoLimit, Idle
<1>9. ASSUME NEW t \in rebuild, RecordSuccess(t) \/ RecordFailure(t) \/ CommitRebuild(t)
      PROVE  Quiet
  BY <1>9 DEF RecordSuccess, RecordFailure, CommitRebuild, Idle, Amend
<1>10. QED
  BY <1>1, <1>2, <1>3, <1>4, <1>5, <1>6, <1>7, <1>8, <1>9 DEF Next

LEMMA CountersStep ==
    ASSUME CountersOK, Next
    PROVE  CountersOK'
<1>1. MaxIds \in Nat /\ Revisions \in Nat \ {0}
  BY DocumentAssumption DEF DocumentAssumption
<1>2. /\ UNCHANGED ids \/ \E node : ids.feature <= MaxIds /\ ids' = AllocatedAfter(ids, node)
      /\ UNCHANGED revision \/ BumpRevision
  BY CounterSteps DEF Quiet, Grow, Edit, SetVariable, FollowVariable, Amend
<1>3. revision' \in 0 .. Revisions - 1
  BY <1>1, <1>2 DEF CountersOK, BumpRevision
<1>4. CASE UNCHANGED ids
  BY <1>3, <1>4 DEF CountersOK
<1>5. ASSUME NEW node, ids.feature <= MaxIds, ids' = AllocatedAfter(ids, node)
      PROVE  CountersOK'
  <2>1. /\ ids'.feature = ids.feature + 1
        /\ ids'.body \in {ids.body, ids.body + 1}
        /\ ids'.sketch \in {ids.sketch, ids.sketch + 1}
    BY <1>5 DEF AllocatedAfter
  <2>2. QED
    BY <1>1, <1>3, <1>5, <2>1 DEF CountersOK
<1>6. QED
  BY <1>2, <1>4, <1>5

LEMMA FollowingStep ==
    ASSUME Kept(doc, ids), following \subseteq Sketches, Next
    PROVE  (following \subseteq Sketches)'
<1>1. CASE following' = {}
  BY <1>1
<1>2. ASSUME NEW v \in Values, SetVariable(v)
      PROVE  following' \subseteq Sketches'
  <2>. DEFINE e == [doc EXCEPT !.variable = v]
  <2>1. HasFields(e) /\ FeaturesHaveIds(e) /\ e.sketches = doc.sketches
    BY DEF Kept, HasFields, FeaturesHaveIds
  <2>2. doc' = MarkDirty(e, Readers(doc)) /\ following' = Followers(doc)
    BY <1>2 DEF SetVariable, Edit
  <2>. HIDE DEF e
  <2>3. SameObjects(e, doc')
    BY <2>1, <2>2, MarkDirtySame
  <2>4. QED
    BY <2>1, <2>2, <2>3 DEF SameObjects, Sketches, Followers
<1>3. ASSUME NEW s \in Sketches, FollowVariable(s)
      PROVE  following' \subseteq Sketches'
  <2>1. SameObjects(doc, Installed(s, doc.variable))
    BY InstalledSame DEF Sketches
  <2>2. following' \subseteq following /\ doc' \in {doc, Installed(s, doc.variable)}
    BY <1>3 DEF FollowVariable, Amend
  <2>3. QED
    BY <2>1, <2>2 DEF SameObjects, Sketches
<1>4. ASSUME NEW draft, NEW commit, following = {}, Grow(Node(draft, commit))
      PROVE  following' = {}
  BY <1>4 DEF Grow
<1>5. QED
  BY <1>1, <1>2, <1>3, <1>4, CounterSteps DEF Quiet

LEMMA StartedPlan ==
    ASSUME NEW d, IsSequence(d.features), NEW from \in IdsOf(d.features), NEW number
    PROVE  PlanOK([revision |-> number, base |-> d, from |-> from,
                   results |-> << >>, failed |-> FALSE])
<1>1. IsSequence(Steps(d, from))
  BY StepsFacts
<1>2. Len(Steps(d, from)) >= 0
  BY <1>1, LenProperties DEF IsSequence
<1>3. QED
  BY <1>2, EmptyIsSequence DEF PlanOK

\* A step records what the kernel made of its feature.
LEMMA RecordedPlan ==
    ASSUME NEW t, PlanOK(t), Settled(t.base), IsSequence(t.base.features),
           ~t.failed, ~Complete(t), NEW tool
    PROVE  LET r == Built(t.base, NextStep(t), CallerInput(t, NextStep(t)), tool)
           IN  PlanOK([t EXCEPT !.results = Append(@, r)])
<1>. DEFINE steps == Steps(t.base, t.from)
            n == Len(t.results)
            f == NextStep(t)
            r == Built(t.base, f, CallerInput(t, f), tool)
            longer == Append(t.results, r)
            u == [t EXCEPT !.results = Append(@, r)]
<1>1. /\ IsSequence(longer) /\ n \in Nat /\ Len(longer) = n + 1
      /\ DOMAIN t.results = 1 .. n /\ DOMAIN longer = 1 .. n + 1
      /\ \A i \in DOMAIN t.results : longer[i] = t.results[i]
      /\ longer[n + 1] = r
  <2>. HIDE DEF r
  <2>1. IsSequence(t.results)
    BY DEF PlanOK
  <2>2. QED
    BY <2>1, LongerSequence
<1>2. n + 1 \in 1 .. Len(steps)
  <2>1. IsSequence(steps)
    BY StepsFacts DEF PlanOK
  <2>2. Len(t.results) <= Len(steps) /\ Len(t.results) # Len(steps)
    BY DEF PlanOK, Complete
  <2>. HIDE DEF steps
  <2>3. Len(steps) \in Nat
    BY <2>1, LenProperties DEF IsSequence
  <2>4. QED
    BY <1>1, <2>2, <2>3
<1>3. f = FeatureOf(t.base, steps[n + 1])
  BY DEF NextStep
<1>4. CommitOK(f.commit)
  BY <1>2, <1>3, StepFeature DEF TypedFeature
<1>5. StepResult(t.base, f, r)
  <2>1. Given(CallerInput(t, f))
    BY <1>4, CallerInputIsGiven
  <2>2. QED
    BY <2>1 DEF StepResult
<1>6. /\ DOMAIN u = DOMAIN t /\ u.base = t.base /\ u.from = t.from /\ u.results = longer
  BY DEF PlanOK
<1>. HIDE DEF u, longer, r, f, n
<1>7. \A k \in DOMAIN longer : StepResult(t.base, FeatureOf(t.base, steps[k]), longer[k])
  BY <1>1, <1>3, <1>5 DEF PlanOK
<1>8. Len(longer) <= Len(steps)
  BY <1>1, <1>2
<1>. HIDE DEF steps
<1>9. PlanOK(u)
  BY <1>1, <1>6, <1>7, <1>8 DEF PlanOK, steps
<1>10. QED
  BY <1>9 DEF u, r, f

LEMMA PlansStep ==
    ASSUME IdentitiesOK, SettledOK, Next
    PROVE  OnePlan' /\ \A t \in rebuild' : PlanOK(t)
<1>k. \A d \in States : Settled(d) /\ IsSequence(d.features)
  BY DEF SettledOK, IdentitiesOK, Kept, FeaturesHaveIds
<1>s. doc \in States /\ \A t \in rebuild : t.base \in States /\ PlanOK(t)
  BY DEF States, SettledOK
<1>0. CASE UNCHANGED rebuild \/ rebuild' = {}
  BY <1>0, <1>s DEF OnePlan, SettledOK
<1>1. ASSUME NEW draft \in Drafts, AppendCommitted(draft) \/ AppendDirty(draft)
      PROVE  UNCHANGED rebuild
  BY <1>1, Zenon DEF AppendCommitted, AppendDirty, Grow, Edit
<1>2. ASSUME NEW id \in Features, RemovePlane(id) \/ SetSuppressed(id)
      PROVE  UNCHANGED rebuild
  BY <1>2 DEF RemovePlane, SetSuppressed, Edit
<1>3. ASSUME NEW id \in Features, BeginRebuild(id)
      PROVE  OnePlan' /\ \A t \in rebuild' : PlanOK(t)
  <2>. DEFINE t == [revision |-> revision, base |-> doc, from |-> id,
                    results |-> << >>, failed |-> FALSE]
  <2>1. PlanOK(t)
    BY <1>k, <1>s, StartedPlan DEF Features
  <2>2. rebuild' = {t}
    BY <1>3 DEF BeginRebuild
  <2>. HIDE DEF t
  <2>3. QED
    BY <2>1, <2>2 DEF OnePlan
<1>4. ASSUME NEW s \in Sketches, NEW v \in Recipes, ReplacePayload(s, v)
      PROVE  UNCHANGED rebuild
  BY <1>4 DEF ReplacePayload, Edit
<1>5. ASSUME NEW id \in Features, NEW v \in Recipes, ReplaceAction(id, v)
      PROVE  UNCHANGED rebuild
  BY <1>5 DEF ReplaceAction, Edit
<1>6. ASSUME NEW s \in Sketches, AutoHide(s) \/ FollowVariable(s)
      PROVE  UNCHANGED rebuild
  BY <1>6 DEF AutoHide, FollowVariable
<1>7. ASSUME NEW s \in Sketches, NEW b \in BOOLEAN, SetSketchVisible(s, b)
      PROVE  UNCHANGED rebuild
  BY <1>7 DEF SetSketchVisible, Edit
<1>8. ASSUME NEW position \in 0 .. Len(doc.features), SetHistoryPosition(position)
      PROVE  UNCHANGED rebuild
  BY <1>8 DEF SetHistoryPosition, Edit
<1>9. ASSUME NEW v \in Values, SetVariable(v)
      PROVE  UNCHANGED rebuild
  BY <1>9 DEF SetVariable, Edit
<1>10. ASSUME AbandonLastEdit \/ Undo \/ Redo \/ \E l \in Limits : SetUndoLimit(l)
       PROVE  UNCHANGED rebuild
  BY <1>10 DEF AbandonLastEdit, Undo, Redo, SetUndoLimit
<1>11. ASSUME Reopen \/ DropRebuild \/ \E t \in rebuild : CommitRebuild(t)
       PROVE  rebuild' = {}
  BY <1>11 DEF Reopen, DropRebuild, CommitRebuild
<1>12. ASSUME NEW t \in rebuild, RecordSuccess(t)
       PROVE  OnePlan' /\ \A u \in rebuild' : PlanOK(u)
  <2>. DEFINE f == NextStep(t)
              r == Built(t.base, f, CallerInput(t, f), CallerTool(t, f))
              u == [t EXCEPT !.results = Append(@, r)]
  <2>1. ~t.failed /\ ~Complete(t) /\ rebuild' = {u}
    BY <1>12 DEF RecordSuccess
  <2>2. PlanOK(u)
    BY <1>k, <1>s, <2>1, RecordedPlan
  <2>. HIDE DEF u
  <2>3. QED
    BY <2>1, <2>2 DEF OnePlan
<1>13. ASSUME NEW t \in rebuild, RecordFailure(t)
       PROVE  OnePlan' /\ \A u \in rebuild' : PlanOK(u)
  <2>. DEFINE u == [t EXCEPT !.failed = TRUE]
  <2>1. rebuild' = {u}
    BY <1>13 DEF RecordFailure
  <2>2. PlanOK(u)
    BY <1>s DEF PlanOK
  <2>. HIDE DEF u
  <2>3. QED
    BY <2>1, <2>2 DEF OnePlan
<1>14. QED
  BY <1>0, <1>1, <1>2, <1>3, <1>4, <1>5, <1>6, <1>7, <1>8, <1>9, <1>10, <1>11, <1>12,
     <1>13 DEF Next

\* Whatever the step, the present it leaves is settled.
LEMMA PresentIsSettled ==
    ASSUME JournalsOK, IdentitiesOK, SettledOK, Next
    PROVE  Settled(doc')
<1>k. Kept(doc, ids) /\ ids \in Identities /\ HasFields(doc) /\ FeaturesHaveIds(doc)
  BY DEF IdentitiesOK, States, Kept
<1>j. IsSequence(undo) /\ IsSequence(redo)
  BY DEF JournalsOK
<1>s. Settled(doc) /\ \A d \in Journaled : Settled(d)
  BY DEF SettledOK, States
<1>1. ASSUME NEW draft \in Drafts, AppendCommitted(draft) \/ AppendDirty(draft)
      PROVE  Settled(doc')
  BY <1>1, <1>k, <1>s, AppendIsSettled
<1>2. ASSUME NEW id \in Features, RemovePlane(id)
      PROVE  Settled(doc')
  <2>. DEFINE i == IndexOf(doc.features, id)
              e == [doc EXCEPT !.cursor = CursorWithout(id), !.features = Cut(@, i)]
  <2>1. i \in DOMAIN doc.features /\ doc.features[i].id = id
    BY FoundFeature DEF Features
  <2>2. \A j \in DOMAIN doc.features : id \notin doc.features[j].deps
    BY <1>2 DEF RemovePlane
  <2>3. doc' = Reconciled(e)
    BY <1>2 DEF RemovePlane, Edit, Cut
  <2>. HIDE DEF i
  <2>4. Settled(Reconciled(e))
    BY <1>k, <1>s, <2>1, <2>2, RemovedSettled, Zenon
  <2>5. QED
    BY <2>3, <2>4
<1>3. ASSUME NEW id \in Features, NEW v \in Recipes, ReplaceAction(id, v)
      PROVE  Settled(doc')
  <2>. DEFINE f == FeatureOf(doc, id)
              g == [f EXCEPT !.recipe = v]
  <2>1. TypedFeature(f) /\ Named(f)
    BY <1>k, <1>s, FeatureFound DEF Features, Settled, TypedState, FeaturesHaveIds
  <2>2. doc' = MarkDirty(WithFeature(doc, id, g), {id})
    BY <1>3 DEF ReplaceAction, Edit
  <2>3. Placed(f, g) /\ TypedFeature(g)
    BY <2>1 DEF Placed, SameName, Named, TypedFeature, NodeFields
  <2>. HIDE DEF g
  <2>4. QED
    BY <1>k, <1>s, <2>2, <2>3, EditedFeatureSettled DEF Features
<1>4. ASSUME NEW id \in Features, SetSuppressed(id)
      PROVE  Settled(doc')
  <2>. DEFINE f == FeatureOf(doc, id)
              g == [f EXCEPT !.suppressed = ~@]
  <2>1. TypedFeature(f) /\ Named(f)
    BY <1>k, <1>s, FeatureFound DEF Features, Settled, TypedState, FeaturesHaveIds
  <2>2. doc' = MarkDirty(WithFeature(doc, id, g), {id})
    BY <1>4 DEF SetSuppressed, Edit
  <2>3. Placed(f, g) /\ TypedFeature(g)
    BY <2>1 DEF Placed, SameName, Named, TypedFeature, NodeFields
  <2>. HIDE DEF g
  <2>4. QED
    BY <1>k, <1>s, <2>2, <2>3, EditedFeatureSettled DEF Features
<1>5. ASSUME NEW s \in Sketches, NEW v \in Recipes, ReplacePayload(s, v)
      PROVE  Settled(doc')
  <2>1. doc' = Installed(s, v)
    BY <1>5 DEF ReplacePayload, Edit
  <2>2. QED
    BY <1>k, <1>s, <2>1, InstalledSettled DEF Sketches
<1>6. ASSUME NEW s \in Sketches, FollowVariable(s)
      PROVE  Settled(doc')
  <2>1. doc' = doc \/ doc' = Installed(s, doc.variable)
    BY <1>6 DEF FollowVariable, Amend
  <2>2. doc.variable \in Values
    BY <1>s DEF Settled, TypedState
  <2>3. QED
    BY <1>k, <1>s, <2>1, <2>2, InstalledSettled DEF Sketches
<1>7. ASSUME NEW s \in Sketches, AutoHide(s)
      PROVE  Settled(doc')
  <2>1. doc' = [doc EXCEPT !.sketches[s].visible = FALSE,
                           !.sketches[s].hiddenBy = doc.features[Len(doc.features)].id]
    BY <1>7, Zenon DEF AutoHide
  <2>2. Settled([doc EXCEPT !.sketches[s].visible = FALSE,
                            !.sketches[s].hiddenBy = doc.features[Len(doc.features)].id])
    BY <1>k, <1>s, ShownSettled, Zenon
  <2>3. QED
    BY <2>1, <2>2, Zenon
<1>8. ASSUME NEW s \in Sketches, NEW b \in BOOLEAN, SetSketchVisible(s, b)
      PROVE  Settled(doc')
  <2>1. doc' = [doc EXCEPT !.sketches[s].visible = b, !.sketches[s].hiddenBy = 0]
    BY <1>8, Zenon DEF SetSketchVisible, Edit
  <2>2. Settled([doc EXCEPT !.sketches[s].visible = b, !.sketches[s].hiddenBy = 0])
    BY <1>k, <1>s, ShownSettled, Zenon
  <2>3. QED
    BY <2>1, <2>2, Zenon
<1>9. ASSUME NEW position \in 0 .. Len(doc.features), SetHistoryPosition(position)
      PROVE  Settled(doc')
  <2>1. doc' = Reconciled([doc EXCEPT !.cursor = Cursor(doc, position)])
    BY <1>9 DEF SetHistoryPosition, Edit
  <2>2. QED
    BY <1>k, <1>s, <2>1, MovedSettled
<1>10. ASSUME NEW v \in Values, SetVariable(v)
       PROVE  Settled(doc')
  <2>1. doc' = MarkDirty([doc EXCEPT !.variable = v], Readers(doc))
    BY <1>10 DEF SetVariable, Edit
  <2>2. QED
    BY <1>k, <1>s, <2>1, VariableSettled
<1>11. ASSUME AbandonLastEdit \/ Undo \/ Redo
       PROVE  Settled(doc')
  <2>1. undo # << >> => Last(undo) \in Journaled
    BY <1>j, PoppedElements DEF Journaled, Elements
  <2>2. redo # << >> => Last(redo) \in Journaled
    BY <1>j, PoppedElements DEF Journaled, Elements
  <2>3. doc' = doc \/ doc' \in Journaled
    BY <1>11, <2>1, <2>2 DEF AbandonLastEdit, Undo, Redo
  <2>4. QED
    BY <1>s, <2>3
<1>12. ASSUME NEW t \in rebuild, CommitRebuild(t)
       PROVE  Settled(doc')
  <2>1. /\ doc' = Rebuilt(doc, t.from, t.results)
        /\ t.base = doc /\ Len(t.results) = Len(Steps(doc, t.from))
    BY <1>12 DEF CommitRebuild, Current, Complete, Amend
  <2>2. PlanOK(t)
    BY DEF SettledOK
  <2>3. DOMAIN t.results = 1 .. Len(t.results)
    BY <2>2, LenProperties DEF PlanOK, IsSequence
  <2>4. DOMAIN Steps(doc, t.from) = 1 .. Len(Steps(doc, t.from))
    BY <1>k, StepsFacts, LenProperties DEF FeaturesHaveIds, IsSequence
  <2>5. \A k \in DOMAIN Steps(doc, t.from) :
          StepResult(doc, FeatureOf(doc, Steps(doc, t.from)[k]), t.results[k])
    BY <2>1, <2>2, <2>3, <2>4 DEF PlanOK
  <2>6. QED
    BY <1>k, <1>s, <2>1, <2>5, RebuiltSettled
<1>13. ASSUME NEW t \in rebuild, RecordSuccess(t) \/ RecordFailure(t)
       PROVE  Settled(doc')
  BY <1>13, <1>s DEF RecordSuccess, RecordFailure
<1>14. ASSUME NEW id \in Features, BeginRebuild(id)
       PROVE  Settled(doc')
  BY <1>14, <1>s DEF BeginRebuild
<1>15. ASSUME Reopen \/ DropRebuild \/ \E l \in Limits : SetUndoLimit(l)
       PROVE  Settled(doc')
  BY <1>15, <1>s DEF Reopen, DropRebuild, SetUndoLimit
<1>16. QED
  BY <1>1, <1>2, <1>3, <1>4, <1>5, <1>6, <1>7, <1>8, <1>9, <1>10, <1>11, <1>12, <1>13,
     <1>14, <1>15 DEF Next

LEMMA InitSettled == Init => SettledOK
<1>. SUFFICES ASSUME Init PROVE SettledOK
  OBVIOUS
<1>1. /\ ids = [feature |-> 1, body |-> 1, sketch |-> 1] /\ revision = 0
      /\ rebuild = {} /\ following = {} /\ doc = EmptyDocument
      /\ undo = << >> /\ redo = << >>
  BY DEF Init
<1>2. CountersOK /\ OnePlan
  BY <1>1, DocumentAssumption DEF CountersOK, OnePlan, DocumentAssumption
<1>3. States = {doc}
  BY <1>1 DEF States, Journaled
<1>4. doc.variable \in Values
  <2>1. \E v \in Values : \A w \in Values : v <= w
    <3>1. Values # {} /\ Values \subseteq Nat
      BY DocumentAssumption DEF DocumentAssumption
    <3>2. QED
      BY <3>1, LeastNumber
  <2>2. QED
    BY <1>1, <2>1 DEF EmptyDocument
<1>5. /\ "variable" \in DOMAIN doc /\ doc.features = << >> /\ doc.head = None
      /\ DOMAIN doc.bodies = {}
  BY <1>1 DEF EmptyDocument
<1>6. Len(doc.features) = 0 /\ DOMAIN doc.features = {}
  BY <1>5
<1>7. TypedState(doc)
  BY <1>4, <1>5, <1>6, DocumentAssumption DEF DocumentAssumption, TypedState
<1>8. Settled(doc)
  BY <1>5, <1>6, <1>7, NoneIsSequence DEF Settled, HeadsOK, Distinct
<1>9. QED
  BY <1>1, <1>2, <1>3, <1>8 DEF SettledOK

LEMMA StepSettled ==
    ASSUME JournalsOK, IdentitiesOK, SettledOK, [Next]_vars
    PROVE  SettledOK'
<1>1. CASE Next
  <2>1. CountersOK' /\ (following \subseteq Sketches)'
    BY <1>1, CountersStep, FollowingStep DEF SettledOK, IdentitiesOK, States
  <2>2. OnePlan' /\ \A t \in rebuild' : PlanOK(t)
    BY <1>1, PlansStep
  <2>3. Settled(doc')
    BY <1>1, PresentIsSettled
  <2>4. Journaled' \subseteq Journaled \union {doc}
    BY <1>1, JournaledStates
  <2>5. Bases' \subseteq Bases \union {doc}
    BY <1>1, PlannedStates DEF IdentitiesOK, PlansHaveBases
  <2>6. States = {doc} \union Journaled \union Bases /\ States' = {doc'} \union Journaled' \union Bases'
    BY DEF States, Bases
  <2>7. \A d \in States' : Settled(d)
    BY <2>3, <2>4, <2>5, <2>6 DEF SettledOK
  <2>8. QED
    BY <2>1, <2>2, <2>7 DEF SettledOK
<1>2. CASE UNCHANGED vars
  BY <1>2 DEF vars, SettledOK, CountersOK, OnePlan, States, Journaled, Sketches
<1>3. QED
  BY <1>1, <1>2

\* Every state the document is in, can be brought back to or is being rebuilt
\* from is settled, and a plan in flight records, step by step, what the kernel
\* made of the planned state's features.
THEOREM EveryStateIsSettled == Spec => [](JournalsOK /\ IdentitiesOK /\ SettledOK)
<1>1. Init => SettledOK
  BY InitSettled
<1>2. JournalsOK /\ IdentitiesOK /\ SettledOK /\ [Next]_vars => SettledOK'
  BY StepSettled
<1>3. QED
  BY <1>1, <1>2, IdentitiesAreKept, PTL DEF Spec

\* A feature that is not dirty carries the result of the recipe, the variable
\* and the sketch payload the document holds now, whatever was edited while its
\* rebuild was in flight and whatever undo or redo brought back.
THEOREM CleanFeaturesAreCurrent == Spec => []CleanIsCurrent
<1>1. IdentitiesOK /\ SettledOK => CleanIsCurrent
  <2>. SUFFICES ASSUME IdentitiesOK, SettledOK,
                       NEW i \in DOMAIN doc.features, ~doc.features[i].dirty,
                       doc.features[i].commit # NoCommit,
                       doc.features[i].kind \notin DocumentOnly
                PROVE  LET f == doc.features[i]
                           out == f.commit.output
                       IN  out = Append(f.commit.input,
                                        OperationOf(doc, f, out[Len(out)].tool))
    BY DEF CleanIsCurrent
  <2>. DEFINE f == doc.features[i]
              out == f.commit.output
              input == f.commit.input
  <2>1. Fresh(doc, f) /\ CommitOK(f.commit)
    BY DEF SettledOK, States, Settled, TypedState, TypedFeature
  <2>2. PICK tool : out = Append(input, OperationOf(doc, f, tool))
    BY <2>1 DEF Fresh
  <2>3. IsSequence(input)
    BY <2>1, CommitSequences
  <2>. DEFINE op == OperationOf(doc, f, tool)
  <2>4. op.tool = tool
    BY DEF OperationOf, Operation
  <2>. HIDE DEF op, input
  <2>5. out[Len(out)] = op
    BY <2>2, <2>3, AppendedOperation DEF op
  <2>. HIDE DEF out, f
  <2>6. out = Append(input, OperationOf(doc, f, out[Len(out)].tool))
    BY <2>2, <2>4, <2>5
  <2>7. QED
    BY <2>6 DEF out, f, input
<1>2. QED
  BY <1>1, EveryStateIsSettled, PTL

\* The counters stay within their bounds, the journals within the undo limit,
\* at most one rebuild is in flight, and every state undo, redo or a rebuild
\* can make the present is a document of typed features.
THEOREM DocumentIsTyped == Spec => []TypeOK
<1>1. JournalsOK /\ IdentitiesOK /\ SettledOK => TypeOK
  <2>. SUFFICES ASSUME JournalsOK, IdentitiesOK, SettledOK PROVE TypeOK
    OBVIOUS
  <2>1. /\ ids.feature \in 1 .. (MaxIds + 1) /\ ids.body \in 1 .. (MaxIds + 1)
        /\ ids.sketch \in 1 .. (MaxIds + 1)
        /\ revision \in 0 .. (Revisions - 1)
    BY DocumentAssumption DEF DocumentAssumption, SettledOK, CountersOK
  <2>2. limit \in Limits /\ Len(undo) <= limit /\ Len(redo) <= limit
    BY DEF JournalsOK
  <2>3. Cardinality(rebuild) <= 1
    BY FS_EmptySet, FS_Singleton DEF SettledOK, OnePlan
  <2>4. following \subseteq Sketches
    BY DEF SettledOK
  <2>5. ASSUME NEW d \in States
        PROVE  /\ Len(d.features) <= MaxFeatures /\ d.variable \in Values
               /\ \A i \in DOMAIN d.features : TypedFeature(d.features[i])
    BY DEF SettledOK, Settled, TypedState
  <2>6. ASSUME NEW f, TypedFeature(f)
        PROVE  /\ f.kind \in Kinds
               /\ f.recipe \in Recipes \union Values \union {0}
               /\ f.dirty \in BOOLEAN /\ f.suppressed \in BOOLEAN
               /\ f.commit = NoCommit \/ (f.commit.input # None /\ f.commit.output # None)
    BY <2>6, CommitSequences DEF TypedFeature, Given
  <2>7. QED
    BY <2>1, <2>2, <2>3, <2>4, <2>5, <2>6 DEF TypeOK
<1>2. QED
  BY <1>1, EveryStateIsSettled, PTL

-----------------------------------------------------------------------------
(* The sketches that follow the variable.  FollowingOK is the inductive    *)
(* invariant: no sketch has lost its feature, each finds its payload, and  *)
(* only those the handler has not come to are not at the variable.         *)

\* A sketch is drawn on no body, and its feature is worked out or waits to be.
DrawsItsSketch(d, f) ==
  f.draws # 0 =>
    /\ f.kind = "sketch" /\ f.body = 0 /\ f.makes = 0
    /\ f.dirty \/ f.commit # NoCommit
    /\ f.draws \in DOMAIN d.sketches /\ d.sketches[f.draws].madeBy = f.id

\* Nothing is rolled back or suppressed, and every sketch has its feature.
Unrolled(d) ==
  /\ d.cursor = End
  /\ \A i \in DOMAIN d.features :
       ~d.features[i].suppressed /\ DrawsItsSketch(d, d.features[i])
  /\ \A s \in DOMAIN d.sketches :
       /\ s # 0
       /\ {"support", "revision"} \subseteq DOMAIN d.sketches[s] /\ d.sketches[s].support = 0
       /\ \E i \in DOMAIN d.features : d.features[i].draws = s

\* The payload of every sketch is found.
Resolvable(d) ==
  \A i \in DOMAIN d.features :
    d.features[i].draws # 0 => d.sketches[d.features[i].draws].revision = d.features[i].revision

\* Every following sketch is at the value of the variable, or among the late ones.
Agrees(d, late) ==
  \A i \in DOMAIN d.features :
    LET f == d.features[i]
    IN  (f.reads /\ f.draws # 0 /\ f.draws \notin late) => f.recipe = d.variable

InStep(d, late) == Unrolled(d) /\ Resolvable(d) /\ Agrees(d, late)

\* Every state undo and redo bring back has each sketch at its variable, and so
\* has the present but for the sketches the variable's handler has not come to:
\* while there are any, the journal still has the edit that made them late.
FollowingOK ==
  /\ InStep(doc, following)
  /\ \A d \in Journaled : InStep(d, {})
  /\ following # {} => undo # << >>

-----------------------------------------------------------------------------
(* What the sketches are left at when the bodies are folded again.         *)

\* A feature sets the revision of the sketch it draws and of no other.
LEMMA AbsorbedSketch ==
    ASSUME NEW d, Unrolled(d), NEW heads \in HeadStates(d), NEW i \in DOMAIN d.features,
           TakesDrawnSketch(d, i)
    PROVE  LET f == d.features[i]
               drawn == Absorb(d, heads, f).sketches
           IN  /\ f.draws # 0 => drawn[f.draws].revision = f.revision
               /\ \A s \in DOMAIN d.sketches :
                    (f.draws = 0 \/ s # f.draws) => drawn[s] = heads.sketches[s]
<1>. DEFINE f == d.features[i]
            Drawn == [snapshot : Outputs(d), revision : DrawnRevisions(d)]
            built == f.commit # NoCommit /\ Attached(d, f, heads)
            new == [snapshot |-> f.commit.output, revision |-> f.revision]
            drawn == IF built /\ f.draws # 0
                     THEN [heads.sketches EXCEPT ![f.draws] = new] ELSE heads.sketches
            marked == IF f.dirty /\ f.draws # 0
                      THEN [drawn EXCEPT ![f.draws].revision = f.revision] ELSE drawn
<1>1. Absorb(d, heads, f).sketches = marked
  BY DEF Absorb
<1>2. heads.sketches \in [DOMAIN d.sketches -> Drawn]
  BY DEF HeadStates
<1>3. f.draws = 0 => marked = heads.sketches
  OBVIOUS
<1>4. ASSUME f.draws # 0
      PROVE  /\ marked[f.draws].revision = f.revision
             /\ \A s \in DOMAIN d.sketches : s # f.draws => marked[s] = heads.sketches[s]
  <2>1. /\ f.kind = "sketch" /\ f.body = 0 /\ f.makes = 0
        /\ f.dirty \/ f.commit # NoCommit
        /\ f.draws \in DOMAIN d.sketches
    BY <1>4 DEF Unrolled, DrawsItsSketch
  <2>2. f.sketch # 0 => d.sketches[f.sketch].support = 0
    BY DEF TakesDrawnSketch, Unrolled
  <2>3. Branches(d, f) = {}
    BY <2>1, <2>2 DEF Branches
  <2>4. built <=> f.commit # NoCommit
    BY <2>3 DEF Attached
  <2>. HIDE DEF f, built
  <2>5. f.draws \in DOMAIN heads.sketches
    BY <1>2, <2>1
  <2>6. /\ built => drawn = [heads.sketches EXCEPT ![f.draws] = new]
        /\ ~built => drawn = heads.sketches
    BY <1>4
  <2>. HIDE DEF drawn
  <2>7. /\ DOMAIN drawn = DOMAIN heads.sketches
        /\ \A s \in DOMAIN heads.sketches : s # f.draws => drawn[s] = heads.sketches[s]
        /\ built => drawn[f.draws] = new
        /\ ~built => drawn[f.draws] = heads.sketches[f.draws]
    BY <2>5, <2>6
  <2>8. "revision" \in DOMAIN drawn[f.draws]
    <3>1. heads.sketches[f.draws] \in Drawn
      BY <1>2, <2>1
    <3>2. QED
      BY <2>7, <3>1
  <2>9. /\ \A s \in DOMAIN heads.sketches : s # f.draws => marked[s] = heads.sketches[s]
        /\ marked[f.draws].revision = f.revision
    BY <1>4, <2>1, <2>4, <2>5, <2>7, <2>8
  <2>10. QED
    BY <1>2, <2>9
<1>. HIDE DEF marked
<1>5. QED
  BY <1>1, <1>3, <1>4

LEMMA OneDrawer ==
    ASSUME NEW d, Unrolled(d), Distinct(d), NEW i \in DOMAIN d.features, NEW j \in DOMAIN d.features,
           d.features[i].draws # 0, d.features[j].draws = d.features[i].draws
    PROVE  i = j
BY DEF Unrolled, DrawsItsSketch, Distinct

\* With nothing rolled back, every sketch is left at the revision its feature
\* is at.
LEMMA HeadsOfSketches ==
    ASSUME NEW d, Unrolled(d), Settled(d), IsSequence(d.features),
           NEW i \in DOMAIN d.features, d.features[i].draws # 0
    PROVE  Heads(d, Position(d)).sketches[d.features[i].draws].revision = d.features[i].revision
<1>. DEFINE fs == d.features
            N == Len(fs)
<1>1. /\ N \in Nat /\ DOMAIN fs = 1 .. N /\ Position(d) = N
      /\ \A n \in 1 .. N : n - 1 \in 0 .. N
  BY LenProperties DEF IsSequence, Position, Unrolled
<1>2. PICK after : /\ after[N] = Heads(d, N)
                   /\ \A n \in 0 .. N : after[n] \in HeadStates(d)
                   /\ \A n \in 1 .. N : after[n] = Absorb(d, after[n - 1], fs[n])
  <2>1. N \in 0 .. Len(d.features)
    BY <1>1
  <2>2. QED
    BY <2>1, HeadsSteps
<1>3. ASSUME NEW n \in 1 .. N
      PROVE  /\ fs[n].draws # 0 => after[n].sketches[fs[n].draws].revision = fs[n].revision
             /\ \A s \in DOMAIN d.sketches :
                  (fs[n].draws = 0 \/ s # fs[n].draws) =>
                    after[n].sketches[s] = after[n - 1].sketches[s]
  <2>1. after[n - 1] \in HeadStates(d) /\ n \in DOMAIN fs
    BY <1>1, <1>2
  <2>2. TakesDrawnSketch(d, n)
    BY <2>1 DEF Settled
  <2>3. after[n] = Absorb(d, after[n - 1], fs[n])
    BY <1>2
  <2>4. QED
    BY <2>1, <2>2, <2>3, AbsorbedSketch
<1>. DEFINE at(n) == \A k \in 1 .. n : fs[k].draws # 0 =>
                        after[n].sketches[fs[k].draws].revision = fs[k].revision
            G == {n \in 0 .. N : at(n)}
<1>4. 0 \in G
  BY <1>1
<1>5. ASSUME NEW n \in 0 .. (N - 1), n \in G PROVE n + 1 \in G
  <2>1. n + 1 \in 1 .. N /\ n + 1 \in 0 .. N /\ (n + 1) - 1 = n
    BY <1>1
  <2>2. ASSUME NEW k \in 1 .. n + 1, fs[k].draws # 0
        PROVE  after[n + 1].sketches[fs[k].draws].revision = fs[k].revision
    <3>1. CASE k = n + 1
      BY <1>3, <2>1, <2>2, <3>1
    <3>2. CASE k # n + 1
      <4>1. k \in 1 .. n /\ k \in DOMAIN fs /\ n + 1 \in DOMAIN fs
        BY <1>1, <2>1, <3>2
      <4>2. fs[n + 1].draws # fs[k].draws
        BY <2>2, <3>2, <4>1, OneDrawer DEF Settled
      <4>3. after[n + 1].sketches[fs[k].draws] = after[n].sketches[fs[k].draws]
        <5>1. fs[k].draws \in DOMAIN d.sketches
          BY <2>2, <4>1 DEF Unrolled, DrawsItsSketch
        <5>2. QED
          BY <1>3, <2>1, <4>2, <5>1
      <4>4. after[n].sketches[fs[k].draws].revision = fs[k].revision
        BY <1>5, <2>2, <4>1
      <4>5. QED
        BY <4>3, <4>4
    <3>3. QED
      BY <3>1, <3>2
  <2>3. QED
    BY <2>1, <2>2
<1>. HIDE DEF G
<1>6. \A n \in 0 .. N : n \in G
  BY <1>1, <1>4, <1>5, PrefixInduction
<1>7. at(N)
  BY <1>1, <1>6 DEF G
<1>8. QED
  BY <1>1, <1>2, <1>7

-----------------------------------------------------------------------------
(* Steps that leave every sketch with its feature.                         *)

Live(f) == f.dirty \/ f.commit # NoCommit

SameDrawing(f, g) ==
  /\ g.draws = f.draws /\ g.body = f.body /\ g.makes = f.makes
  /\ g.suppressed = f.suppressed /\ g.reads = f.reads
  /\ Live(f) => Live(g)

SameSupports(d, e) ==
  \A s \in DOMAIN d.sketches :
    /\ "support" \in DOMAIN d.sketches[s] =>
         "support" \in DOMAIN e.sketches[s] /\ e.sketches[s].support = d.sketches[s].support
    /\ "revision" \in DOMAIN d.sketches[s] => "revision" \in DOMAIN e.sketches[s]

Carries(d, e) ==
  /\ SameObjects(d, e) /\ SameSupports(d, e)
  /\ \A i \in DOMAIN d.features : SameDrawing(d.features[i], e.features[i])

LEMMA CarriedUnrolled ==
    ASSUME NEW d, NEW e, Unrolled(d), Carries(d, e)
    PROVE  Unrolled(e)
<1>1. /\ DOMAIN e.features = DOMAIN d.features /\ DOMAIN e.sketches = DOMAIN d.sketches
      /\ e.cursor = d.cursor
  BY DEF Carries, SameObjects
<1>2. ASSUME NEW i \in DOMAIN d.features
      PROVE  ~e.features[i].suppressed /\ DrawsItsSketch(e, e.features[i])
  <2>. DEFINE f == d.features[i]
              g == e.features[i]
  <2>1. SameDrawing(f, g) /\ g.id = f.id /\ g.kind = f.kind
    BY DEF Carries, SameObjects, SameName
  <2>2. ~f.suppressed /\ DrawsItsSketch(d, f)
    BY DEF Unrolled
  <2>3. f.draws \in DOMAIN d.sketches => e.sketches[f.draws].madeBy = d.sketches[f.draws].madeBy
    BY DEF Carries, SameObjects
  <2>. HIDE DEF f, g
  <2>4. ~g.suppressed /\ DrawsItsSketch(e, g)
    BY <1>1, <2>1, <2>2, <2>3 DEF SameDrawing, Live, DrawsItsSketch
  <2>5. QED
    BY <2>4 DEF g
<1>3. ASSUME NEW s \in DOMAIN d.sketches
      PROVE  /\ s # 0
             /\ {"support", "revision"} \subseteq DOMAIN e.sketches[s] /\ e.sketches[s].support = 0
             /\ \E i \in DOMAIN e.features : e.features[i].draws = s
  BY <1>1 DEF Unrolled, Carries, SameSupports, SameDrawing
<1>4. QED
  BY <1>1, <1>2, <1>3 DEF Unrolled

LEMMA CarriesTransitive ==
    ASSUME NEW d, NEW e, NEW f, Carries(d, e), Carries(e, f)
    PROVE  Carries(d, f)
<1>1. SameObjects(d, f) /\ DOMAIN e.sketches = DOMAIN d.sketches /\ DOMAIN e.features = DOMAIN d.features
  BY SameObjectsTransitive DEF Carries, SameObjects
<1>2. SameSupports(d, f)
  BY <1>1 DEF Carries, SameSupports
<1>3. ASSUME NEW i \in DOMAIN d.features
      PROVE  SameDrawing(d.features[i], f.features[i])
  <2>1. SameDrawing(d.features[i], e.features[i]) /\ SameDrawing(e.features[i], f.features[i])
    BY <1>1 DEF Carries
  <2>2. QED
    BY <2>1 DEF SameDrawing
<1>4. QED
  BY <1>1, <1>2, <1>3 DEF Carries

\* What the features draw and say stays, and so do the revisions.
SamePayloads(d, e) ==
  \A i \in DOMAIN d.features : d.features[i].draws # 0 =>
    e.features[i].revision = d.features[i].revision /\ e.features[i].recipe = d.features[i].recipe

LEMMA MarkedDrawing ==
    ASSUME NEW e, NEW roots, HasFields(e), NEW i \in DOMAIN e.features,
           NodeFields \subseteq DOMAIN e.features[i]
    PROVE  LET f == e.features[i]
               g == MarkDirty(e, roots).features[i]
           IN  SameDrawing(f, g) /\ g.revision = f.revision /\ g.recipe = f.recipe
<1>. DEFINE impacted == Downstream(e.features, roots \intersect IdsOf(e.features))
            f == e.features[i]
            g == MarkDirty(e, roots).features[i]
<1>1. g = IF f.id \in impacted THEN [f EXCEPT !.dirty = TRUE] ELSE f
  BY DEF MarkDirty, HasFields
<1>. HIDE DEF impacted, f, g
<1>2. NodeFields \subseteq DOMAIN f
  BY DEF f
<1>3. SameDrawing(f, g) /\ g.revision = f.revision /\ g.recipe = f.recipe
  BY <1>1, <1>2 DEF NodeFields, SameDrawing, Live
<1>4. QED
  BY <1>3 DEF f, g

LEMMA MarkedCarries ==
    ASSUME NEW e, NEW roots, HasFields(e), FeaturesHaveIds(e),
           \A i \in DOMAIN e.features : NodeFields \subseteq DOMAIN e.features[i]
    PROVE  /\ Carries(e, MarkDirty(e, roots)) /\ SamePayloads(e, MarkDirty(e, roots))
           /\ MarkDirtyKeeps(e, MarkDirty(e, roots))
<1>. DEFINE m == MarkDirty(e, roots)
<1>1. SameObjects(e, m) /\ MarkDirtyKeeps(e, m)
  BY MarkDirtySame, MarkedRest
<1>2. \A i \in DOMAIN e.features :
        /\ SameDrawing(e.features[i], m.features[i])
        /\ m.features[i].revision = e.features[i].revision
        /\ m.features[i].recipe = e.features[i].recipe
  BY MarkedDrawing
<1>. HIDE DEF m
<1>3. Carries(e, m) /\ SamePayloads(e, m)
  BY <1>1, <1>2 DEF Carries, SameSupports, SamePayloads, MarkDirtyKeeps
<1>4. QED
  BY <1>1, <1>3 DEF m

\* Neither a revision nor a recipe of a drawn sketch changes, nor the variable.
LEMMA CarriedPayloads ==
    ASSUME NEW d, NEW e, NEW late, InStep(d, late), Carries(d, e), SamePayloads(d, e),
           \A s \in DOMAIN d.sketches : e.sketches[s].revision = d.sketches[s].revision,
           e.variable = d.variable
    PROVE  InStep(e, late)
<1>1. Unrolled(e)
  BY CarriedUnrolled DEF InStep
<1>2. DOMAIN e.features = DOMAIN d.features
  BY DEF Carries, SameObjects
<1>3. ASSUME NEW i \in DOMAIN d.features, e.features[i].draws # 0
      PROVE  /\ e.sketches[e.features[i].draws].revision = e.features[i].revision
             /\ (e.features[i].reads /\ e.features[i].draws \notin late)
                  => e.features[i].recipe = e.variable
  <2>1. /\ e.features[i].draws = d.features[i].draws /\ e.features[i].reads = d.features[i].reads
        /\ e.features[i].revision = d.features[i].revision
        /\ e.features[i].recipe = d.features[i].recipe
    BY <1>3 DEF Carries, SameDrawing, SamePayloads
  <2>2. d.features[i].draws \in DOMAIN d.sketches
    BY <1>3, <2>1 DEF InStep, Unrolled, DrawsItsSketch
  <2>3. QED
    BY <1>3, <2>1, <2>2 DEF InStep, Resolvable, Agrees
<1>4. QED
  BY <1>1, <1>2, <1>3 DEF InStep, Resolvable, Agrees

LEMMA ReconciledFollows ==
    ASSUME NEW d, NEW late, Unrolled(d), Agrees(d, late),
           Settled(d), HasFields(d), FeaturesHaveIds(d)
    PROVE  InStep(Reconciled(d), late)
<1>. DEFINE heads == Heads(d, Position(d))
            e == Reconciled(d)
            shown(s) == [d.sketches[s] EXCEPT !.snapshot = heads.sketches[s].snapshot,
                                              !.revision = heads.sketches[s].revision]
<1>1. SameObjects(d, e)
  BY ReconciledSame
<1>2. /\ e.features = d.features
      /\ "variable" \in DOMAIN d => e.variable = d.variable
  BY DEF Reconciled, HasFields
<1>a. \A s \in DOMAIN d.sketches : e.sketches[s] = shown(s)
  BY DEF Reconciled, HasFields
<1>3. e.variable = d.variable
  BY <1>2 DEF Settled, TypedState
<1>4. \A i \in DOMAIN d.features : d.features[i].draws # 0 =>
        heads.sketches[d.features[i].draws].revision = d.features[i].revision
  BY HeadsOfSketches DEF FeaturesHaveIds
<1>. HIDE DEF e, heads
<1>b. ASSUME NEW s \in DOMAIN d.sketches
      PROVE  /\ DOMAIN shown(s) = DOMAIN d.sketches[s]
             /\ shown(s).support = d.sketches[s].support
             /\ shown(s).revision = heads.sketches[s].revision
  <2>. DEFINE old == d.sketches[s]
  <2>1. {"support", "revision"} \subseteq DOMAIN old
    BY DEF Unrolled
  <2>. HIDE DEF old
  <2>2. /\ DOMAIN [old EXCEPT !.snapshot = heads.sketches[s].snapshot,
                             !.revision = heads.sketches[s].revision] = DOMAIN old
        /\ [old EXCEPT !.snapshot = heads.sketches[s].snapshot,
                       !.revision = heads.sketches[s].revision].support = old.support
        /\ [old EXCEPT !.snapshot = heads.sketches[s].snapshot,
                       !.revision = heads.sketches[s].revision].revision
             = heads.sketches[s].revision
    BY <2>1
  <2>3. QED
    BY <2>2 DEF old
<1>. HIDE DEF shown
<1>5. \A s \in DOMAIN d.sketches :
        /\ DOMAIN e.sketches[s] = DOMAIN d.sketches[s]
        /\ e.sketches[s].support = d.sketches[s].support
        /\ e.sketches[s].revision = heads.sketches[s].revision
  BY <1>a, <1>b
<1>6. Carries(d, e)
  BY <1>1, <1>2, <1>5 DEF Carries, SameSupports, SameDrawing
<1>7. Unrolled(e)
  BY <1>6, CarriedUnrolled
<1>8. Resolvable(e)
  <2>1. ASSUME NEW i \in DOMAIN d.features, d.features[i].draws # 0
        PROVE  d.features[i].draws \in DOMAIN d.sketches
    BY <2>1 DEF Unrolled, DrawsItsSketch
  <2>2. QED
    BY <1>2, <1>4, <1>5, <2>1 DEF Resolvable
<1>9. Agrees(e, late)
  BY <1>2, <1>3 DEF Agrees
<1>10. QED
  BY <1>7, <1>8, <1>9 DEF InStep, e

\* A new recipe for a feature that draws no sketch.
LEMMA ReplacedFollows ==
    ASSUME NEW d, NEW late, InStep(d, late), Settled(d), HasFields(d), FeaturesHaveIds(d),
           NEW id \in IdsOf(d.features), NEW recipe,
           FeatureOf(d, id).kind # "sketch"
    PROVE  InStep(MarkDirty(WithFeature(d, id, [FeatureOf(d, id) EXCEPT !.recipe = recipe]),
                              {id}), late)
<1>. DEFINE f == FeatureOf(d, id)
            g == [f EXCEPT !.recipe = recipe]
            e == WithFeature(d, id, g)
            m == MarkDirty(e, {id})
<1>1. PICK k \in DOMAIN d.features : f = d.features[k]
  BY FeatureFound
<1>2. NodeFields \subseteq DOMAIN f /\ f.draws = 0 /\ Named(f)
  BY <1>1 DEF Settled, TypedState, TypedFeature, InStep, Unrolled, DrawsItsSketch, FeaturesHaveIds
<1>3. /\ Placed(f, g) /\ NodeFields \subseteq DOMAIN g /\ SameDrawing(f, g)
  BY <1>2 DEF NodeFields, Placed, SameName, Named, SameDrawing, Live
<1>. HIDE DEF g, f
<1>4. /\ SameObjects(d, e) /\ DOMAIN e = DOMAIN d
      /\ e.sketches = d.sketches
      /\ "variable" \in DOMAIN d => e.variable = d.variable
      /\ \A i \in DOMAIN d.features :
           \/ e.features[i] = g /\ f = d.features[i]
           \/ e.features[i] = d.features[i]
  BY <1>3, OneFeature DEF f
<1>. HIDE DEF e
<1>5. /\ HasFields(e) /\ FeaturesHaveIds(e) /\ e.variable = d.variable
      /\ DOMAIN e.features = DOMAIN d.features
  BY <1>4 DEF SameObjects, SameName, HasFields, FeaturesHaveIds, Settled, TypedState
<1>6. \A i \in DOMAIN d.features :
        /\ NodeFields \subseteq DOMAIN e.features[i]
        /\ SameDrawing(d.features[i], e.features[i])
        /\ d.features[i].draws # 0 => e.features[i] = d.features[i]
  <2>1. \A i \in DOMAIN d.features : NodeFields \subseteq DOMAIN d.features[i]
    BY DEF Settled, TypedState, TypedFeature
  <2>2. \A i \in DOMAIN d.features : SameDrawing(d.features[i], d.features[i])
    BY DEF SameDrawing
  <2>3. QED
    BY <1>2, <1>3, <1>4, <2>1, <2>2
<1>7. Carries(d, e) /\ SamePayloads(d, e)
  BY <1>4, <1>6 DEF Carries, SameSupports, SamePayloads
<1>8. InStep(e, late)
  BY <1>4, <1>5, <1>7, CarriedPayloads
<1>9. Carries(e, m) /\ SamePayloads(e, m) /\ MarkDirtyKeeps(e, m)
  BY <1>5, <1>6, MarkedCarries
<1>10. m.variable = e.variable /\ m.sketches = e.sketches
  BY <1>4, <1>9 DEF MarkDirtyKeeps, Settled, TypedState
<1>. HIDE DEF m
<1>11. InStep(m, late)
  BY <1>8, <1>9, <1>10, CarriedPayloads DEF Carries, SameObjects
<1>12. QED
  BY <1>11 DEF m, e, g, f

\* A sketch takes a payload: it is not late any more when that is the value of
\* the variable.
LEMMA InstalledFollows ==
    ASSUME NEW next, Kept(doc, next), Settled(doc), NEW late, NEW later, InStep(doc, late),
           NEW s \in DOMAIN doc.sketches, NEW payload,
           late \subseteq later \union {s},
           payload = doc.variable \/ ~FeatureOf(doc, Drawer(doc, s)).reads
    PROVE  InStep(Installed(s, payload), later)
<1>. DEFINE f == FeatureOf(doc, Drawer(doc, s))
            id == f.id
            g == [f EXCEPT !.recipe = payload, !.revision = f.revision + 1]
            e == WithFeature(doc, id, g)
            h == [e EXCEPT !.sketches[s].revision = f.revision + 1]
            m == MarkDirty(h, {id})
<1>1. Installed(s, payload) = m
  BY DEF Installed
<1>k. HasFields(doc) /\ FeaturesHaveIds(doc)
  BY DEF Kept
<1>2. id = Drawer(doc, s) /\ id \in IdsOf(doc.features) /\ FeatureOf(doc, id) = f /\ Named(f)
  BY DrawerFound, FoundFeature DEF Kept, FeaturesHaveIds, FeatureOf
<1>3. PICK k \in DOMAIN doc.features : doc.features[k].draws = s
  BY DEF InStep, Unrolled
<1>4. s # 0 /\ doc.features[k].id = doc.sketches[s].madeBy
  BY <1>3 DEF InStep, Unrolled, DrawsItsSketch
<1>5. f = doc.features[k]
  BY <1>4, FeatureAt DEF Settled, Drawer
<1>6. NodeFields \subseteq DOMAIN f /\ f.draws = s
  BY <1>3, <1>5 DEF Settled, TypedState, TypedFeature
<1>7. /\ Placed(f, g) /\ NodeFields \subseteq DOMAIN g /\ SameDrawing(f, g)
      /\ g.recipe = payload /\ g.revision = f.revision + 1
  BY <1>2, <1>6 DEF NodeFields, Placed, SameName, Named, SameDrawing, Live
<1>. HIDE DEF g, f, id
<1>8. /\ SameObjects(doc, e) /\ DOMAIN e = DOMAIN doc /\ e.sketches = doc.sketches
      /\ "variable" \in DOMAIN doc => e.variable = doc.variable
      /\ \A i \in DOMAIN doc.features :
           \/ e.features[i] = g /\ f = doc.features[i]
           \/ e.features[i] = doc.features[i] /\ i # IndexOf(doc.features, id)
  BY <1>k, <1>2, <1>7, OneFeature
<1>9. IndexOf(doc.features, id) = k
  BY <1>2, <1>4, FeatureAt DEF Settled, Drawer
<1>. HIDE DEF e
<1>10. /\ HasFields(e) /\ FeaturesHaveIds(e) /\ e.variable = doc.variable
       /\ DOMAIN e.features = DOMAIN doc.features
  BY <1>k, <1>8 DEF SameObjects, SameName, HasFields, FeaturesHaveIds, Settled, TypedState
<1>11. \A i \in DOMAIN doc.features :
         /\ NodeFields \subseteq DOMAIN e.features[i]
         /\ SameDrawing(doc.features[i], e.features[i])
         /\ i # k => e.features[i] = doc.features[i]
         /\ i = k => e.features[i] = g
  <2>1. \A i \in DOMAIN doc.features : NodeFields \subseteq DOMAIN doc.features[i]
    BY DEF Settled, TypedState, TypedFeature
  <2>2. \A i \in DOMAIN doc.features : SameDrawing(doc.features[i], doc.features[i])
    BY DEF SameDrawing
  <2>3. \A i \in DOMAIN doc.features : f = doc.features[i] => i = k
    BY <1>3, <1>4, <1>6, OneDrawer DEF InStep, Settled
  <2>4. QED
    BY <1>7, <1>8, <1>9, <2>1, <2>2, <2>3
<1>12. /\ SameObjects(e, h) /\ DOMAIN h = DOMAIN e /\ h.features = e.features
       /\ h.variable = e.variable
  BY <1>8, <1>10 DEF HasFields, SameObjects, SameName, FeaturesHaveIds, Settled, TypedState
<1>13. \A r \in DOMAIN doc.sketches :
         /\ DOMAIN h.sketches[r] = DOMAIN doc.sketches[r]
         /\ h.sketches[r].support = doc.sketches[r].support
         /\ r = s => h.sketches[r].revision = f.revision + 1
         /\ r # s => h.sketches[r] = doc.sketches[r]
  <2>1. "sketches" \in DOMAIN e /\ "revision" \in DOMAIN e.sketches[s]
    BY <1>8, <1>10 DEF HasFields, InStep, Unrolled
  <2>2. QED
    BY <1>8, <2>1
<1>. HIDE DEF h
<1>14. HasFields(h) /\ FeaturesHaveIds(h)
  BY <1>10, <1>12 DEF SameObjects, SameName, HasFields, FeaturesHaveIds
<1>15. Carries(doc, h)
  <2>1. SameObjects(doc, h)
    BY <1>8, <1>12, SameObjectsTransitive
  <2>2. SameSupports(doc, h)
    BY <1>13 DEF SameSupports
  <2>3. QED
    BY <1>11, <1>12, <2>1, <2>2 DEF Carries
<1>16. /\ Carries(h, m) /\ SamePayloads(h, m) /\ MarkDirtyKeeps(h, m)
  BY <1>10, <1>11, <1>12, <1>14, MarkedCarries
<1>17. m.variable = h.variable /\ m.sketches = h.sketches
  BY <1>8, <1>12, <1>16 DEF MarkDirtyKeeps, Settled, TypedState
<1>. HIDE DEF m
<1>18. Unrolled(h)
  BY <1>15, CarriedUnrolled DEF InStep
<1>19. ASSUME NEW i \in DOMAIN doc.features, h.features[i].draws # 0
       PROVE  /\ h.sketches[h.features[i].draws].revision = h.features[i].revision
              /\ (h.features[i].reads /\ h.features[i].draws \notin later)
                   => h.features[i].recipe = h.variable
  <2>1. CASE i = k
    <3>1. h.features[i] = g /\ g.draws = s /\ g.reads = f.reads
      BY <1>6, <1>7, <1>11, <1>12, <2>1 DEF SameDrawing
    <3>2. h.sketches[s].revision = g.revision
      BY <1>7, <1>13
    <3>3. f.reads => g.recipe = h.variable
      BY <1>7, <1>10, <1>12 DEF f
    <3>4. QED
      BY <3>1, <3>2, <3>3
  <2>2. CASE i # k
    <3>1. h.features[i] = doc.features[i]
      BY <1>11, <1>12, <2>2
    <3>2. doc.features[i].draws # s /\ doc.features[i].draws \in DOMAIN doc.sketches
      BY <1>3, <1>4, <1>19, <2>2, <3>1, OneDrawer
      DEF InStep, Settled, Unrolled, DrawsItsSketch
    <3>3. h.sketches[doc.features[i].draws].revision = doc.features[i].revision
      BY <1>13, <1>19, <3>1, <3>2 DEF InStep, Resolvable
    <3>4. (doc.features[i].reads /\ doc.features[i].draws \notin later)
            => doc.features[i].recipe = doc.variable
      BY <1>19, <3>1, <3>2 DEF InStep, Agrees
    <3>5. QED
      BY <1>10, <1>12, <3>1, <3>3, <3>4
  <2>3. QED
    BY <2>1, <2>2
<1>20. InStep(h, later)
  <2>1. DOMAIN h.features = DOMAIN doc.features
    BY <1>10, <1>12
  <2>2. QED
    BY <1>18, <1>19, <2>1 DEF InStep, Resolvable, Agrees
<1>21. InStep(m, later)
  BY <1>16, <1>17, <1>20, CarriedPayloads
<1>22. QED
  BY <1>1, <1>21 DEF m, h, e, g, f, id

\* Every sketch that follows the variable is late when the variable changes.
LEMMA VariableFollows ==
    ASSUME NEW d, NEW late, Settled(d), HasFields(d), FeaturesHaveIds(d), InStep(d, late),
           NEW v
    PROVE  InStep(MarkDirty([d EXCEPT !.variable = v], Readers(d)), Followers(d))
<1>. DEFINE e == [d EXCEPT !.variable = v]
            roots == Readers(d)
            m == MarkDirty(e, roots)
<1>1. /\ DOMAIN e = DOMAIN d /\ e.features = d.features /\ e.bodies = d.bodies
      /\ e.sketches = d.sketches /\ e.cursor = d.cursor
      /\ e.variable = v /\ "variable" \in DOMAIN e
  BY DEF HasFields, Settled, TypedState
<1>. HIDE DEF e, roots
<1>2. HasFields(e) /\ FeaturesHaveIds(e)
  BY <1>1 DEF HasFields, FeaturesHaveIds
<1>3. Carries(d, e)
  <2>1. SameObjects(d, e)
    BY <1>1 DEF SameObjects, SameName, FeaturesHaveIds
  <2>2. QED
    BY <1>1, <2>1 DEF Carries, SameSupports, SameDrawing
<1>4. \A i \in DOMAIN e.features : NodeFields \subseteq DOMAIN e.features[i]
  BY <1>1 DEF Settled, TypedState, TypedFeature
<1>5. Carries(e, m) /\ SamePayloads(e, m) /\ MarkDirtyKeeps(e, m)
  BY <1>2, <1>4, MarkedCarries
<1>6. m.variable = e.variable /\ m.sketches = e.sketches
  BY <1>1, <1>5 DEF MarkDirtyKeeps
<1>. HIDE DEF m
<1>7. ASSUME NEW i \in DOMAIN d.features, d.features[i].reads, d.features[i].draws # 0
      PROVE  d.features[i].draws \in Followers(d)
  <2>. DEFINE s == d.features[i].draws
  <2>1. s \in DOMAIN d.sketches /\ Drawer(d, s) = d.features[i].id
    BY <1>7 DEF InStep, Unrolled, DrawsItsSketch, Drawer
  <2>2. FeatureOf(d, Drawer(d, s)) = d.features[i]
    BY <2>1, FeatureAt DEF Settled
  <2>3. SketchIsResolvable(d, s)
    BY <1>7, <2>2 DEF SketchIsResolvable, InStep, Resolvable
  <2>4. QED
    BY <1>7, <2>1, <2>2, <2>3 DEF Followers
<1>8. Unrolled(e) /\ Resolvable(e)
  BY <1>1, <1>3, CarriedUnrolled DEF InStep, Resolvable
<1>9. Agrees(e, Followers(d))
  BY <1>1, <1>7 DEF Agrees
<1>10. InStep(m, Followers(d))
  <2>1. InStep(e, Followers(d))
    BY <1>8, <1>9 DEF InStep
  <2>2. QED
    BY <1>5, <1>6, <2>1, CarriedPayloads
<1>11. QED
  BY <1>10 DEF m, e, roots

\* Showing and hiding a sketch.
LEMMA ShownFollows ==
    ASSUME NEW d, NEW late, Settled(d), HasFields(d), FeaturesHaveIds(d), InStep(d, late),
           NEW s, NEW visible, NEW hider
    PROVE  InStep([d EXCEPT !.sketches[s].visible = visible,
                              !.sketches[s].hiddenBy = hider], late)
<1>. DEFINE e == [d EXCEPT !.sketches[s].visible = visible, !.sketches[s].hiddenBy = hider]
<1>1. /\ DOMAIN e = DOMAIN d /\ e.features = d.features
      /\ "variable" \in DOMAIN d => e.variable = d.variable
  BY DEF HasFields
<1>2. \A r \in DOMAIN d.sketches :
        /\ "support" \in DOMAIN d.sketches[r] =>
             "support" \in DOMAIN e.sketches[r] /\ e.sketches[r].support = d.sketches[r].support
        /\ "revision" \in DOMAIN d.sketches[r] =>
             "revision" \in DOMAIN e.sketches[r] /\ e.sketches[r].revision = d.sketches[r].revision
  BY DEF HasFields
<1>3. SameObjects(d, e)
  BY SketchVisibilitySame, Zenon
<1>. HIDE DEF e
<1>4. e.variable = d.variable
  BY <1>1 DEF Settled, TypedState
<1>5. Carries(d, e) /\ SamePayloads(d, e)
  BY <1>1, <1>2, <1>3 DEF Carries, SameSupports, SameDrawing, SamePayloads
<1>6. \A r \in DOMAIN d.sketches : e.sketches[r].revision = d.sketches[r].revision
  BY <1>2 DEF InStep, Unrolled
<1>7. InStep(e, late)
  BY <1>4, <1>5, <1>6, CarriedPayloads
<1>8. QED
  BY <1>7 DEF e

-----------------------------------------------------------------------------
(* A plan of an unrolled state skips nothing.                              *)

LEMMA NothingDownstream ==
    ASSUME NEW fs, IsSequence(fs)
    PROVE  Downstream(fs, {}) = {}
<1>. DEFINE N == Len(fs)
<1>1. N \in Nat /\ DOMAIN fs = 1 .. N
  BY LenProperties DEF IsSequence
<1>2. PICK g : ReachedBy(g, fs, {})
  BY DownstreamSteps
<1>3. /\ Downstream(fs, {}) = g[N] /\ g[0] = {}
      /\ \A n \in 1 .. N : g[n] = Grown(fs, {}, n, g[n - 1])
  BY <1>2 DEF ReachedBy
<1>. HIDE DEF N
<1>. DEFINE G == {n \in 0 .. N : g[n] = {}}
<1>4. 0 \in G
  BY <1>1, <1>3
<1>5. ASSUME NEW n \in 0 .. (N - 1), n \in G PROVE n + 1 \in G
  <2>1. n + 1 \in 1 .. N /\ n + 1 \in 0 .. N /\ (n + 1) - 1 = n
    BY <1>1
  <2>2. g[n + 1] = Grown(fs, {}, n + 1, g[n]) /\ g[n] = {}
    BY <1>3, <1>5, <2>1
  <2>3. QED
    BY <2>1, <2>2 DEF Grown
<1>. HIDE DEF G
<1>6. \A n \in 0 .. N : n \in G
  BY <1>1, <1>4, <1>5, PrefixInduction
<1>7. QED
  BY <1>1, <1>3, <1>6 DEF G

LEMMA NothingSkipped ==
    ASSUME NEW d, Unrolled(d), IsSequence(d.features)
    PROVE  Skipped(d) = {}
<1>. DEFINE fs == d.features
            N == Len(fs)
            S == Elements(fs)
            out == { f.id : f \in { d.features[i] : i \in { j \in 1 .. Position(d) : d.features[j].suppressed } } }
<1>1. /\ N \in Nat /\ DOMAIN fs = 1 .. N /\ fs \in Seq(S) /\ Position(d) = N
      /\ \A j \in 1 .. N : fs[j] \in S
  BY LenProperties DEF IsSequence, Position, Unrolled, Elements
<1>2. Skipped(d) = Downstream(Active(d), out)
  BY DEF Skipped
<1>3. out = {}
  BY <1>1 DEF Unrolled
<1>. HIDE DEF out, S, N
<1>4. IsSequence(Active(d))
  <2>1. 1 \in Int /\ N \in Int /\ 1 <= N + 1
    BY <1>1
  <2>2. SubSeq(fs, 1, N) \in Seq(S)
    BY <1>1, <2>1, Slice
  <2>3. Active(d) = SubSeq(fs, 1, N)
    BY <1>1 DEF Active
  <2>4. QED
    BY <2>2, <2>3, SequencesAreSequences
<1>5. QED
  BY <1>2, <1>3, <1>4, NothingDownstream

LEMMA NoResultIsNone ==
    ASSUME NEW c, IsResult(c)
    PROVE  c # NoCommit
BY DEF IsResult, Given, NoCommit, Commit

LEMMA CleanedDrawing ==
    ASSUME NEW f, NodeFields \subseteq DOMAIN f, NEW commit, commit # NoCommit
    PROVE  LET g == CleanWith(f, commit)
           IN  /\ SameDrawing(f, g) /\ g.revision = f.revision /\ g.recipe = f.recipe
BY DEF CleanWith, NodeFields, SameDrawing, Live

\* A plan of an unrolled state is published.
LEMMA PublishedFollows ==
    ASSUME NEW d, NEW late, Settled(d), HasFields(d), FeaturesHaveIds(d), InStep(d, late),
           NEW from, NEW results,
           \A k \in DOMAIN Steps(d, from) :
             StepResult(d, FeatureOf(d, Steps(d, from)[k]), results[k])
    PROVE  InStep(Rebuilt(d, from, results), late)
<1>. DEFINE fs == d.features
            e == Published(d, from, results)
            gs == e.features
<1>1. /\ PublishedKeeps(d, e)
      /\ \A i \in DOMAIN fs : PublishedFeature(d, from, results, fs[i], gs[i])
  BY PublishedFeatures DEF FeaturesHaveIds
<1>s. Settled(e)
  BY PublishedSettled
<1>. HIDE DEF e
<1>2. Skipped(d) = {}
  BY NothingSkipped DEF FeaturesHaveIds, InStep
<1>3. ASSUME NEW i \in DOMAIN fs
      PROVE  /\ SameDrawing(fs[i], gs[i])
             /\ gs[i].revision = fs[i].revision /\ gs[i].recipe = fs[i].recipe
             /\ SameName(fs[i], gs[i])
  <2>1. TypedFeature(fs[i]) /\ Named(fs[i])
    BY DEF Settled, TypedState, FeaturesHaveIds
  <2>2. CASE gs[i] = fs[i]
    BY <2>1, <2>2 DEF SameDrawing, SameName
  <2>3. ASSUME NEW k \in DOMAIN Steps(d, from), Steps(d, from)[k] = fs[i].id,
               gs[i] = CleanWith(fs[i], results[k])
        PROVE  /\ SameDrawing(fs[i], gs[i])
               /\ gs[i].revision = fs[i].revision /\ gs[i].recipe = fs[i].recipe
               /\ SameName(fs[i], gs[i])
    <3>1. StepResult(d, fs[i], results[k])
      <4>1. FeatureOf(d, fs[i].id) = fs[i]
        BY FeatureAt DEF Settled
      <4>2. QED
        BY <2>3, <4>1
    <3>2. IsResult(results[k])
      BY <2>1, <3>1, StepResultOK
    <3>3. results[k] # NoCommit /\ CommitOK(results[k])
      BY <3>2, NoResultIsNone DEF CommitOK
    <3>4. TypedFeature(gs[i]) /\ gs[i].id = fs[i].id /\ gs[i].kind = fs[i].kind
      BY <2>1, <2>3, <3>3, CleanWithFields
    <3>5. NodeFields \subseteq DOMAIN fs[i] /\ Named(gs[i])
      BY <2>1, <3>4 DEF TypedFeature, NodeFields, Named
    <3>6. QED
      BY <2>3, <3>3, <3>4, <3>5, CleanedDrawing DEF SameName
  <2>4. QED
    BY <1>1, <1>2, <2>2, <2>3 DEF PublishedFeature
<1>4. IsSequence(gs) /\ DOMAIN gs = DOMAIN fs
  BY <1>1, SequenceOverDomain DEF PublishedKeeps, FeaturesHaveIds
<1>5. Carries(d, e) /\ SamePayloads(d, e)
  BY <1>1, <1>3, <1>4
  DEF Carries, SameObjects, SameSupports, SamePayloads, PublishedKeeps, FeaturesHaveIds
<1>6. e.variable = d.variable
  BY <1>1 DEF PublishedKeeps, Settled, TypedState
<1>7. InStep(e, late)
  BY <1>1, <1>5, <1>6, CarriedPayloads DEF PublishedKeeps
<1>8. HasFields(e) /\ FeaturesHaveIds(e)
  BY <1>1, <1>3, <1>4 DEF HasFields, FeaturesHaveIds, PublishedKeeps, SameName
<1>9. QED
  BY <1>s, <1>7, <1>8, ReconciledFollows DEF Rebuilt, e, InStep

-----------------------------------------------------------------------------
(* A feature is removed, a feature is added.                               *)

\* A feature that draws nothing is removed.
LEMMA RemovedFollows ==
    ASSUME NEW d, NEW late, Settled(d), HasFields(d), FeaturesHaveIds(d), InStep(d, late),
           NEW i \in DOMAIN d.features, d.features[i].draws = 0,
           \A k \in DOMAIN d.features : d.features[i].id \notin d.features[k].deps
    PROVE  InStep(Reconciled([d EXCEPT !.cursor = End, !.features = Cut(@, i)]), late)
<1>. DEFINE fs == d.features
            n == Len(fs)
            cut == Cut(fs, i)
            e == [d EXCEPT !.cursor = End, !.features = Cut(@, i)]
<1>1. HasFields(e) /\ FeaturesHaveIds(e) /\ Settled(e)
  BY CutSettled, Zenon
<1>2. /\ e.features = cut /\ e.sketches = d.sketches /\ e.cursor = End
      /\ "variable" \in DOMAIN d => e.variable = d.variable
  BY DEF HasFields
<1>3. DOMAIN fs = 1 .. n /\ n \in Nat /\ i \in 1 .. n
  BY LenProperties DEF FeaturesHaveIds, IsSequence
<1>4. /\ IsSequence(cut) /\ Len(cut) = n - 1
      /\ \A k \in 1 .. n - 1 : cut[k] = IF k < i THEN fs[k] ELSE fs[k + 1]
  BY CutSequence DEF FeaturesHaveIds
<1>5. DOMAIN cut = 1 .. n - 1
  BY <1>4, LenProperties DEF IsSequence
<1>. HIDE DEF cut, e, n
<1>6. \A k \in DOMAIN cut : \E j \in DOMAIN fs : cut[k] = fs[j]
  <2>1. ASSUME NEW k \in DOMAIN cut
        PROVE  \E j \in DOMAIN fs : cut[k] = fs[j]
    <3>1. k \in 1 .. n - 1 /\ k \in DOMAIN fs /\ k + 1 \in DOMAIN fs
      BY <1>3, <1>5
    <3>2. cut[k] = fs[k] \/ cut[k] = fs[k + 1]
      BY <1>4, <3>1
    <3>3. QED
      BY <3>1, <3>2
  <2>2. QED
    BY <2>1
<1>7. ASSUME NEW j \in DOMAIN fs, j # i
      PROVE  \E k \in DOMAIN cut : cut[k] = fs[j]
  <2>1. CASE j < i
    BY <1>3, <1>4, <1>5, <1>7, <2>1
  <2>2. CASE ~(j < i)
    <3>1. j - 1 \in DOMAIN cut /\ cut[j - 1] = fs[j]
      BY <1>3, <1>4, <1>5, <1>7, <2>2
    <3>2. QED
      BY <3>1
  <2>3. QED
    BY <2>1, <2>2
<1>8. \A s \in DOMAIN d.sketches : \E k \in DOMAIN cut : cut[k].draws = s
  <2>1. ASSUME NEW s \in DOMAIN d.sketches
        PROVE  \E k \in DOMAIN cut : cut[k].draws = s
    <3>1. PICK j \in DOMAIN fs : fs[j].draws = s
      BY DEF InStep, Unrolled
    <3>2. j # i
      BY <3>1 DEF InStep, Unrolled
    <3>3. QED
      BY <1>7, <3>1, <3>2
  <2>2. QED
    BY <2>1
<1>9. \A k \in DOMAIN cut : ~cut[k].suppressed /\ DrawsItsSketch(e, cut[k])
  <2>1. \A j \in DOMAIN fs : ~fs[j].suppressed /\ DrawsItsSketch(e, fs[j])
    BY <1>2 DEF InStep, Unrolled, DrawsItsSketch
  <2>2. QED
    BY <1>6, <2>1
<1>10. Unrolled(e)
  BY <1>2, <1>8, <1>9 DEF InStep, Unrolled
<1>11. Agrees(e, late)
  <2>1. e.variable = d.variable
    BY <1>2 DEF Settled, TypedState
  <2>2. QED
    BY <1>2, <1>6, <2>1 DEF InStep, Agrees
<1>12. QED
  BY <1>1, <1>10, <1>11, ReconciledFollows DEF e

\* A feature is added: a sketch on no body, drawn at the variable it follows,
\* or a feature that draws nothing.
LEMMA AppendedFollows ==
    ASSUME NEW d, NEW next \in Identities, Kept(d, next), Settled(d), InStep(d, {}),
           next.sketch # 0,
           NEW node, TypedFeature(node), node.id = next.feature, ~node.suppressed,
           node.dirty = (node.commit = NoCommit),
           node.draws # 0 => /\ node.draws = next.sketch /\ node.kind = "sketch"
                             /\ node.body = 0 /\ node.makes = 0
                             /\ node.reads => node.recipe = d.variable
    PROVE  InStep(Appended(d, node), {})
<1>. DEFINE fs == d.features
            e == Appended(d, node)
            gs == Append(fs, node)
            n == Len(fs)
            drawn == [madeBy |-> node.id, support |-> node.body, revision |-> node.revision,
                      snapshot |-> node.commit.output, visible |-> TRUE, hiddenBy |-> 0]
<1>1. /\ e.features = gs /\ e.cursor = End
      /\ "variable" \in DOMAIN d => e.variable = d.variable
      /\ node.draws = 0 => e.sketches = d.sketches
      /\ node.draws # 0 => e.sketches = With(d.sketches, node.draws, drawn)
  BY DEF Appended, Kept, HasFields
<1>2. e.variable = d.variable
  BY <1>1 DEF Settled, TypedState
<1>. HIDE DEF drawn
<1>3. ASSUME NEW s \in DOMAIN e.sketches
      PROVE  \/ s \in DOMAIN d.sketches /\ s # node.draws /\ e.sketches[s] = d.sketches[s]
             \/ node.draws # 0 /\ s = node.draws /\ e.sketches[s] = drawn
  <2>1. \A r \in DOMAIN d.sketches : r # 0 /\ r # next.sketch
    BY DEF Kept, Spent, Identities, InStep, Unrolled
  <2>2. CASE node.draws = 0
    BY <1>1, <2>1, <2>2
  <2>3. CASE node.draws # 0
    BY <1>1, <2>1, <2>3 DEF With
  <2>4. QED
    BY <2>2, <2>3
<1>4. /\ DOMAIN d.sketches \subseteq DOMAIN e.sketches
      /\ \A s \in DOMAIN d.sketches : e.sketches[s] = d.sketches[s]
      /\ node.draws # 0 => node.draws \in DOMAIN e.sketches /\ e.sketches[node.draws] = drawn
  <2>1. \A r \in DOMAIN d.sketches : r # next.sketch
    BY DEF Kept, Spent, Identities
  <2>2. CASE node.draws = 0
    BY <1>1, <2>2
  <2>3. CASE node.draws # 0
    BY <1>1, <2>1, <2>3 DEF With
  <2>4. QED
    BY <2>2, <2>3
<1>5. /\ n \in Nat /\ DOMAIN fs = 1 .. n /\ DOMAIN gs = 1 .. n + 1
      /\ \A i \in DOMAIN fs : gs[i] = fs[i]
      /\ gs[n + 1] = node
  BY LongerSequence DEF Kept, FeaturesHaveIds
<1>. HIDE DEF e, gs, n
<1>6. \A i \in DOMAIN gs : (i \in DOMAIN fs /\ gs[i] = fs[i]) \/ gs[i] = node
  BY <1>5
<1>7. /\ drawn.madeBy = node.id /\ drawn.support = node.body /\ drawn.revision = node.revision
      /\ {"support", "revision"} \subseteq DOMAIN drawn
  BY DEF drawn
<1>8. ASSUME NEW f, ~f.suppressed, DrawsItsSketch(d, f),
             f.draws # 0 => /\ d.sketches[f.draws].revision = f.revision
                            /\ f.reads => f.recipe = d.variable
      PROVE  /\ ~f.suppressed /\ DrawsItsSketch(e, f)
             /\ f.draws # 0 => /\ e.sketches[f.draws].revision = f.revision
                               /\ f.reads => f.recipe = e.variable
  BY <1>2, <1>4, <1>8 DEF DrawsItsSketch
<1>9. /\ ~node.suppressed /\ DrawsItsSketch(e, node)
      /\ node.draws # 0 => /\ e.sketches[node.draws].revision = node.revision
                           /\ node.reads => node.recipe = e.variable
  BY <1>2, <1>4, <1>7 DEF DrawsItsSketch
<1>10. ASSUME NEW i \in DOMAIN gs
       PROVE  /\ ~gs[i].suppressed /\ DrawsItsSketch(e, gs[i])
              /\ gs[i].draws # 0 => /\ e.sketches[gs[i].draws].revision = gs[i].revision
                                    /\ gs[i].reads => gs[i].recipe = e.variable
  <2>1. CASE i \in DOMAIN fs /\ gs[i] = fs[i]
    <3>1. /\ ~fs[i].suppressed /\ DrawsItsSketch(d, fs[i])
          /\ fs[i].draws # 0 => /\ d.sketches[fs[i].draws].revision = fs[i].revision
                                /\ fs[i].reads => fs[i].recipe = d.variable
      BY <2>1 DEF InStep, Unrolled, Resolvable, Agrees
    <3>2. QED
      BY <1>8, <2>1, <3>1
  <2>2. CASE gs[i] = node
    BY <1>9, <2>2
  <2>3. QED
    BY <1>6, <2>1, <2>2
<1>11. ASSUME NEW s \in DOMAIN e.sketches
       PROVE  /\ s # 0
              /\ {"support", "revision"} \subseteq DOMAIN e.sketches[s] /\ e.sketches[s].support = 0
              /\ \E i \in DOMAIN gs : gs[i].draws = s
  <2>1. CASE s \in DOMAIN d.sketches /\ e.sketches[s] = d.sketches[s]
    <3>1. PICK i \in DOMAIN fs : fs[i].draws = s
      BY <2>1 DEF InStep, Unrolled
    <3>2. i \in DOMAIN gs /\ gs[i].draws = s
      BY <1>5, <3>1
    <3>3. QED
      BY <2>1, <3>2 DEF InStep, Unrolled
  <2>2. CASE node.draws # 0 /\ s = node.draws /\ e.sketches[s] = drawn
    <3>1. n + 1 \in DOMAIN gs /\ gs[n + 1].draws = s
      BY <1>5, <2>2
    <3>2. QED
      BY <1>7, <2>2, <3>1
  <2>3. QED
    BY <1>3, <2>1, <2>2
<1>12. QED
  BY <1>1, <1>10, <1>11 DEF InStep, Unrolled, Resolvable, Agrees, e

-----------------------------------------------------------------------------
(* Every step.                                                             *)

\* Nobody moves the history cursor or suppresses a feature, the last edit can
\* be taken back, and sketches are drawn on no body.
KeepsTheTimeline ==
  /\ Calls \intersect {"cursor", "suppress"} = {}
  /\ 0 \notin Limits
  /\ \A draft \in Drafts : draft.kind = "sketch" => draft.body = 0

\* What a draft of a sketch becomes.
LEMMA NodeDraws ==
    ASSUME NEW draft \in Drafts, NEW commit
    PROVE  LET node == Node(draft, commit)
           IN  node.draws # 0 =>
                 /\ node.draws = ids.sketch /\ node.kind = "sketch" /\ draft.kind = "sketch"
                 /\ node.body = draft.body /\ node.makes = 0
                 /\ node.reads => node.recipe = doc.variable
<1>. DEFINE used == IF draft.kind = "sketch" /\ draft.reads
                    THEN [draft EXCEPT !.recipe = doc.variable] ELSE draft
            node == Node(draft, commit)
<1>1. /\ used.kind = draft.kind /\ used.reads = draft.reads /\ used.body = draft.body
      /\ (draft.kind = "sketch" /\ draft.reads) => used.recipe = doc.variable
  BY DraftFields
<1>2. node = NodeOf(doc, ids, used, commit)
  BY DEF Node
<1>. HIDE DEF used
<1>3. /\ node.kind = used.kind /\ node.body = used.body /\ node.reads = used.reads
      /\ node.recipe = used.recipe
      /\ node.draws = IF used.kind = "sketch" THEN ids.sketch ELSE 0
      /\ node.makes = IF used.kind = "extrude" THEN ids.body ELSE 0
  BY <1>2 DEF NodeOf
<1>. HIDE DEF node
<1>4. node.draws # 0 =>
        /\ node.draws = ids.sketch /\ node.kind = "sketch" /\ draft.kind = "sketch"
        /\ node.body = draft.body /\ node.makes = 0
        /\ node.reads => node.recipe = doc.variable
  BY <1>1, <1>3
<1>5. QED
  BY <1>4 DEF node

LEMMA AppendFollows ==
    ASSUME KeepsTheTimeline, NEW draft \in Drafts, AppendCommitted(draft) \/ AppendDirty(draft),
           ids \in Identities, ids.sketch # 0, Kept(doc, ids), Settled(doc), InStep(doc, {})
    PROVE  InStep(doc', {})
<1>1. PICK commit : Grow(Node(draft, commit)) /\ CommitOK(commit)
  <2>1. CASE AppendCommitted(draft)
    BY <2>1, CommittedNodeOK DEF AppendCommitted
  <2>2. CASE AppendDirty(draft)
    <3>1. Grow(Node(draft, NoCommit))
      BY <2>2, Zenon DEF AppendDirty
    <3>2. QED
      BY <3>1 DEF CommitOK
  <2>3. QED
    BY <2>1, <2>2
<1>. DEFINE node == Node(draft, commit)
<1>2. NodeFor(draft, commit, node) /\ TypedFeature(node)
  BY <1>1, DraftFields, NodeIsFor, NodeIsTyped
<1>3. node.draws # 0 =>
        /\ node.draws = ids.sketch /\ node.kind = "sketch" /\ node.body = 0 /\ node.makes = 0
        /\ node.reads => node.recipe = doc.variable
  BY NodeDraws DEF KeepsTheTimeline
<1>4. Grow(node)
  BY <1>1
<1>. HIDE DEF node
<1>5. doc' = Appended(doc, node)
  BY <1>4 DEF Grow, Edit
<1>6. QED
  BY <1>2, <1>3, <1>5, AppendedFollows DEF NodeFor

\* A sketch finds its feature through the record of who made it.
LEMMA DrawnBy ==
    ASSUME NEW d, Distinct(d), Unrolled(d), NEW s \in DOMAIN d.sketches
    PROVE  \E k \in DOMAIN d.features :
             d.features[k].draws = s /\ FeatureOf(d, Drawer(d, s)) = d.features[k]
<1>1. PICK k \in DOMAIN d.features : d.features[k].draws = s
  BY DEF Unrolled
<1>2. d.features[k].id = Drawer(d, s)
  BY <1>1 DEF Unrolled, DrawsItsSketch, Drawer
<1>3. QED
  BY <1>1, <1>2, FeatureAt

\* A sketch that need not take the value of the variable is at it already.
LEMMA PassedFollows ==
    ASSUME InStep(doc, following), Distinct(doc), NEW s \in Sketches,
           ~MayInstall(s, doc.variable)
    PROVE  InStep(doc, following \ {s})
<1>1. PICK k \in DOMAIN doc.features :
        doc.features[k].draws = s /\ FeatureOf(doc, Drawer(doc, s)) = doc.features[k]
  BY DrawnBy DEF InStep, Sketches
<1>2. doc.features[k].draws # 0
  BY <1>1 DEF InStep, Unrolled, Sketches
<1>3. doc.sketches[s].revision = doc.features[k].revision
  BY <1>1, <1>2 DEF InStep, Resolvable
<1>4. doc.features[k].recipe = doc.variable
  BY <1>1, <1>3 DEF MayInstall
<1>5. \A i \in DOMAIN doc.features : doc.features[i].draws = s => i = k
  BY <1>1, <1>2, OneDrawer DEF InStep
<1>6. QED
  BY <1>4, <1>5 DEF InStep, Agrees

\* Whatever the step, the present it leaves has every sketch at the variable,
\* but for those the variable's handler has not come to.
LEMMA PresentFollows ==
    ASSUME KeepsTheTimeline, JournalsOK, IdentitiesOK, SettledOK, FollowingOK, Next
    PROVE  InStep(doc', following')
<1>k. Kept(doc, ids) /\ ids \in Identities /\ HasFields(doc) /\ FeaturesHaveIds(doc)
  BY DEF IdentitiesOK, States, Kept
<1>j. IsSequence(undo) /\ IsSequence(redo)
  BY DEF JournalsOK
<1>s. Settled(doc) /\ Distinct(doc)
  BY DEF SettledOK, States, Settled
<1>f. InStep(doc, following) /\ \A d \in Journaled : InStep(d, {})
  BY DEF FollowingOK
<1>c. doc.cursor = End
  BY <1>f DEF InStep, Unrolled
<1>1. ASSUME NEW draft \in Drafts, AppendCommitted(draft) \/ AppendDirty(draft)
      PROVE  InStep(doc', following')
  <2>1. following = {} /\ following' = {}
    <3>1. CASE AppendCommitted(draft)
      BY <3>1 DEF AppendCommitted, Grow, Idle
    <3>2. CASE AppendDirty(draft)
      BY <3>2 DEF AppendDirty, Grow, Idle
    <3>3. QED
      BY <1>1, <3>1, <3>2
  <2>2. ids.sketch # 0
    BY DEF SettledOK, CountersOK
  <2>3. InStep(doc, {})
    BY <1>f, <2>1
  <2>4. InStep(doc', {})
    BY <1>1, <1>k, <1>s, <2>2, <2>3, AppendFollows
  <2>5. QED
    BY <2>1, <2>4
<1>2. ASSUME NEW id \in Features, RemovePlane(id)
      PROVE  InStep(doc', following')
  <2>. DEFINE i == IndexOf(doc.features, id)
              e == [doc EXCEPT !.cursor = End, !.features = Cut(@, i)]
  <2>1. i \in DOMAIN doc.features /\ doc.features[i].id = id
    BY FoundFeature DEF Features
  <2>2. \A j \in DOMAIN doc.features : id \notin doc.features[j].deps
    BY <1>2 DEF RemovePlane
  <2>3. doc.features[i].draws = 0
    BY <1>2, <1>f, <2>1 DEF RemovePlane, FeatureOf, InStep, Unrolled, DrawsItsSketch
  <2>4. CursorWithout(id) = End
    <3>1. id \in Nat
      BY <1>k, <2>1 DEF Kept, Spent
    <3>2. End # id
      BY <3>1 DEF End
    <3>3. QED
      BY <1>c, <3>2 DEF CursorWithout
  <2>5. doc' = Reconciled(e)
    BY <1>2, <2>4 DEF RemovePlane, Edit, Cut
  <2>6. following' = following
    BY <1>2 DEF RemovePlane
  <2>. HIDE DEF i
  <2>7. InStep(Reconciled(e), following)
    BY <1>k, <1>s, <1>f, <2>1, <2>2, <2>3, RemovedFollows, Zenon
  <2>8. QED
    BY <2>5, <2>6, <2>7
<1>3. ASSUME NEW id \in Features, NEW v \in Recipes, ReplaceAction(id, v)
      PROVE  InStep(doc', following')
  <2>. DEFINE f == FeatureOf(doc, id)
              g == [f EXCEPT !.recipe = v]
  <2>1. doc' = MarkDirty(WithFeature(doc, id, g), {id}) /\ following' = following
    BY <1>3 DEF ReplaceAction, Edit
  <2>2. f.kind # "sketch"
    BY <1>3 DEF ReplaceAction, DocumentOnly
  <2>3. InStep(MarkDirty(WithFeature(doc, id, g), {id}), following)
    BY <1>k, <1>s, <1>f, <2>2, ReplacedFollows DEF Features
  <2>4. QED
    BY <2>1, <2>3
<1>4. ASSUME NEW id \in Features, SetSuppressed(id)
      PROVE  FALSE
  BY <1>4 DEF SetSuppressed, Idle, KeepsTheTimeline
<1>5. ASSUME NEW s \in Sketches, NEW v \in Recipes, ReplacePayload(s, v)
      PROVE  InStep(doc', following')
  <2>1. doc' = Installed(s, v) /\ following = {} /\ following' = {}
    BY <1>5 DEF ReplacePayload, Edit, Idle
  <2>2. ~FeatureOf(doc, Drawer(doc, s)).reads
    BY <1>5 DEF ReplacePayload
  <2>3. InStep(doc, {})
    BY <1>f, <2>1
  <2>4. InStep(Installed(s, v), {})
    BY <1>k, <1>s, <2>2, <2>3, InstalledFollows DEF Sketches
  <2>5. QED
    BY <2>1, <2>4
<1>6. ASSUME NEW s \in Sketches, FollowVariable(s)
      PROVE  InStep(doc', following')
  <2>1. following' = following \ {s}
    BY <1>6 DEF FollowVariable
  <2>2. CASE MayInstall(s, doc.variable)
    <3>1. doc' = Installed(s, doc.variable)
      BY <1>6, <2>2 DEF FollowVariable, Amend
    <3>2. following \subseteq (following \ {s}) \union {s}
      OBVIOUS
    <3>3. InStep(Installed(s, doc.variable), following \ {s})
      BY <1>k, <1>s, <1>f, <3>2, InstalledFollows DEF Sketches
    <3>4. QED
      BY <2>1, <3>1, <3>3
  <2>3. CASE ~MayInstall(s, doc.variable)
    <3>1. doc' = doc
      BY <1>6, <2>3 DEF FollowVariable
    <3>2. QED
      BY <1>s, <1>f, <2>1, <2>3, <3>1, PassedFollows
  <2>4. QED
    BY <2>2, <2>3
<1>7. ASSUME NEW s \in Sketches, AutoHide(s)
      PROVE  InStep(doc', following')
  <2>1. /\ doc' = [doc EXCEPT !.sketches[s].visible = FALSE,
                              !.sketches[s].hiddenBy = doc.features[Len(doc.features)].id]
        /\ following' = following
    BY <1>7, Zenon DEF AutoHide
  <2>2. InStep([doc EXCEPT !.sketches[s].visible = FALSE,
                             !.sketches[s].hiddenBy = doc.features[Len(doc.features)].id],
                 following)
    BY <1>k, <1>s, <1>f, ShownFollows, Zenon
  <2>3. QED
    BY <2>1, <2>2, Zenon
<1>8. ASSUME NEW s \in Sketches, NEW b \in BOOLEAN, SetSketchVisible(s, b)
      PROVE  InStep(doc', following')
  <2>1. /\ doc' = [doc EXCEPT !.sketches[s].visible = b, !.sketches[s].hiddenBy = 0]
        /\ following' = following
    BY <1>8, Zenon DEF SetSketchVisible, Edit
  <2>2. InStep([doc EXCEPT !.sketches[s].visible = b, !.sketches[s].hiddenBy = 0], following)
    BY <1>k, <1>s, <1>f, ShownFollows, Zenon
  <2>3. QED
    BY <2>1, <2>2, Zenon
<1>9. ASSUME NEW position \in 0 .. Len(doc.features), SetHistoryPosition(position)
      PROVE  FALSE
  BY <1>9 DEF SetHistoryPosition, Idle, KeepsTheTimeline
<1>10. ASSUME NEW v \in Values, SetVariable(v)
       PROVE  InStep(doc', following')
  <2>1. /\ doc' = MarkDirty([doc EXCEPT !.variable = v], Readers(doc))
        /\ following' = Followers(doc)
    BY <1>10 DEF SetVariable, Edit
  <2>2. InStep(MarkDirty([doc EXCEPT !.variable = v], Readers(doc)), Followers(doc))
    BY <1>k, <1>s, <1>f, VariableFollows
  <2>3. QED
    BY <2>1, <2>2
<1>11. ASSUME AbandonLastEdit
       PROVE  InStep(doc', following')
  <2>1. undo # << >> /\ following' = {}
    BY <1>11 DEF AbandonLastEdit, FollowingOK
  <2>2. doc' = Last(undo) /\ Last(undo) \in Journaled
    BY <1>11, <1>j, <2>1, PoppedElements DEF AbandonLastEdit, Journaled, Elements
  <2>3. QED
    BY <1>f, <2>1, <2>2
<1>12. ASSUME Undo \/ Redo
       PROVE  InStep(doc', following')
  <2>1. undo # << >> => Last(undo) \in Journaled
    BY <1>j, PoppedElements DEF Journaled, Elements
  <2>2. redo # << >> => Last(redo) \in Journaled
    BY <1>j, PoppedElements DEF Journaled, Elements
  <2>3. doc' \in Journaled /\ following' = {}
    BY <1>12, <2>1, <2>2 DEF Undo, Redo, Idle
  <2>4. QED
    BY <1>f, <2>3
<1>13. ASSUME NEW t \in rebuild, CommitRebuild(t)
       PROVE  InStep(doc', following')
  <2>1. /\ doc' = Rebuilt(doc, t.from, t.results) /\ following' = following
        /\ t.base = doc /\ Len(t.results) = Len(Steps(doc, t.from))
    BY <1>13 DEF CommitRebuild, Current, Complete, Amend
  <2>2. PlanOK(t)
    BY DEF SettledOK
  <2>3. DOMAIN t.results = 1 .. Len(t.results)
    BY <2>2, LenProperties DEF PlanOK, IsSequence
  <2>4. DOMAIN Steps(doc, t.from) = 1 .. Len(Steps(doc, t.from))
    BY <1>k, StepsFacts, LenProperties DEF FeaturesHaveIds, IsSequence
  <2>5. \A k \in DOMAIN Steps(doc, t.from) :
          StepResult(doc, FeatureOf(doc, Steps(doc, t.from)[k]), t.results[k])
    BY <2>1, <2>2, <2>3, <2>4 DEF PlanOK
  <2>6. InStep(Rebuilt(doc, t.from, t.results), following)
    BY <1>k, <1>s, <1>f, <2>5, PublishedFollows
  <2>7. QED
    BY <2>1, <2>6
<1>14. ASSUME NEW t \in rebuild, RecordSuccess(t) \/ RecordFailure(t)
       PROVE  InStep(doc', following')
  BY <1>14, <1>f DEF RecordSuccess, RecordFailure
<1>15. ASSUME NEW id \in Features, BeginRebuild(id)
       PROVE  InStep(doc', following')
  BY <1>15, <1>f DEF BeginRebuild
<1>16. ASSUME Reopen \/ DropRebuild \/ \E l \in Limits : SetUndoLimit(l)
       PROVE  InStep(doc', following')
  BY <1>16, <1>f DEF Reopen, DropRebuild, SetUndoLimit
<1>17. QED
  BY <1>1, <1>2, <1>3, <1>4, <1>5, <1>6, <1>7, <1>8, <1>9, <1>10, <1>11, <1>12, <1>13,
     <1>14, <1>15, <1>16 DEF Next

\* An edit can be taken back when the journal keeps anything.
LEMMA PushedIsKept ==
    ASSUME NEW s, IsSequence(s), NEW x, limit \in Nat \ {0}
    PROVE  PushBounded(s, x) # << >>
<1>. DEFINE t == Append(s, x)
<1>1. PICK S : t \in Seq(S) /\ Len(t) \in Nat \ {0}
  <2>. DEFINE T == Elements(s) \union {x}
  <2>1. s \in Seq(Elements(s)) /\ Elements(s) \subseteq T /\ x \in T
    BY DEF IsSequence
  <2>. HIDE DEF T
  <2>2. s \in Seq(T)
    BY <2>1, SeqMonotonic
  <2>3. t \in Seq(T) /\ Len(t) = Len(s) + 1 /\ Len(s) \in Nat
    BY <2>1, <2>2, AppendProperties, LenProperties
  <2>4. QED
    BY <2>3
<1>. HIDE DEF t
<1>2. CASE Len(t) <= limit
  <2>1. TrimFront(t, limit) = t
    BY <1>2 DEF TrimFront
  <2>2. QED
    BY <1>1, <2>1, EmptySeq DEF PushBounded, t
<1>3. CASE ~(Len(t) <= limit)
  <2>1. TrimFront(t, limit) = SubSeq(t, Len(t) - limit + 1, Len(t))
    BY <1>3 DEF TrimFront
  <2>2. Len(SubSeq(t, Len(t) - limit + 1, Len(t))) = limit
    BY <1>1, <1>3, SubSeqProperties
  <2>3. QED
    BY <2>1, <2>2, EmptySeq DEF PushBounded, t
<1>4. QED
  BY <1>2, <1>3

\* While sketches are late the handler owns the document: only it steps.
LEMMA LateStep ==
    ASSUME Next, following # {}
    PROVE  AbandonLastEdit \/ \E s \in Sketches : FollowVariable(s)
<1>1. ASSUME NEW draft \in Drafts, AppendCommitted(draft) \/ AppendDirty(draft)
      PROVE  FALSE
  BY <1>1 DEF AppendCommitted, AppendDirty, Idle
<1>2. ASSUME NEW id \in Features, RemovePlane(id) \/ SetSuppressed(id) \/ BeginRebuild(id)
      PROVE  FALSE
  BY <1>2 DEF RemovePlane, SetSuppressed, BeginRebuild, Idle
<1>3. ASSUME NEW id \in Features, NEW v \in Recipes, ReplaceAction(id, v)
      PROVE  FALSE
  BY <1>3 DEF ReplaceAction, Idle
<1>4. ASSUME NEW s \in Sketches, NEW v \in Recipes, ReplacePayload(s, v)
      PROVE  FALSE
  BY <1>4 DEF ReplacePayload, Idle
<1>5. ASSUME NEW s \in Sketches, AutoHide(s)
      PROVE  FALSE
  BY <1>5 DEF AutoHide, Idle
<1>6. ASSUME NEW s \in Sketches, NEW b \in BOOLEAN, SetSketchVisible(s, b)
      PROVE  FALSE
  BY <1>6 DEF SetSketchVisible, Idle
<1>7. ASSUME NEW position \in 0 .. Len(doc.features), SetHistoryPosition(position)
      PROVE  FALSE
  BY <1>7 DEF SetHistoryPosition, Idle
<1>8. ASSUME NEW v \in Values, SetVariable(v)
      PROVE  FALSE
  BY <1>8 DEF SetVariable, Idle
<1>9. ASSUME Undo \/ Redo \/ Reopen \/ DropRebuild \/ \E l \in Limits : SetUndoLimit(l)
      PROVE  FALSE
  BY <1>9 DEF Undo, Redo, Reopen, DropRebuild, SetUndoLimit, Idle
<1>10. ASSUME NEW t \in rebuild, RecordSuccess(t) \/ RecordFailure(t) \/ CommitRebuild(t)
       PROVE  FALSE
  BY <1>10 DEF RecordSuccess, RecordFailure, CommitRebuild, Idle
<1>11. QED
  BY <1>1, <1>2, <1>3, <1>4, <1>5, <1>6, <1>7, <1>8, <1>9, <1>10 DEF Next

LEMMA StepFollowing ==
    ASSUME KeepsTheTimeline, JournalsOK, IdentitiesOK, SettledOK, FollowingOK, [Next]_vars
    PROVE  FollowingOK'
<1>. IsSequence(undo) /\ IsSequence(redo) /\ limit \in Nat \ {0}
  BY LimitsAreNumbers DEF JournalsOK, KeepsTheTimeline
<1>1. CASE Next
  <2>1. InStep(doc', following')
    BY <1>1, PresentFollows
  <2>2. \A d \in Journaled' : InStep(d, {})
    <3>1. CASE following = {}
      BY <1>1, <3>1, JournaledStates DEF FollowingOK
    <3>2. CASE following # {}
      <4>1. CASE AbandonLastEdit
        BY <4>1, PoppedElements DEF AbandonLastEdit, Journaled, Elements, FollowingOK
      <4>2. ASSUME NEW s \in Sketches, FollowVariable(s)
            PROVE  UNCHANGED Journaled
        BY <4>2 DEF FollowVariable, Amend, Journaled
      <4>3. QED
        BY <1>1, <3>2, <4>1, <4>2, LateStep DEF FollowingOK
    <3>3. QED
      BY <3>1, <3>2
  <2>3. following' # {} => undo' # << >>
    <3>1. ASSUME NEW v \in Values, SetVariable(v)
          PROVE  undo' # << >>
      BY <3>1, PushedIsKept DEF SetVariable, Edit
    <3>2. ASSUME NEW s \in Sketches, FollowVariable(s)
          PROVE  following' # {} => undo' # << >>
      BY <3>2 DEF FollowVariable, Amend, FollowingOK
    <3>3. ASSUME NEW draft, NEW commit, following = {}, Grow(Node(draft, commit))
          PROVE  following' = {}
      BY <3>3 DEF Grow
    <3>4. QED
      BY <1>1, <3>1, <3>2, <3>3, CounterSteps DEF Quiet
  <2>4. QED
    BY <2>1, <2>2, <2>3 DEF FollowingOK
<1>2. CASE UNCHANGED vars
  BY <1>2 DEF vars, FollowingOK, Journaled
<1>3. QED
  BY <1>1, <1>2

LEMMA InitFollowing == Init => FollowingOK
<1>. SUFFICES ASSUME Init PROVE FollowingOK
  OBVIOUS
<1>1. following = {} /\ doc = EmptyDocument /\ Journaled = {}
  BY DEF Init, Journaled
<1>2. doc.cursor = End /\ DOMAIN doc.features = {} /\ DOMAIN doc.sketches = {}
  BY <1>1 DEF EmptyDocument
<1>3. InStep(doc, following)
  BY <1>2 DEF InStep, Unrolled, Resolvable, Agrees
<1>4. QED
  BY <1>1, <1>3 DEF FollowingOK

\* Nothing late: every following sketch is at the variable.
LEMMA InStepAgrees ==
    ASSUME NEW d, InStep(d, {}), Settled(d)
    PROVE  SketchesAgree(d)
<1>. SUFFICES ASSUME NEW s \in DOMAIN d.sketches, FeatureOf(d, Drawer(d, s)).reads
              PROVE  FeatureOf(d, Drawer(d, s)).recipe = d.variable
  BY DEF SketchesAgree
<1>1. PICK k \in DOMAIN d.features :
        d.features[k].draws = s /\ FeatureOf(d, Drawer(d, s)) = d.features[k]
  BY DrawnBy DEF InStep, Settled
<1>2. s # 0
  BY DEF InStep, Unrolled
<1>3. QED
  BY <1>1, <1>2 DEF InStep, Agrees

\* As long as nobody rolls the history back or suppresses a feature, the last
\* edit can be taken back and sketches are drawn on no body, every state undo
\* and redo bring back has each following sketch at the value of its variable,
\* and so has the present once follow_variables returned: one undo takes back
\* the variable and every sketch that followed it.
THEOREM SketchesKeepFollowing ==
    ASSUME KeepsTheTimeline
    PROVE  Spec => []SketchesFollowTheVariable
<1>1. SettledOK /\ FollowingOK => SketchesFollowTheVariable
  BY InStepAgrees DEF SettledOK, States, FollowingOK, SketchesFollowTheVariable
<1>2. Init => FollowingOK
  BY InitFollowing
<1>3. JournalsOK /\ IdentitiesOK /\ SettledOK /\ FollowingOK /\ [Next]_vars => FollowingOK'
  BY StepFollowing
<1>4. QED
  BY <1>1, <1>2, <1>3, EveryStateIsSettled, PTL DEF Spec
=============================================================================
