--------------------------- MODULE KernelSession ---------------------------
(***************************************************************************)
(* The kernel session behind the JSON-RPC server                           *)
(* (crates/kernel/src/api/session.rs, server.rs, journal.rs): commands     *)
(* build labelled steps, a feature pattern builds several under one        *)
(* journal entry, undo and redo walk the journal, and a journal replays to *)
(* a session.  The server holds a lock around every request, so a request  *)
(* is one action; the commands of a script are requests of their own, as   *)
(* the ones before a failure stand.  The kernel is a caller's box: it      *)
(* builds, refuses or panics, and a body is the sequence of the steps it   *)
(* was made by.                                                            *)
(***************************************************************************)
EXTENDS Naturals, Sequences, SequencesExt

CONSTANTS
    Menu,        \* the commands clients send
    Fragile,     \* labels of steps the kernel may panic at, as its input has it
    Placements,  \* instances a pattern adds
    Readings     \* what a STEP file that is imported by its path may hold

\* A label is a sequence of numbers: <<p>> is one the client chose, <<p, k>>
\* is "p/k", and <<p, k, 0>> is "p/k/sketch".  A command names the steps it is
\* made from: the sketch of a boss, the source of a pattern, the target and
\* the tool of a join.
Kinds == {"sketch", "make", "import", "drill", "boss", "join", "pattern"}
Made(kind, label, of) == [kind |-> kind, label |-> label, of |-> of]

ASSUME SessionAssumption ==
    /\ \A c \in Menu : c.kind \in Kinds /\ c.label \in Seq(Nat) /\ c.label # <<>>
    /\ Placements \in Nat \ {0}
    /\ Readings \subseteq Nat \ {0}

VARIABLES
    session,  \* the Session
    stepFile, \* the STEP file: 0 when it cannot be read
    torn      \* history: a panic has left another session than it found, and it
              \* was not reset since

kernelVars == <<session, stepFile, torn>>

\* Session::new.  steps is step_snapshots; sketches is pattern_sketches.
New == [journal |-> <<>>, order |-> <<>>, steps |-> <<>>, sketches |-> {},
        body |-> <<>>, undo |-> <<>>, redo |-> <<>>]

SessionInit ==
    /\ session = New
    /\ stepFile \in Readings
    /\ torn = FALSE

-----------------------------------------------------------------------------
(* One command.                                                            *)

Used(s) == DOMAIN s.steps
Journaled(s, label) == \E i \in 1..Len(s.journal) : s.journal[i].label = label
CommandOf(s, label) ==
    s.journal[CHOOSE i \in 1..Len(s.journal) : s.journal[i].label = label]

\* What a step is built on: a constructor starts from nothing, a Boolean from
\* the bodies its operands left, everything else from the current body.
BuiltOn(s, c) ==
    CASE c.kind \in {"make", "import"} -> <<>>
      [] c.kind = "join" -> s.steps[c.of[1]] \o s.steps[c.of[2]]
      [] OTHER -> s.body

\* The kernel's answer when it builds; an import holds what it read.
Output(s, c, read) ==
    Append(BuiltOn(s, c), [step |-> c.label, read |-> IF c.kind = "import" THEN read ELSE 0])

\* What a command is refused for before the kernel is asked.
Sound(s, c, read) ==
    /\ c.label \notin Used(s)
    /\ CASE c.kind = "join" -> c.of[1] \in Used(s) /\ c.of[2] \in Used(s)
         [] c.kind = "boss" -> Journaled(s, c.of[1]) \/ c.of[1] \in s.sketches
         [] c.kind = "import" -> read # 0
         [] OTHER -> TRUE

\* The records of a step: a sketch is one of its own and leaves the body.
Recorded(s, c, read) ==
    LET after == IF c.kind = "sketch" THEN s.body ELSE Output(s, c, read)
    IN  [s EXCEPT
            !.order = Append(@, c.label),
            !.steps = [l \in DOMAIN @ \cup {c.label} |->
                          IF l = c.label THEN after ELSE @[l]],
            !.body = after]

\* A step that is journaled can be undone, and cuts off what was undone.
Journal(before, s, c) ==
    [s EXCEPT !.journal = Append(@, c),
              !.undo = Append(@, [body |-> before.body, command |-> c]),
              !.redo = <<>>]

-----------------------------------------------------------------------------
(* Feature patterns.                                                       *)

\* pattern_instances: the source again at every placement, a boss with the
\* sketch it is drawn by.
Instances(label, source) ==
    IF source.kind = "drill"
    THEN [k \in 1..Placements |-> Made("drill", Append(label, k), <<>>)]
    ELSE [i \in 1..2 * Placements |->
             LET k == (i + 1) \div 2
                 sketch == label \o <<k, 0>>
             IN  IF i % 2 = 1 THEN Made("sketch", sketch, <<>>)
                 ELSE Made("boss", Append(label, k), <<sketch>>)]

\* A step that is recorded but not journaled: an instance.
Placed(s, c) ==
    IF c.kind = "sketch"
    THEN [Recorded(s, c, 0) EXCEPT !.sketches = @ \cup {c.label}]
    ELSE Recorded(s, c, 0)

\* The session after each number of the instances, one after another.
AllPlaced(s, instances) ==
    LET placed[n \in 0..Len(instances)] ==
            IF n = 0 THEN s ELSE Placed(placed[n - 1], instances[n])
    IN  placed

\* The step that stands for the whole pattern: the body is the last
\* instance's.
PatternRecorded(s, c) ==
    [s EXCEPT !.order = Append(@, c.label),
              !.steps = [l \in DOMAIN @ \cup {c.label} |->
                            IF l = c.label THEN s.body ELSE @[l]]]

\* Mutant: every step whose label begins like this one's is taken along.
OwnedByName(s, label, l) == IsPrefix(label, l)

\* A step belongs to label if it is that step, or lies under it and is no
\* journal entry of its own.
Owned(s, label, l) ==
    \/ l = label
    \/ IsStrictPrefix(label, l) /\ ~Journaled(s, l)

\* discard_steps_under: the newest steps, as long as they belong to label.
Discarded(s, label) ==
    LET kept == CHOOSE n \in 0..Len(s.order) :
                    /\ \A i \in (n + 1)..Len(s.order) : Owned(s, label, s.order[i])
                    /\ n > 0 => ~Owned(s, label, s.order[n])
        gone == {s.order[i] : i \in (kept + 1)..Len(s.order)}
    IN  [s EXCEPT !.order = SubSeq(@, 1, kept),
                  !.steps = [l \in DOMAIN @ \ gone |-> @[l]],
                  !.sketches = @ \ gone]

\* Mutant: the instances that did build stay with the body they built.
GivenUpInOrder(s, placed, label) == Discarded(placed, label)

\* A pattern commits whole or not at all.
GivenUp(s, placed, label) == Discarded([placed EXCEPT !.body = s.body], label)

\* A command that is done, whole and journaled.
Done(s, c, read) ==
    IF c.kind = "pattern"
    THEN LET instances == Instances(c.label, CommandOf(s, c.of[1]))
         IN  Journal(s, PatternRecorded(AllPlaced(s, instances)[Len(instances)], c), c)
    ELSE Journal(s, Recorded(s, c, read), c)

-----------------------------------------------------------------------------
(* execute: the answers a command may get, and the session it leaves.      *)

Answered(answer, s) == [answer |-> answer, session |-> s]

\* A plain command: the session is untouched until the kernel has built.
PlainOutcomes(s, c, read) ==
    {Answered("refused", s)} \cup
    IF ~Sound(s, c, read) THEN {}
    ELSE {Answered("done", Done(s, c, read))}
         \cup {Answered("panicked", s) : l \in {c.label} \cap Fragile}

\* Instance n + 1 is refused if its label is used, and may be refused by the
\* kernel or panic in it.
PatternOutcomes(s, c) ==
    LET instances == Instances(c.label, CommandOf(s, c.of[1]))
        placed == AllPlaced(s, instances)
        free(i) == instances[i].label \notin Used(s)
        built(i) == instances[i].kind # "sketch"
        reached == {n \in 0..Len(instances) : \A i \in 1..n : free(i)}
        short == reached \ {Len(instances)}
    IN  {Answered("refused", s)}
        \cup {Answered("refused", GivenUp(s, placed[n], c.label)) :
                  n \in {n \in short : built(n + 1) \/ ~free(n + 1)}}
        \cup {Answered("panicked", placed[n]) :
                  n \in {n \in short : built(n + 1) /\ free(n + 1)
                                         /\ instances[n + 1].label \in Fragile}}
        \cup {Answered("done", Done(s, c, 0)) : n \in reached \ short}

\* A pattern repeats a hole, or a boss whose sketch is journaled.
Repeats(s, label) ==
    /\ Journaled(s, label)
    /\ \/ CommandOf(s, label).kind = "drill"
       \/ CommandOf(s, label).kind = "boss" /\ Journaled(s, CommandOf(s, label).of[1])

Outcomes(s, c, read) ==
    CASE c.kind # "pattern" -> PlainOutcomes(s, c, read)
      [] c.kind = "pattern" /\ c.label \notin Used(s) /\ Repeats(s, c.of[1]) ->
             PatternOutcomes(s, c)
      [] OTHER -> {Answered("refused", s)}

-----------------------------------------------------------------------------
(* The requests.                                                           *)

Answers(o) ==
    /\ session' = o.session
    /\ torn' = (torn \/ (o.answer = "panicked" /\ o.session # session))
    /\ UNCHANGED stepFile

Execute(c) == \E o \in Outcomes(session, c, stepFile) : Answers(o)

UndoStep ==
    LET s == session
        last == Last(s.undo) IN
    /\ s.undo # <<>>
    /\ Answers(Answered("done",
           Discarded([s EXCEPT !.body = last.body,
                               !.journal = IF @ = <<>> THEN @ ELSE Front(@),
                               !.undo = Front(@),
                               !.redo = Append(@, last.command)],
                     last.command.label)))

\* Mutant: what is still to redo is cleared by the command, as by any other.
KeptToRedo(s, pending, o) == o.session

\* The steps still to redo are set aside while the command runs; one that is
\* refused goes back to them, and a panic loses both.
Redone(s, pending, o) ==
    CASE o.answer = "done" -> [o.session EXCEPT !.redo = pending]
      [] o.answer = "refused" -> [o.session EXCEPT !.redo = s.redo]
      [] o.answer = "panicked" -> o.session

RedoStep ==
    LET s == session
        pending == Front(s.redo) IN
    /\ s.redo # <<>>
    /\ \E o \in Outcomes([s EXCEPT !.redo = <<>>], Last(s.redo), stepFile) :
           Answers(Answered(o.answer, Redone(s, pending, o)))

Reset ==
    /\ torn \/ session # New
    /\ session' = New /\ torn' = FALSE
    /\ UNCHANGED stepFile

\* Another program writes or removes the file.
WriteFile(content) ==
    /\ content # stepFile
    /\ stepFile' = content
    /\ UNCHANGED <<session, torn>>

SessionNext ==
    \/ \E c \in Menu : Execute(c)
    \/ UndoStep \/ RedoStep \/ Reset
    \/ \E content \in Readings \cup {0} : WriteFile(content)

SessionSpec == SessionInit /\ [][SessionNext]_kernelVars

-----------------------------------------------------------------------------
(* Properties.                                                             *)

SessionTypeOK ==
    /\ Len(session.undo) <= Len(session.journal)
    /\ ToSet(session.journal) \cup ToSet(session.redo) \subseteq Menu
    /\ ToSet(session.order) = Used(session)
    /\ stepFile \in Readings \cup {0} /\ torn \in BOOLEAN

\* from_journal: the commands of the journal one after another in a new
\* session, an import reading what the session at hand read.
ReadBy(s, c) == IF c.kind = "import" THEN Last(s.steps[c.label]).read ELSE 0
Replayed(s) ==
    LET replay[n \in 0..Len(s.journal)] ==
            IF n = 0 THEN New
            ELSE Done(replay[n - 1], s.journal[n], ReadBy(s, s.journal[n]))
    IN  replay[Len(s.journal)]

\* "Deterministic recording and replay" (journal.rs): whatever was undone,
\* redone, refused half-way through a pattern or reset, the steps, the body
\* and every body undo can go back to are those its journal builds, unless a
\* panic has torn the session.
SessionIsItsJournal ==
    /\ SessionTypeOK
    /\ ~torn => [session EXCEPT !.redo = <<>>] = Replayed(session)

\* "A redo that fails keeps its step on the stack rather than losing it", and
\* "the steps undone before it no longer follow": undo and redo walk along
\* one line of commands, which only a new command cuts off and extends, and
\* a request that is refused does not move.
Line(s) == s.journal \o Reverse(s.redo)
UndoAndRedoWalkALine ==
    [][\/ torn'
       \/ session' = New
       \/ /\ Line(session') = Line(session)
          /\ Len(session'.journal) + 1 >= Len(session.journal)
          /\ Len(session.journal) + 1 >= Len(session'.journal)
          /\ session'.journal = session.journal => session' = session
       \/ \E c \in Menu : Line(session') = Append(session.journal, c)]_kernelVars

\* "a panic in the kernel leaves the session as it was before that request"
\* (server.rs:261)
PanicLeavesTheSession == ~torn
=============================================================================
