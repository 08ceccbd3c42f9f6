------------------------- MODULE Background_proofs --------------------------
(***************************************************************************)
(* Proofs about the threads that work behind a window.  The development    *)
(* log: for a channel of any capacity, batches and parts of any size, and  *)
(* any number of events, failures and panics.  The updaters: for any tabs, *)
(* releases, reports and clicks.  Script Studio: for any scripts, files    *)
(* and inputs, and any number of runs under way.                           *)
(***************************************************************************)
EXTENDS DevelopmentLog, UpdateService, ScriptStudio, SequenceTheorems, PrefixTheorems

-----------------------------------------------------------------------------
(* Records move from the buffer to the disk, and what is on the disk       *)
(* followed by what is in the buffer stays the same sequence.              *)

LEMMA MovedAcross ==
    ASSUME NEW R, NEW a \in Seq(R), NEW b \in Seq(R), NEW n \in 0..Len(b)
    PROVE  /\ a \o SubSeq(b, 1, n) \in Seq(R)
           /\ SubSeq(b, n + 1, Len(b)) \in Seq(R)
           /\ (a \o SubSeq(b, 1, n)) \o SubSeq(b, n + 1, Len(b)) = a \o b
<1>1. SubSeq(b, 1, n) \in Seq(R) /\ SubSeq(b, n + 1, Len(b)) \in Seq(R)
  OBVIOUS
<1>2. SubSeq(b, 1, n) \o SubSeq(b, n + 1, Len(b)) = SubSeq(b, 1, Len(b))
  <2>1. 1 \in 1..(Len(b) + 1) /\ n \in (1 - 1)..Len(b) /\ Len(b) \in n..Len(b)
    OBVIOUS
  <2>2. QED
    BY ONLY <2>1, b \in Seq(R), ConcatAdjacentSubSeq
<1>3. SubSeq(b, 1, Len(b)) = b
  BY SubSeqFull
<1>4. (a \o SubSeq(b, 1, n)) \o SubSeq(b, n + 1, Len(b))
         = a \o (SubSeq(b, 1, n) \o SubSeq(b, n + 1, Len(b)))
  <2>1. ASSUME NEW x \in Seq(R), NEW y \in Seq(R)
        PROVE  (a \o x) \o y = a \o (x \o y)
    BY ONLY a \in Seq(R), x \in Seq(R), y \in Seq(R), ConcatAssociative
  <2>2. QED
    BY <1>1, <2>1
<1>5. a \o SubSeq(b, 1, n) \in Seq(R)
  BY ONLY <1>1, a \in Seq(R), ConcatProperties
<1>6. QED
  BY <1>1, <1>2, <1>3, <1>4, <1>5

LEMMA AddedAtTheEnd ==
    ASSUME NEW R, NEW a \in Seq(R), NEW b \in Seq(R), NEW r \in R
    PROVE  /\ Append(b, r) \in Seq(R) /\ <<r>> \in Seq(R) /\ a \o b \in Seq(R)
           /\ a \o Append(b, r) = Append(a \o b, r)
           /\ (a \o b) \o <<r>> = Append(a \o b, r)
<1>1. Append(b, r) \in Seq(R) /\ <<r>> \in Seq(R) /\ a \o b \in Seq(R)
  OBVIOUS
<1>2. a \o Append(b, r) = Append(a \o b, r)
  <2>1. Len(a \o Append(b, r)) = Len(Append(a \o b, r))
    OBVIOUS
  <2>2. \A i \in 1..Len(Append(a \o b, r)) : (a \o Append(b, r))[i] = Append(a \o b, r)[i]
    OBVIOUS
  <2>3. QED
    BY <1>1, <2>1, <2>2, SeqEqual
<1>3. (a \o b) \o <<r>> = Append(a \o b, r)
  OBVIOUS
<1>4. QED
  BY <1>1, <1>2, <1>3

LEMMA CutOff ==
    ASSUME NEW R, NEW a \in Seq(R), NEW b \in Seq(R), NEW n \in 0..Len(b)
    PROVE  /\ a \o SubSeq(b, 1, n) \in Seq(R)
           /\ Len(a \o SubSeq(b, 1, n)) <= Len(a \o b)
           /\ \A i \in 1..Len(a \o SubSeq(b, 1, n)) : (a \o SubSeq(b, 1, n))[i] = (a \o b)[i]
<1>1. /\ SubSeq(b, 1, n) \in Seq(R) /\ Len(SubSeq(b, 1, n)) = n
      /\ \A i \in 1..n : SubSeq(b, 1, n)[i] = b[i]
  OBVIOUS
<1>2. QED
  BY <1>1

-----------------------------------------------------------------------------
(* What the calls to the file system make of the log.                      *)

FilesTyped == disk' \in Seq(Record) /\ buffer' \in Seq(Record)
LogKept == FilesTyped /\ Log' = Log
Wrote(r) == FilesTyped /\ Log' = Append(Log, r)
Shortened ==
    /\ FilesTyped
    /\ Len(Log') <= Len(Log)
    /\ \A i \in 1..Len(Log') : Log'[i] = Log[i]

LEMMA LogTyped ==
    ASSUME LogTypeOK
    PROVE  /\ Log \in Seq(Record) /\ Len(Log) \in Nat
           /\ \A i \in 1..Len(Log) :
                 Log[i] \in Record /\ Log[i].number \in Nat /\ Log[i].id \in Nat
<1>1. Log \in Seq(Record)
  BY ConcatProperties DEF LogTypeOK, Log
<1>2. \A i \in 1..Len(Log) : Log[i] \in Record
  BY <1>1
<1>3. \A r \in Record : r.number \in Nat /\ r.id \in Nat
  BY DEF Record
<1>4. QED
  BY <1>1, <1>2, <1>3

LEMMA InboxTyped ==
    ASSUME LogTypeOK
    PROVE  /\ inbox \in Seq(Entry) /\ Len(inbox) \in Nat
           /\ \A q \in 1..Len(inbox) : inbox[q] \in Entry /\ inbox[q].id \in Nat
           /\ \A e \in held : e \in Entry /\ e.id \in Nat
<1>1. inbox \in Seq(Entry) /\ held \in SUBSET Entry
  BY DEF LogTypeOK
<1>2. \A q \in 1..Len(inbox) : inbox[q] \in Entry
  BY <1>1
<1>3. \A e \in Entry : e.id \in Nat
  BY DEF Entry
<1>4. QED
  BY <1>1, <1>2, <1>3

LEMMA FlushKeeps ==
    ASSUME LogTypeOK, Flushed \/ PartlyFlushed
    PROVE  LogKept
<1>1. disk \in Seq(Record) /\ buffer \in Seq(Record)
  BY DEF LogTypeOK
<1>2. CASE Flushed
  <2>1. disk \o buffer \in Seq(Record) /\ (disk \o buffer) \o << >> = disk \o buffer
    BY <1>1, ConcatProperties, ConcatEmptySeq
  <2>2. QED
    BY <1>2, <2>1 DEF Flushed, LogKept, FilesTyped, Log
<1>3. CASE PartlyFlushed
  BY <1>1, <1>3, MovedAcross DEF PartlyFlushed, LogKept, FilesTyped, Log
<1>4. QED
  BY <1>2, <1>3

LEMMA BufferedWrites ==
    ASSUME LogTypeOK, NEW r \in Record, Buffered(r)
    PROVE  Wrote(r)
<1>1. disk \in Seq(Record) /\ buffer \in Seq(Record)
  BY DEF LogTypeOK
<1>2. CASE disk' = disk /\ buffer' = Append(buffer, r)
  BY <1>1, <1>2, AddedAtTheEnd DEF Wrote, FilesTyped, Log
<1>3. CASE disk' = disk \o buffer /\ buffer' = <<r>>
  BY <1>1, <1>3, AddedAtTheEnd DEF Wrote, FilesTyped, Log
<1>4. QED
  BY <1>2, <1>3 DEF Buffered

LEMMA CrashShortens ==
    ASSUME LogTypeOK, buffer' = << >>, NEW n \in 0..Len(buffer),
           disk' = disk \o SubSeq(buffer, 1, n)
    PROVE  Shortened
<1>1. disk \in Seq(Record) /\ buffer \in Seq(Record)
  BY DEF LogTypeOK
<1>2. disk' \in Seq(Record) /\ disk' \o << >> = disk'
  BY <1>1, CutOff, ConcatEmptySeq
<1>3. QED
  BY <1>1, <1>2, CutOff DEF Shortened, FilesTyped, Log

-----------------------------------------------------------------------------
(* The inductive invariant.  It adds to the two properties where the       *)
(* writer's counter stands at each point of its loop, and that the event   *)
(* in its hand is one of those offered, and in the log once it is written. *)

LogHolds(id) == \E i \in 1..Len(Log) : Log[i].kind = "event" /\ Log[i].id = id
HandHolds(id) == \E e \in held : e.id = id
InboxHolds(id) == \E q \in 1..Len(inbox) : inbox[q].id = id

NumbersGrow ==
    /\ \A i, j \in 1..Len(Log) : i < j => Log[i].number < Log[j].number
    /\ \A i \in 1..Len(Log) :
          /\ writer \in {"rotating", "appending"} => Log[i].number < number
          /\ writer \in {"receiving", "flushing", "finishing"} => Log[i].number <= number

EventsInOrder ==
    /\ \A i, j \in 1..Len(Log) :
          i < j /\ Log[i].kind = "event" /\ Log[j].kind = "event" => Log[i].id < Log[j].id
    /\ \A i \in 1..Len(Log) : Log[i].kind = "event" =>
          /\ Log[i].id <= offered
          /\ \A e \in held : writer # "flushing" => Log[i].id < e.id
          /\ \A q \in 1..Len(inbox) : Log[i].id < inbox[q].id
    /\ \A e \in held : e.id <= offered /\ \A q \in 1..Len(inbox) : e.id < inbox[q].id
    /\ \A q \in 1..Len(inbox) : inbox[q].id <= offered
    /\ \A p, q \in 1..Len(inbox) : p < q => inbox[p].id < inbox[q].id

InHand ==
    /\ held # {} => writer \in InStep
    /\ writer \in {"rotating", "appending"} => held # {}
    /\ \A e, f \in held : e = f
    /\ writer = "flushing" => \A e \in held : LogHolds(e.id)

NothingFalls ==
    Running => \A id : id \in accepted <=> LogHolds(id) \/ HandHolds(id) \/ InboxHolds(id)

LogInv == LogTypeOK /\ NumbersGrow /\ EventsInOrder /\ InHand /\ NothingFalls

LEMMA LogInitInv == LogInit => LogInv
<1>. SUFFICES ASSUME LogInit PROVE LogInv
  OBVIOUS
<1>1. Log = << >> /\ Len(Log) = 0 /\ Len(inbox) = 0
  BY ConcatEmptySeq DEF LogInit, Log
<1>2. LogTypeOK
  BY LogAssumption DEF LogInit, LogTypeOK, InStep
<1>3. QED
  BY <1>1, <1>2 DEF LogInit, LogInv, NumbersGrow, EventsInOrder, InHand, NothingFalls,
     LogHolds, HandHolds, InboxHolds, InStep

\* The steps that change neither the log, nor the hand, nor the channel.
LEMMA StillInv ==
    ASSUME LogInv, LogTypeOK', Log' = Log,
           UNCHANGED <<offered, accepted, inbox, held>>,
           \/ UNCHANGED <<writer, number>>
           \/ /\ held = {} /\ writer' \in {"receiving", "flushing", "finishing"}
              /\ writer \in {"receiving", "flushing", "finishing"}
              /\ number <= number'
              /\ Running' => Running
           \/ writer = "rotating" /\ writer' = "appending" /\ number' = number
    PROVE  LogInv'
<1>1. number \in Nat /\ number' \in Nat
  BY DEF LogInv, LogTypeOK
<1>2. \A i \in 1..Len(Log) : Log[i].number \in Nat
  BY LogTyped DEF LogInv
<1>3. NumbersGrow'
  BY <1>1, <1>2 DEF LogInv, NumbersGrow
<1>4. EventsInOrder'
  <2>1. held # {} => (writer' # "flushing" => writer # "flushing")
    OBVIOUS
  <2>2. EventsInOrder
    BY DEF LogInv
  <2>3. QED
    BY ONLY <2>1, <2>2, Log' = Log, UNCHANGED <<offered, inbox, held>> DEF EventsInOrder
<1>5. InHand'
  BY DEF LogInv, InHand, LogHolds, InStep
<1>6. NothingFalls'
  BY DEF LogInv, NothingFalls, LogHolds, HandHolds, InboxHolds, Running, InStep
<1>7. QED
  BY <1>3, <1>4, <1>5, <1>6 DEF LogInv

\* A failure ends the loop: what was in hand is lost.
LEMMA StoppedInv ==
    ASSUME LogInv, LogTypeOK', LogKept, writer \in {"rotating", "appending"},
           writer' = "finishing", held' = {}, UNCHANGED <<offered, accepted, inbox, number>>
    PROVE  LogInv'
<1>1. /\ Log' = Log /\ number \in Nat
      /\ \A i \in 1..Len(Log) : Log[i].number \in Nat
  BY LogTyped DEF LogKept, LogInv, LogTypeOK
<1>2. NumbersGrow'
  BY <1>1 DEF LogInv, NumbersGrow
<1>3. EventsInOrder'
  BY <1>1 DEF LogInv, EventsInOrder
<1>4. InHand' /\ NothingFalls'
  BY DEF InHand, NothingFalls, Running, InStep
<1>5. QED
  BY <1>2, <1>3, <1>4 DEF LogInv

\* The writer has left its loop for good: only the order is kept.
LEMMA LeavingInv ==
    ASSUME LogInv, LogTypeOK', Shortened, held' = {}, UNCHANGED <<offered, accepted>>,
           inbox' = inbox \/ inbox' = << >>, writer' \in {"closing", "ended"}
    PROVE  LogInv'
<1>1. /\ Len(Log') \in Nat /\ Len(Log) \in Nat /\ Len(Log') <= Len(Log)
      /\ \A i \in 1..Len(Log') : i \in 1..Len(Log) /\ Log'[i] = Log[i]
  <2>1. Len(Log) \in Nat
    BY LogTyped DEF LogInv
  <2>2. Len(Log') \in Nat
    BY ConcatProperties DEF Shortened, FilesTyped, Log
  <2>3. QED
    BY <2>1, <2>2 DEF Shortened
<1>2. NumbersGrow'
  BY <1>1 DEF LogInv, NumbersGrow
<1>3. EventsInOrder'
  BY <1>1 DEF LogInv, EventsInOrder
<1>4. InHand' /\ NothingFalls'
  BY DEF InHand, NothingFalls, Running, InStep
<1>5. QED
  BY <1>2, <1>3, <1>4 DEF LogInv

\* One record is written with the number the writer has reached.
LEMMA WrittenLog ==
    ASSUME LogTypeOK, NEW r \in Record, Wrote(r)
    PROVE  /\ Len(Log) \in Nat /\ Len(Log') = Len(Log) + 1
           /\ \A i \in 1..Len(Log) : Log'[i] = Log[i]
           /\ Log'[Len(Log) + 1] = r
BY LogTyped, AppendProperties DEF Wrote

LEMMA EventWrittenInv ==
    ASSUME LogInv, LogTypeOK', NEW e \in held, Wrote(EventRecord(number, e)),
           writer = "appending", writer' = "flushing",
           UNCHANGED <<offered, accepted, inbox, held, number>>
    PROVE  LogInv'
<1>. DEFINE r == EventRecord(number, e)
            n == Len(Log)
<1>1. LogTypeOK /\ e \in Entry /\ number \in Nat
  BY InboxTyped DEF LogInv, LogTypeOK
<1>2. r \in Record /\ r.number = number /\ r.kind = "event" /\ r.id = e.id
  BY <1>1 DEF EventRecord, Record, Entry
<1>3. /\ n \in Nat /\ Len(Log') = n + 1
      /\ \A i \in 1..n : Log'[i] = Log[i]
      /\ Log'[n + 1] = r
  BY <1>1, <1>2, WrittenLog
<1>. HIDE DEF r, n
<1>4. /\ \A i \in 1..Len(Log') : i = n + 1 \/ i \in 1..n
      /\ 1..n = 1..Len(Log)
      /\ \A i \in 1..n : i \in 1..Len(Log') /\ i < n + 1
      /\ n + 1 \in 1..Len(Log')
  BY <1>3 DEF n
<1>5. NumbersGrow'
  <2>1. \A i \in 1..n : Log[i].number < number /\ Log[i].number \in Nat
    BY <1>4, LogTyped DEF LogInv, NumbersGrow
  <2>2. \A i, j \in 1..n : i < j => Log[i].number < Log[j].number
    BY <1>4 DEF LogInv, NumbersGrow
  <2>3. \A i \in 1..Len(Log') : Log'[i].number <= number
    BY <1>1, <1>2, <1>3, <1>4, <2>1
  <2>4. ASSUME NEW i \in 1..Len(Log'), NEW j \in 1..Len(Log'), i < j
        PROVE  Log'[i].number < Log'[j].number
    <3>1. i \in 1..n
      BY <1>3, <2>4
    <3>2. QED
      BY <1>2, <1>3, <1>4, <2>1, <2>2, <2>4, <3>1
  <2>5. QED
    BY <2>3, <2>4 DEF NumbersGrow
<1>6. EventsInOrder'
  <2>1. \A i \in 1..n : Log[i].kind = "event" =>
            /\ Log[i].id < e.id /\ Log[i].id <= offered
            /\ \A q \in 1..Len(inbox) : Log[i].id < inbox[q].id
    BY <1>4 DEF LogInv, EventsInOrder
  <2>2. \A i, j \in 1..n :
            i < j /\ Log[i].kind = "event" /\ Log[j].kind = "event" => Log[i].id < Log[j].id
    BY <1>4 DEF LogInv, EventsInOrder
  <2>3. ASSUME NEW i \in 1..Len(Log'), NEW j \in 1..Len(Log'), i < j,
               Log'[i].kind = "event", Log'[j].kind = "event"
        PROVE  Log'[i].id < Log'[j].id
    <3>1. i \in 1..n
      BY <1>3, <2>3
    <3>2. QED
      BY <1>2, <1>3, <1>4, <2>1, <2>2, <2>3, <3>1
  <2>4. /\ e.id <= offered
        /\ \A q \in 1..Len(inbox) : e.id < inbox[q].id
    BY DEF LogInv, EventsInOrder
  <2>5. ASSUME NEW i \in 1..Len(Log'), Log'[i].kind = "event"
        PROVE  /\ Log'[i].id <= offered'
               /\ \A q \in 1..Len(inbox') : Log'[i].id < inbox'[q].id
    <3>1. CASE i = n + 1
      BY <1>2, <1>3, <2>4, <3>1
    <3>2. CASE i \in 1..n
      BY <1>3, <2>1, <2>5, <3>2
    <3>3. QED
      BY <1>4, <3>1, <3>2
  <2>6. QED
    BY <2>3, <2>5 DEF LogInv, EventsInOrder
<1>7. \A id : LogHolds(id)' <=> LogHolds(id) \/ id = e.id
  BY <1>2, <1>3, <1>4 DEF LogHolds
<1>8. InHand'
  BY <1>7 DEF LogInv, InHand, InStep
<1>9. NothingFalls'
  BY <1>7 DEF LogInv, NothingFalls, HandHolds, InboxHolds, Running, InStep
<1>10. QED
  BY <1>5, <1>6, <1>8, <1>9 DEF LogInv

\* A record about the log itself: of what was dropped, or of the end.
LEMMA RemarkWrittenInv ==
    ASSUME LogInv, LogTypeOK', NEW r \in Record, Wrote(r),
           r.kind # "event", r.number = number + 1,
           writer \in {"receiving", "finishing"},
           \/ writer' = "closing" /\ number' = number
           \/ /\ writer = "receiving" /\ writer' \in {"flushing", "finishing"}
              /\ number' = number + 1,
           UNCHANGED <<offered, accepted, inbox, held>>
    PROVE  LogInv'
<1>. DEFINE n == Len(Log)
<1>1. LogTypeOK /\ number \in Nat /\ held = {}
  BY DEF LogInv, LogTypeOK, InHand, InStep
<1>3. /\ n \in Nat /\ Len(Log') = n + 1
      /\ \A i \in 1..n : Log'[i] = Log[i]
      /\ Log'[n + 1] = r
  BY <1>1, WrittenLog
<1>. HIDE DEF n
<1>4. /\ \A i \in 1..Len(Log') : i = n + 1 \/ i \in 1..n
      /\ 1..n = 1..Len(Log)
      /\ \A i \in 1..n : i \in 1..Len(Log') /\ i < n + 1
      /\ n + 1 \in 1..Len(Log')
  BY <1>3 DEF n
<1>5. NumbersGrow'
  <2>1. \A i \in 1..n : Log[i].number <= number /\ Log[i].number \in Nat
    BY <1>4, LogTyped DEF LogInv, NumbersGrow
  <2>2. \A i, j \in 1..n : i < j => Log[i].number < Log[j].number
    BY <1>4 DEF LogInv, NumbersGrow
  <2>3. \A i \in 1..Len(Log') : Log'[i].number <= number + 1
    BY <1>1, <1>3, <1>4, <2>1
  <2>4. ASSUME NEW i \in 1..Len(Log'), NEW j \in 1..Len(Log'), i < j
        PROVE  Log'[i].number < Log'[j].number
    <3>1. i \in 1..n
      BY <1>3, <2>4
    <3>2. CASE j = n + 1
      BY <1>1, <1>3, <2>1, <3>1, <3>2
    <3>3. CASE j \in 1..n
      BY <1>3, <2>2, <2>4, <3>1, <3>3
    <3>4. QED
      BY <1>4, <3>2, <3>3
  <2>5. QED
    BY <2>3, <2>4 DEF NumbersGrow
<1>6. \A i \in 1..Len(Log') : Log'[i].kind = "event" => i \in 1..n /\ Log'[i] = Log[i]
  BY <1>3, <1>4
<1>7. EventsInOrder'
  BY <1>1, <1>4, <1>6 DEF LogInv, EventsInOrder
<1>8. \A id : LogHolds(id)' <=> LogHolds(id)
  BY <1>3, <1>4, <1>6 DEF LogHolds
<1>9. InHand'
  BY <1>1 DEF InHand
<1>10. NothingFalls'
  BY <1>8 DEF LogInv, NothingFalls, HandHolds, InboxHolds, Running, InStep
<1>11. QED
  BY <1>5, <1>7, <1>9, <1>10 DEF LogInv

-----------------------------------------------------------------------------
(* The steps.                                                              *)

LEMMA EnqueueInv ==
    ASSUME NEW critical \in BOOLEAN, LogInv, Enqueue(critical)
    PROVE  LogInv'
<1>. DEFINE e == [id |-> offered + 1, critical |-> critical]
<1>1. LogTypeOK
  BY DEF LogInv
<1>2. /\ offered \in Nat /\ offered' = offered + 1
      /\ UNCHANGED <<held, fileVars, writer, owner, incident, faults>>
  BY <1>1 DEF Enqueue, LogTypeOK
<1>3. Log' = Log
  BY <1>2 DEF Log, fileVars
<1>4. e \in Entry /\ e.id = offered + 1
  BY <1>2 DEF Entry
<1>5. CASE inbox' = Append(inbox, e) /\ accepted' = accepted \cup {e.id} /\ ~Full
           /\ UNCHANGED <<overflowed, dropped>>
  <2>. DEFINE m == Len(inbox)
  <2>1. /\ m \in Nat /\ inbox' \in Seq(Entry) /\ Len(inbox') = m + 1
        /\ \A q \in 1..m : inbox'[q] = inbox[q]
        /\ inbox'[m + 1] = e
    BY <1>1, <1>4, <1>5, InboxTyped, AppendProperties
  <2>2. LogTypeOK'
    BY <1>1, <1>2, <1>4, <1>5, <2>1, LogAssumption DEF LogTypeOK, Full, fileVars
  <2>. HIDE DEF m, e
  <2>3. /\ \A q \in 1..Len(inbox') : q = m + 1 \/ q \in 1..m
        /\ 1..m = 1..Len(inbox)
        /\ \A q \in 1..m : q \in 1..Len(inbox') /\ q < m + 1
        /\ m + 1 \in 1..Len(inbox')
    BY <2>1 DEF m
  <2>4. NumbersGrow'
    BY <1>2, <1>3 DEF LogInv, NumbersGrow, fileVars
  <2>5. EventsInOrder'
    <3>1. \A i \in 1..Len(Log) : Log[i].kind = "event" =>
              /\ Log[i].id \in Nat /\ Log[i].id <= offered
              /\ \A f \in held : writer # "flushing" => Log[i].id < f.id
              /\ \A q \in 1..m : Log[i].id < inbox[q].id
      BY <1>1, <2>3, LogTyped DEF LogInv, EventsInOrder
    <3>2. /\ \A f \in held : f.id \in Nat /\ f.id <= offered /\ \A q \in 1..m : f.id < inbox[q].id
          /\ \A q \in 1..m : inbox[q].id \in Nat /\ inbox[q].id <= offered
          /\ \A p, q \in 1..m : p < q => inbox[p].id < inbox[q].id
      BY <1>1, <2>3, InboxTyped DEF LogInv, EventsInOrder
    <3>3. ASSUME NEW i \in 1..Len(Log'), Log'[i].kind = "event"
          PROVE  /\ Log'[i].id <= offered'
                 /\ \A f \in held' : writer' # "flushing" => Log'[i].id < f.id
                 /\ \A q \in 1..Len(inbox') : Log'[i].id < inbox'[q].id
      <4>1. /\ Log[i].id \in Nat /\ Log[i].id <= offered
            /\ \A f \in held : writer # "flushing" => Log[i].id < f.id
            /\ \A q \in 1..m : Log[i].id < inbox[q].id
        BY <1>3, <3>1, <3>3
      <4>2. \A q \in 1..Len(inbox') : Log[i].id < inbox'[q].id
        BY <1>2, <1>4, <2>1, <2>3, <4>1
      <4>3. QED
        BY <1>2, <1>3, <4>1, <4>2
    <3>4. ASSUME NEW f \in held'
          PROVE  f.id <= offered' /\ \A q \in 1..Len(inbox') : f.id < inbox'[q].id
      <4>1. f.id \in Nat /\ f.id <= offered /\ \A q \in 1..m : f.id < inbox[q].id
        BY <1>2, <3>2
      <4>2. ASSUME NEW q \in 1..Len(inbox') PROVE f.id < inbox'[q].id
        <5>1. CASE q = m + 1
          BY <1>2, <1>4, <2>1, <4>1, <5>1
        <5>2. CASE q \in 1..m
          BY <2>1, <4>1, <5>2
        <5>3. QED
          BY <2>3, <5>1, <5>2
      <4>3. f.id <= offered'
        BY <1>2, <4>1
      <4>4. QED
        BY <4>2, <4>3
    <3>5. \A q \in 1..Len(inbox') : inbox'[q].id <= offered'
      BY <1>2, <1>4, <2>1, <2>3, <3>2
    <3>6. ASSUME NEW p \in 1..Len(inbox'), NEW q \in 1..Len(inbox'), p < q
          PROVE  inbox'[p].id < inbox'[q].id
      <4>1. p \in 1..m
        BY <2>1, <3>6
      <4>2. CASE q = m + 1
        BY <1>2, <1>4, <2>1, <3>2, <4>1, <4>2
      <4>3. CASE q \in 1..m
        BY <2>1, <3>2, <3>6, <4>1, <4>3
      <4>4. QED
        BY <2>3, <4>2, <4>3
    <3>7. \A i, j \in 1..Len(Log') :
              i < j /\ Log'[i].kind = "event" /\ Log'[j].kind = "event" => Log'[i].id < Log'[j].id
      BY <1>3 DEF LogInv, EventsInOrder
    <3>8. QED
      BY <3>3, <3>4, <3>5, <3>6, <3>7 DEF EventsInOrder
  <2>6. \A id : InboxHolds(id)' <=> InboxHolds(id) \/ id = e.id
    BY <2>1, <2>3 DEF InboxHolds
  <2>7. InHand'
    BY <1>2, <1>3 DEF LogInv, InHand, LogHolds, fileVars
  <2>8. NothingFalls'
    BY <1>2, <1>3, <1>5, <2>6 DEF LogInv, NothingFalls, LogHolds, HandHolds, Running
  <2>9. QED
    BY <2>2, <2>4, <2>5, <2>7, <2>8 DEF LogInv
<1>6. CASE inbox' = inbox /\ accepted' = accepted /\ overflowed' \in Nat /\ dropped' \in Nat
  <2>1. LogTypeOK'
    BY <1>1, <1>2, <1>6 DEF LogTypeOK, fileVars
  <2>2. EventsInOrder'
    <3>1. \A i \in 1..Len(Log) : Log[i].id \in Nat
      BY <1>1, LogTyped
    <3>2. \A q \in 1..Len(inbox) : inbox[q].id \in Nat
      BY <1>1, InboxTyped
    <3>3. \A f \in held : f.id \in Nat
      BY <1>1, InboxTyped
    <3>4. QED
      BY <1>2, <1>3, <1>6, <3>1, <3>2, <3>3 DEF LogInv, EventsInOrder
  <2>3. NumbersGrow' /\ InHand' /\ NothingFalls'
    BY <1>2, <1>3, <1>6 DEF LogInv, NumbersGrow, InHand, NothingFalls, LogHolds, HandHolds,
       InboxHolds, Running, fileVars
  <2>4. QED
    BY <2>1, <2>2, <2>3 DEF LogInv
<1>7. QED
  BY <1>1, <1>5, <1>6 DEF Enqueue, LogTypeOK

LEMMA ReceiveInv ==
    ASSUME LogInv, Receive
    PROVE  LogInv'
<1>1. LogTypeOK /\ number \in Nat /\ held = {}
  BY DEF LogInv, LogTypeOK, InHand, InStep, Receive
<1>2. PICK e : e = Head(inbox)
  OBVIOUS
<1>. DEFINE m == Len(inbox)
<1>3. /\ m \in Nat /\ m # 0 /\ e \in Entry /\ e = inbox[1]
      /\ inbox' \in Seq(Entry) /\ Len(inbox') = m - 1
      /\ \A q \in 1..(m - 1) : inbox'[q] = inbox[q + 1]
  BY <1>1, <1>2, InboxTyped DEF Receive
<1>4. /\ held' = {e} /\ number' = number + 1 /\ writer = "receiving"
      /\ writer' \in {"rotating", "appending"}
      /\ UNCHANGED <<producerVars, dropped, disk, buffer, size, unflushed, owner, incident, faults>>
  BY <1>2 DEF Receive
<1>5. Log' = Log
  BY <1>4 DEF Log
<1>6. LogTypeOK'
  <2>1. Len(inbox') <= Capacity
    BY <1>1, <1>3, LogAssumption DEF LogTypeOK
  <2>2. held' \in SUBSET Entry /\ number' \in Nat /\ inbox' \in Seq(Entry)
    BY <1>1, <1>3, <1>4
  <2>3. QED
    BY <1>1, <1>4, <2>1, <2>2 DEF LogTypeOK, InStep, producerVars
<1>. HIDE DEF m
<1>7. /\ 1..Len(inbox') = 1..(m - 1) /\ 1 \in 1..m
      /\ \A q \in 1..(m - 1) : q + 1 \in 1..m /\ q + 1 > 1
      /\ 1..m = 1..Len(inbox)
      /\ \A q \in 1..m : q = 1 \/ (q - 1 \in 1..(m - 1) /\ (q - 1) + 1 = q)
  BY <1>3 DEF m
<1>8. NumbersGrow'
  <2>1. \A i \in 1..Len(Log) : Log[i].number \in Nat /\ Log[i].number <= number
    BY <1>1, <1>4, LogTyped DEF LogInv, NumbersGrow
  <2>2. QED
    BY <1>1, <1>4, <1>5, <2>1 DEF LogInv, NumbersGrow
<1>9. EventsInOrder'
  <2>1. /\ \A i \in 1..Len(Log) : Log[i].kind = "event" =>
              Log[i].id <= offered /\ \A q \in 1..m : Log[i].id < inbox[q].id
        /\ \A q \in 1..m : inbox[q].id <= offered
        /\ \A p, q \in 1..m : p < q => inbox[p].id < inbox[q].id
    BY <1>7 DEF LogInv, EventsInOrder
  <2>2. \A i \in 1..Len(Log) : Log[i].kind = "event" =>
            /\ Log[i].id < e.id
            /\ \A q \in 1..Len(inbox') : Log[i].id < inbox'[q].id
    BY <1>3, <1>7, <2>1
  <2>3. e.id <= offered /\ \A q \in 1..Len(inbox') : e.id < inbox'[q].id
    BY <1>3, <1>7, <2>1
  <2>4. \A q \in 1..Len(inbox') : inbox'[q].id <= offered
    BY <1>3, <1>7, <2>1
  <2>5. \A p, q \in 1..Len(inbox') : p < q => inbox'[p].id < inbox'[q].id
    <3>1. SUFFICES ASSUME NEW p \in 1..(m - 1), NEW q \in 1..(m - 1), p < q
                   PROVE  inbox'[p].id < inbox'[q].id
      BY <1>7
    <3>2. p + 1 \in 1..m /\ q + 1 \in 1..m /\ p + 1 < q + 1
      BY <1>7, <3>1
    <3>3. inbox'[p] = inbox[p + 1] /\ inbox'[q] = inbox[q + 1]
      BY <1>3
    <3>4. QED
      BY <2>1, <3>2, <3>3
  <2>6. \A i, j \in 1..Len(Log) :
            i < j /\ Log[i].kind = "event" /\ Log[j].kind = "event" => Log[i].id < Log[j].id
    BY DEF LogInv, EventsInOrder
  <2>7. offered' = offered /\ \A f \in held' : f = e
    BY <1>4 DEF producerVars
  <2>8. \A i \in 1..Len(Log') : Log'[i].kind = "event" =>
            /\ Log'[i].id <= offered'
            /\ \A f \in held' : writer' # "flushing" => Log'[i].id < f.id
            /\ \A q \in 1..Len(inbox') : Log'[i].id < inbox'[q].id
    BY <1>5, <2>1, <2>2, <2>7
  <2>9. \A f \in held' : f.id <= offered' /\ \A q \in 1..Len(inbox') : f.id < inbox'[q].id
    BY <2>3, <2>7
  <2>10. \A q \in 1..Len(inbox') : inbox'[q].id <= offered'
    BY <2>4, <2>7
  <2>11. \A i, j \in 1..Len(Log') :
             i < j /\ Log'[i].kind = "event" /\ Log'[j].kind = "event" => Log'[i].id < Log'[j].id
    BY <1>5, <2>6
  <2>12. QED
    BY <2>5, <2>8, <2>9, <2>10, <2>11 DEF EventsInOrder
<1>10. InHand'
  BY <1>4 DEF InHand, InStep
<1>11. NothingFalls'
  <2>1. ASSUME NEW id PROVE InboxHolds(id) <=> id = e.id \/ InboxHolds(id)'
    <3>1. InboxHolds(id) => id = e.id \/ InboxHolds(id)'
      <4>1. SUFFICES ASSUME NEW q \in 1..m, inbox[q].id = id
                     PROVE  id = e.id \/ InboxHolds(id)'
        BY <1>7 DEF InboxHolds
      <4>2. CASE q = 1
        BY <1>3, <4>1, <4>2
      <4>3. CASE q # 1
        <5>1. q - 1 \in 1..Len(inbox') /\ inbox'[q - 1] = inbox[q]
          BY <1>3, <1>7, <4>3
        <5>2. QED
          BY <4>1, <5>1 DEF InboxHolds
      <4>4. QED
        BY <4>2, <4>3
    <3>2. InboxHolds(id)' => InboxHolds(id)
      BY <1>3, <1>7 DEF InboxHolds
    <3>3. id = e.id => InboxHolds(id)
      BY <1>3, <1>7 DEF InboxHolds
    <3>4. QED
      BY <3>1, <3>2, <3>3
  <2>2. \A id : HandHolds(id)' <=> id = e.id
    BY <1>4 DEF HandHolds
  <2>3. \A id : ~HandHolds(id)
    BY <1>1 DEF HandHolds
  <2>4. Running
    BY <1>4 DEF Running
  <2>5. QED
    BY <1>4, <1>5, <2>1, <2>2, <2>3, <2>4 DEF LogInv, NothingFalls, LogHolds, producerVars
<1>12. QED
  BY <1>6, <1>8, <1>9, <1>10, <1>11 DEF LogInv

LEMMA RotateInv ==
    ASSUME LogInv, Rotate
    PROVE  LogInv'
<1>1. LogTypeOK /\ writer = "rotating" /\ LogKept
  BY FlushKeeps DEF LogInv, Rotate
<1>2. faults' \in Nat
  BY <1>1 DEF Rotate, Works, Fails, LogTypeOK
<1>3. UNCHANGED <<producerVars, inbox, dropped, number, unflushed, owner, incident>>
  BY DEF Rotate
<1>4. CASE size' = 0 /\ writer' = "appending" /\ held' = held
  <2>1. LogTypeOK'
    BY <1>1, <1>2, <1>3, <1>4 DEF LogKept, FilesTyped, LogTypeOK, InStep, producerVars
  <2>2. QED
    BY <1>1, <1>3, <1>4, <2>1, StillInv DEF LogKept, producerVars
<1>5. CASE size' = size /\ writer' = "finishing" /\ held' = {}
  <2>1. LogTypeOK'
    BY <1>1, <1>2, <1>3, <1>5 DEF LogKept, FilesTyped, LogTypeOK, InStep, producerVars
  <2>2. QED
    BY <1>1, <1>3, <1>5, <2>1, StoppedInv DEF producerVars
<1>6. QED
  BY <1>4, <1>5 DEF Rotate

LEMMA AppendInv ==
    ASSUME LogInv, AppendRecord
    PROVE  LogInv'
<1>1. LogTypeOK /\ writer = "appending"
  BY DEF LogInv, AppendRecord
<1>2. faults' \in Nat
  BY <1>1 DEF AppendRecord, Works, Fails, LogTypeOK
<1>3. UNCHANGED <<producerVars, inbox, dropped, number, unflushed, owner, incident>>
  BY DEF AppendRecord
<1>4. ASSUME NEW e \in held, Buffered(EventRecord(number, e)),
             size' = size + 1, writer' = "flushing", held' = held
      PROVE  LogInv'
  <2>1. EventRecord(number, e) \in Record
    BY <1>1, InboxTyped DEF EventRecord, Record, Entry, LogTypeOK
  <2>2. Wrote(EventRecord(number, e))
    BY <1>1, <1>4, <2>1, BufferedWrites
  <2>3. LogTypeOK'
    BY <1>1, <1>2, <1>3, <1>4, <2>2 DEF Wrote, FilesTyped, LogTypeOK, InStep, producerVars
  <2>4. QED
    BY <1>1, <1>3, <1>4, <2>2, <2>3, EventWrittenInv DEF producerVars
<1>5. CASE PartlyFlushed /\ size' = size /\ writer' = "finishing" /\ held' = {}
  <2>1. LogKept
    BY <1>1, <1>5, FlushKeeps
  <2>2. LogTypeOK'
    BY <1>1, <1>2, <1>3, <1>5, <2>1 DEF LogKept, FilesTyped, LogTypeOK, InStep, producerVars
  <2>3. QED
    BY <1>1, <1>3, <1>5, <2>1, <2>2, StoppedInv DEF producerVars
<1>6. QED
  BY <1>4, <1>5 DEF AppendRecord

LEMMA FlushInv ==
    ASSUME LogInv, FlushWhenDue
    PROVE  LogInv'
<1>1. LogTypeOK /\ writer = "flushing" /\ writer' = "receiving" /\ held' = {}
  BY DEF LogInv, FlushWhenDue
<1>2. faults' \in Nat /\ unflushed' \in Nat
  BY <1>1 DEF FlushWhenDue, Flush, Works, Fails, LogTypeOK
<1>3. UNCHANGED <<producerVars, inbox, dropped, size, number, owner, incident>>
  BY DEF FlushWhenDue
<1>4. LogKept
  BY <1>1, FlushKeeps DEF FlushWhenDue, Flush, LogKept, FilesTyped, Log, LogTypeOK
<1>5. LogTypeOK'
  BY <1>1, <1>2, <1>3, <1>4 DEF LogKept, FilesTyped, LogTypeOK, InStep, producerVars
<1>6. /\ Log' = Log
      /\ UNCHANGED <<offered, accepted, inbox, number>>
  BY <1>3, <1>4 DEF LogKept, producerVars
<1>7. NumbersGrow'
  BY <1>1, <1>6 DEF LogInv, NumbersGrow
<1>8. EventsInOrder'
  BY <1>1, <1>6 DEF LogInv, EventsInOrder
<1>9. InHand'
  BY <1>1 DEF InHand
<1>10. NothingFalls'
  BY <1>1, <1>6 DEF LogInv, NothingFalls, InHand, LogHolds, HandHolds, InboxHolds, Running, InStep
<1>11. QED
  BY <1>5, <1>7, <1>8, <1>9, <1>10 DEF LogInv

LEMMA DroppedInv ==
    ASSUME LogInv, ReportDropped, writer = "receiving", writer' \in {"flushing", "finishing"},
           UNCHANGED <<producerVars, inbox, held, unflushed, owner, incident>>
    PROVE  LogInv'
<1>1. LogTypeOK /\ held = {}
  BY DEF LogInv, InHand, InStep
<1>2. faults' \in Nat /\ dropped' \in Nat /\ number \in Nat
  BY <1>1 DEF ReportDropped, Works, Fails, LogTypeOK
<1>3. CASE Wrote(DroppedRecord(number + 1, dropped)) /\ number' = number + 1 /\ size' = size + 1
  <2>1. LogTypeOK'
    BY <1>1, <1>2, <1>3 DEF Wrote, FilesTyped, LogTypeOK, InStep, producerVars
  <2>2. DroppedRecord(number + 1, dropped) \in Record
    BY <1>1, <1>2 DEF DroppedRecord, Record, LogTypeOK
  <2>3. /\ DroppedRecord(number + 1, dropped).kind # "event"
        /\ DroppedRecord(number + 1, dropped).number = number + 1
    BY DEF DroppedRecord
  <2>4. QED
    BY <1>3, <2>1, <2>2, <2>3, RemarkWrittenInv DEF producerVars
<1>4. CASE LogKept /\ number' \in Nat /\ number <= number' /\ size' = size
  <2>1. LogTypeOK'
    BY <1>1, <1>2, <1>4 DEF LogKept, FilesTyped, LogTypeOK, InStep, producerVars
  <2>2. Running
    BY DEF Running
  <2>3. QED
    BY <1>1, <1>4, <2>1, <2>2, StillInv DEF LogKept, producerVars
<1>5. QED
  <2>1. CASE dropped = 0
    BY <1>1, <1>2, <1>4, <2>1 DEF ReportDropped, LogKept, FilesTyped, Log, LogTypeOK
  <2>2. CASE dropped # 0 /\ PartlyFlushed /\ number' = number + 1 /\ size' = size
    BY <1>1, <1>2, <1>4, <2>2, FlushKeeps
  <2>3. CASE /\ Buffered(DroppedRecord(number + 1, dropped))
             /\ number' = number + 1 /\ size' = size + 1
    <3>1. DroppedRecord(number + 1, dropped) \in Record
      BY <1>1, <1>2 DEF DroppedRecord, Record, LogTypeOK
    <3>2. QED
      BY <1>1, <1>3, <2>3, <3>1, BufferedWrites
  <2>4. QED
    BY <2>1, <2>2, <2>3 DEF ReportDropped

LEMMA FinishInv ==
    ASSUME LogInv, Finish
    PROVE  LogInv'
<1>1. LogTypeOK /\ writer = "finishing" /\ writer' = "closing" /\ held = {}
  BY DEF LogInv, Finish, InHand, InStep
<1>2. faults' \in Nat /\ number \in Nat
  BY <1>1 DEF Finish, Works, Fails, LogTypeOK
<1>3. UNCHANGED <<producerVars, inbox, dropped, held, size, number, unflushed, owner, incident>>
  BY DEF Finish
<1>4. CASE Buffered(FinishRecord(FinishNumber))
  <2>1. FinishRecord(FinishNumber) \in Record
    BY <1>2 DEF FinishRecord, FinishNumber, Record
  <2>2. Wrote(FinishRecord(FinishNumber))
    BY <1>1, <1>4, <2>1, BufferedWrites
  <2>3. LogTypeOK'
    BY <1>1, <1>2, <1>3, <2>2 DEF Wrote, FilesTyped, LogTypeOK, InStep, producerVars
  <2>4. FinishRecord(FinishNumber).kind # "event" /\ FinishRecord(FinishNumber).number = number + 1
    BY DEF FinishRecord, FinishNumber
  <2>5. QED
    BY <1>1, <1>3, <2>1, <2>2, <2>3, <2>4, RemarkWrittenInv DEF producerVars
<1>5. CASE PartlyFlushed
  <2>1. LogKept
    BY <1>1, <1>5, FlushKeeps
  <2>2. LogTypeOK'
    BY <1>1, <1>2, <1>3, <2>1 DEF LogKept, FilesTyped, LogTypeOK, InStep, producerVars
  <2>3. Shortened
    BY <1>1, <2>1, LogTyped DEF LogKept, Shortened
  <2>4. QED
    BY <1>1, <1>3, <2>2, <2>3, LeavingInv DEF producerVars
<1>6. QED
  BY <1>4, <1>5 DEF Finish

\* The writer returns, or the process ends under it.
LEMMA EndInv ==
    ASSUME LogInv, Return \/ Crash
    PROVE  LogInv'
<1>1. LogTypeOK /\ disk \in Seq(Record) /\ buffer \in Seq(Record)
  BY DEF LogInv, LogTypeOK
<1>2. CASE Return
  <2>1. Shortened
    <3>1. CASE Flushed
      BY <1>1, <3>1, FlushKeeps, LogTyped DEF LogKept, Shortened
    <3>2. CASE ~Flushed
      BY <1>1, <1>2, <3>2, CrashShortens DEF Return
    <3>3. QED
      BY <3>1, <3>2
  <2>2. faults' \in Nat /\ held = {}
    BY <1>1, <1>2 DEF Return, Works, Fails, LogTypeOK, LogInv, InHand, InStep
  <2>3. LogTypeOK'
    BY <1>1, <1>2, <2>1, <2>2, LogAssumption
       DEF Return, Shortened, FilesTyped, LogTypeOK, InStep, producerVars
  <2>4. QED
    BY <1>2, <2>1, <2>2, <2>3, LeavingInv DEF Return, producerVars
<1>3. CASE Crash
  <2>1. SubSeq(buffer, 1, 0) = << >> /\ disk \o << >> = disk
    BY <1>1, SubSeqEmpty, ConcatEmptySeq
  <2>2. Shortened
    <3>1. 0 \in 0..Len(buffer) /\ disk' = disk \o SubSeq(buffer, 1, 0) /\ buffer' = << >>
      BY <1>1, <1>3, <2>1 DEF Crash
    <3>2. QED
      BY <1>1, <3>1, CrashShortens
  <2>3. LogTypeOK'
    BY <1>1, <1>3, <2>2, LogAssumption
       DEF Crash, Shortened, FilesTyped, LogTypeOK, InStep, producerVars
  <2>4. QED
    BY <1>3, <2>2, <2>3, LeavingInv DEF Crash, producerVars
<1>4. QED
  BY <1>2, <1>3

LEMMA OwnerInv ==
    ASSUME LogInv, HangUp \/ Join \/ Panic \/ UNCHANGED logVars
    PROVE  LogInv'
<1>1. LogTypeOK
  BY DEF LogInv
<1>2. UNCHANGED <<producerVars, inbox, dropped, held, fileVars, writer, faults>>
  BY DEF HangUp, Join, Panic, logVars
<1>3. owner' \in {"using", "joining", "closed", "crashed"}
  BY <1>1 DEF HangUp, Join, Panic, logVars, LogTypeOK
<1>4. incident' \in [place : {"pending", "final", "removed"}, reports : Nat]
  BY <1>1 DEF HangUp, Join, Panic, logVars, LogTypeOK
<1>5. LogTypeOK'
  BY <1>1, <1>2, <1>3, <1>4 DEF LogTypeOK, producerVars, fileVars
<1>6. Log' = Log
  BY <1>2 DEF Log, fileVars
<1>7. QED
  BY <1>2, <1>5, <1>6, StillInv DEF producerVars, fileVars

LEMMA LogNextInv == LogInv /\ [LogNext]_logVars => LogInv'
<1>. SUFFICES ASSUME LogInv, [LogNext]_logVars PROVE LogInv'
  OBVIOUS
<1>1. CASE Timeout
  BY <1>1, DroppedInv DEF Timeout
<1>2. CASE Disconnected
  BY <1>2, DroppedInv DEF Disconnected
<1>3. QED
  BY <1>1, <1>2, EnqueueInv, ReceiveInv, RotateInv, AppendInv, FlushInv, FinishInv, EndInv,
     OwnerInv DEF LogNext, WriterStep

LEMMA LogInvariant == LogSpec => []LogInv
BY LogInitInv, LogNextInv, PTL DEF LogSpec

-----------------------------------------------------------------------------
(* The theorems.                                                           *)

LEMMA HoldsIsEvents ==
    ASSUME LogTypeOK, NEW id
    PROVE  id \in Events(Log) <=> LogHolds(id)
<1>1. DOMAIN Log = 1..Len(Log)
  BY LogTyped
<1>2. QED
  BY <1>1 DEF Events, LogHolds

\* The log keeps the order of the session whatever is rotated, spilled,
\* flushed in part or cut off by a crash.
THEOREM LogKeepsItsOrder == LogSpec => []LogIsInOrder
<1>1. LogInv => LogIsInOrder
  <2>. SUFFICES ASSUME LogInv PROVE LogIsInOrder
    OBVIOUS
  <2>1. LogTypeOK /\ DOMAIN Log = 1..Len(Log) /\ DOMAIN inbox = 1..Len(inbox)
    BY LogTyped, InboxTyped DEF LogInv
  <2>2. \A id \in Events(Log) : LogHolds(id)
    BY <2>1, HoldsIsEvents
  <2>3. \A id \in Queued : InboxHolds(id)
    BY <2>1 DEF Queued, InboxHolds
  <2>4. \A i, j \in DOMAIN Log : i < j =>
          /\ Log[i].number < Log[j].number
          /\ Log[i].kind = "event" /\ Log[j].kind = "event" => Log[i].id < Log[j].id
    BY <2>1 DEF LogInv, NumbersGrow, EventsInOrder
  <2>5. \A id \in Events(Log), e \in held : writer # "flushing" => id < e.id
    BY <2>2 DEF LogInv, EventsInOrder, LogHolds
  <2>6. \A id \in Events(Log) \cup {e.id : e \in held}, later \in Queued : id < later
    BY <2>2, <2>3 DEF LogInv, EventsInOrder, LogHolds, InboxHolds
  <2>7. \A i, j \in DOMAIN inbox : i < j => inbox[i].id < inbox[j].id
    BY <2>1 DEF LogInv, EventsInOrder
  <2>8. QED
    BY <2>4, <2>5, <2>6, <2>7 DEF LogIsInOrder
<1>2. QED
  BY LogInvariant, <1>1, PTL

\* While the writer runs, nothing it accepted falls between two places.
THEOREM AcceptedEventsAreKept == LogSpec => []NothingAcceptedIsLost
<1>1. LogInv => NothingAcceptedIsLost
  <2>. SUFFICES ASSUME LogInv, Running
                PROVE  accepted = Events(Log) \cup {e.id : e \in held} \cup Queued
    BY DEF NothingAcceptedIsLost
  <2>1. LogTypeOK /\ DOMAIN inbox = 1..Len(inbox)
    BY InboxTyped DEF LogInv
  <2>2. \A id : id \in Queued <=> InboxHolds(id)
    BY <2>1 DEF Queued, InboxHolds
  <2>3. \A id : id \in {e.id : e \in held} <=> HandHolds(id)
    BY DEF HandHolds
  <2>4. \A id : id \in Events(Log) <=> LogHolds(id)
    BY <2>1, HoldsIsEvents
  <2>5. \A id : id \in accepted <=> LogHolds(id) \/ HandHolds(id) \/ InboxHolds(id)
    BY DEF LogInv, NothingFalls
  <2>6. QED
    BY ONLY <2>2, <2>3, <2>4, <2>5
<1>2. QED
  BY LogInvariant, <1>1, PTL

-----------------------------------------------------------------------------
(* What the log counts: the refusals that its records report.              *)

LEMMA CountedSteps ==
    ASSUME NEW log \in Seq(Record)
    PROVE  \E f \in [0..Len(log) -> Nat] :
             /\ f[0] = 0 /\ f[Len(log)] = Counted(log)
             /\ \A n \in 1..Len(log) : f[n] = f[n-1] + log[n].count
<1>. DEFINE N == Len(log)
            step == [n \in 1..N |-> [s \in Nat |-> s + log[n].count]]
            body(f) == [n \in 0..N |-> IF n = 0 THEN 0 ELSE f[n-1] + log[n].count]
            total == CHOOSE f : f = body(f)
<1>1. N \in Nat /\ \A n \in 1..N : log[n].count \in Nat
  <2>1. \A r \in Record : r.count \in Nat
    BY DEF Record
  <2>2. QED
    BY <2>1
<1>2. total[N] = Counted(log)
  BY DEF Counted
<1>. HIDE DEF N
<1>3. step \in [1..N -> [Nat -> Nat]]
  BY <1>1
<1>4. PICK g \in [0..N -> Nat] : Follows(g, N, 0, step)
  BY <1>1, <1>3, PrefixRecursion
<1>5. g = body(g)
  <2>. DEFINE by(n) == IF n = 0 THEN 0 ELSE step[n][g[n-1]]
              with(n) == IF n = 0 THEN 0 ELSE g[n-1] + log[n].count
  <2>1. \A n \in 0..N : by(n) = with(n)
    BY <1>1
  <2>2. g = [n \in 0..N |-> by(n)]
    BY <1>4 DEF Follows
  <2>. HIDE DEF by, with
  <2>3. [n \in 0..N |-> by(n)] = [n \in 0..N |-> with(n)]
    BY ONLY <2>1
  <2>4. g = [n \in 0..N |-> with(n)]
    BY ONLY <2>2, <2>3
  <2>5. QED
    BY <2>4 DEF with
<1>6. total = body(total)
  BY <1>5
<1>. HIDE DEF total, step
<1>7. /\ total[0] = 0
      /\ \A n \in 1..N : total[n] = total[n-1] + log[n].count
  BY <1>1, <1>6
<1>8. total \in [0..N -> Nat]
  <2>. DEFINE G == {n \in 0..N : total[n] \in Nat}
  <2>1. 0 \in G
    BY <1>1, <1>7
  <2>2. ASSUME NEW n \in 0..(N - 1), n \in G
        PROVE  n + 1 \in G
    <3>1. n + 1 \in 1..N /\ (n + 1) - 1 = n
      BY <1>1
    <3>2. total[n + 1] = total[n] + log[n + 1].count
      BY <1>7, <3>1
    <3>3. QED
      BY <1>1, <2>2, <3>1, <3>2
  <2>. HIDE DEF G
  <2>3. \A n \in 0..N : n \in G
    BY <1>1, <2>1, <2>2, PrefixInduction
  <2>4. \A n \in 0..N : total[n] \in Nat
    BY <2>3 DEF G
  <2>5. QED
    BY <1>6, <2>4
<1>9. QED
  BY <1>2, <1>7, <1>8 DEF N

LEMMA CountedEmpty == Counted(<< >>) = 0
<1>1. << >> \in Seq(Record) /\ Len(<< >>) = 0
  OBVIOUS
<1>2. QED
  BY <1>1, CountedSteps

\* A record adds what it reports.
LEMMA CountedAppend ==
    ASSUME NEW log \in Seq(Record), NEW r \in Record
    PROVE  Counted(log) \in Nat /\ Counted(Append(log, r)) = Counted(log) + r.count
<1>. DEFINE N == Len(log)
            longer == Append(log, r)
<1>1. /\ N \in Nat /\ longer \in Seq(Record) /\ Len(longer) = N + 1 /\ longer[N + 1] = r
      /\ \A n \in 1..N : longer[n] = log[n]
  OBVIOUS
<1>2. PICK f \in [0..N -> Nat] :
        /\ f[0] = 0 /\ f[N] = Counted(log)
        /\ \A n \in 1..N : f[n] = f[n-1] + log[n].count
  BY CountedSteps
<1>3. PICK g \in [0..(N + 1) -> Nat] :
        /\ g[0] = 0 /\ g[N + 1] = Counted(longer)
        /\ \A n \in 1..(N + 1) : g[n] = g[n-1] + longer[n].count
  BY <1>1, CountedSteps
<1>. HIDE DEF N, longer
<1>. DEFINE G == {n \in 0..N : f[n] = g[n]}
<1>4. 0 \in G
  BY <1>1, <1>2, <1>3
<1>5. ASSUME NEW n \in 0..(N - 1), n \in G
      PROVE  n + 1 \in G
  <2>1. n + 1 \in 1..N /\ n + 1 \in 1..(N + 1) /\ n + 1 \in 0..N /\ (n + 1) - 1 = n
    BY <1>1
  <2>2. f[n + 1] = f[n] + log[n + 1].count /\ g[n + 1] = g[n] + longer[n + 1].count
    BY <1>2, <1>3, <2>1
  <2>3. QED
    BY <1>1, <1>5, <2>1, <2>2
<1>6. \A n \in 0..N : n \in G
  <2>. HIDE DEF G
  <2>1. QED
    BY <1>1, <1>4, <1>5, PrefixInduction
<1>7. f[N] = g[N] /\ f[N] \in Nat
  BY <1>1, <1>6
<1>8. g[N + 1] = g[N] + r.count
  <2>1. N + 1 \in 1..(N + 1) /\ (N + 1) - 1 = N
    BY <1>1
  <2>2. QED
    BY <1>1, <1>3, <2>1
<1>9. QED
  BY <1>2, <1>3, <1>7, <1>8 DEF longer

-----------------------------------------------------------------------------
(* What the channel refused, and what is critical.                         *)

Healthy == faults = 0 /\ owner # "crashed"
HasCritical == \E i \in DOMAIN buffer : buffer[i].critical

RefusalsCounted ==
    Healthy => /\ overflowed = dropped + Counted(Log)
               /\ writer \in {"finishing", "closing", "ended"} => owner # "using" /\ dropped = 0
CriticalFlushed ==
    faults = 0 /\ writer \in InStep \cup {"receiving"} /\ HasCritical =>
      writer = "flushing" /\ \A e \in held : e.critical
CountInv ==
    /\ LogInv
    /\ owner = "closed" => writer = "ended"
    /\ RefusalsCounted /\ CriticalFlushed

LEMMA CountInitInv == LogInit => CountInv
<1>. SUFFICES ASSUME LogInit PROVE CountInv
  OBVIOUS
<1>1. Log = << >>
  BY ConcatEmptySeq DEF LogInit, Log
<1>2. QED
  BY <1>1, LogInitInv, CountedEmpty
     DEF LogInit, CountInv, RefusalsCounted, CriticalFlushed, HasCritical, Healthy

\* Only what is written becomes critical in the buffer.
LEMMA BufferedCritical ==
    ASSUME LogTypeOK, NEW r \in Record, Buffered(r), HasCritical'
    PROVE  HasCritical \/ r.critical
<1>1. buffer \in Seq(Record)
  BY DEF LogTypeOK
<1>2. CASE buffer' = Append(buffer, r)
  <2>1. /\ Len(buffer') = Len(buffer) + 1 /\ Len(buffer) \in Nat
        /\ DOMAIN buffer' = 1..(Len(buffer) + 1) /\ DOMAIN buffer = 1..Len(buffer)
        /\ buffer'[Len(buffer) + 1] = r
        /\ \A i \in 1..Len(buffer) : buffer'[i] = buffer[i]
    BY <1>1, <1>2
  <2>2. PICK i \in DOMAIN buffer' : buffer'[i].critical
    BY DEF HasCritical
  <2>3. i \in 1..Len(buffer) \/ i = Len(buffer) + 1
    BY <2>1
  <2>4. QED
    BY <2>1, <2>2, <2>3 DEF HasCritical
<1>3. CASE buffer' = <<r>>
  BY <1>3 DEF HasCritical
<1>4. QED
  BY <1>2, <1>3 DEF Buffered

\* A failing call ends what is claimed.
LEMMA FailsEnds ==
    ASSUME LogTypeOK, Fails
    PROVE  faults' # 0
  BY DEF LogTypeOK, Fails

\* The steps that neither refuse nor write nor flush.
LEMMA StillCounts ==
    ASSUME CountInv, LogInv', UNCHANGED <<overflowed, dropped, disk, buffer, faults>>,
           owner' = owner,
           writer' \in {"finishing", "closing", "ended"} <=>
             writer \in {"finishing", "closing", "ended"},
           writer = "ended" => writer' = "ended",
           faults = 0 /\ HasCritical /\ writer' \in InStep \cup {"receiving"} =>
             writer' = writer /\ held' \subseteq held
    PROVE  CountInv'
<1>1. Log' = Log /\ HasCritical' = HasCritical
  BY DEF Log, HasCritical
<1>2. QED
  BY <1>1 DEF CountInv, RefusalsCounted, CriticalFlushed, Healthy

LEMMA EnqueueCounts ==
    ASSUME CountInv, LogInv', NEW critical \in BOOLEAN, Enqueue(critical)
    PROVE  CountInv'
<1>1. /\ owner = "using" /\ Log' = Log /\ HasCritical' = HasCritical
      /\ UNCHANGED <<held, writer, owner, faults>>
  BY DEF Enqueue, fileVars, Log, HasCritical
<1>2. /\ dropped \in Nat /\ overflowed \in Nat /\ Log \in Seq(Record)
  BY LogTyped DEF CountInv, LogInv, LogTypeOK
<1>3. Counted(Log) \in Nat
  <2>1. DroppedRecord(0, 0) \in Record
    BY DEF DroppedRecord, Record
  <2>2. QED
    BY <1>2, <2>1, CountedAppend
<1>4. CASE overflowed' = overflowed + 1 /\ dropped' = dropped + 1 /\ Connected
  <2>1. writer # "ended"
    BY <1>4 DEF Connected
  <2>2. QED
    BY <1>1, <1>2, <1>3, <1>4, <2>1 DEF CountInv, RefusalsCounted, CriticalFlushed, Healthy
<1>5. CASE UNCHANGED <<overflowed, dropped>>
  BY <1>1, <1>2, <1>3, <1>5 DEF CountInv, RefusalsCounted, CriticalFlushed, Healthy
<1>6. QED
  BY <1>4, <1>5 DEF Enqueue

\* A record reports the refusals it counts.
LEMMA WrittenCounts ==
    ASSUME LogTypeOK, NEW r \in Record, Wrote(r)
    PROVE  Counted(Log') = Counted(Log) + r.count /\ Counted(Log) \in Nat
  BY LogTyped, CountedAppend DEF Wrote

LEMMA ReceiveCounts ==
    ASSUME CountInv, LogInv', Receive
    PROVE  CountInv'
<1>1. /\ writer = "receiving" /\ writer' \in {"rotating", "appending"}
      /\ UNCHANGED <<producerVars, dropped, disk, buffer, owner, faults>>
  BY DEF Receive
<1>2. ~(faults = 0 /\ HasCritical)
  BY <1>1 DEF CountInv, CriticalFlushed
<1>3. QED
  BY <1>1, <1>2, StillCounts DEF producerVars

LEMMA RotateCounts ==
    ASSUME CountInv, LogInv', Rotate
    PROVE  CountInv'
<1>1. LogTypeOK /\ writer = "rotating"
  BY DEF CountInv, LogInv, Rotate
<1>2. UNCHANGED <<producerVars, inbox, dropped, owner>>
  BY DEF Rotate
<1>3. CASE Works /\ Flushed /\ writer' = "appending"
  <2>1. Log' = Log /\ ~HasCritical'
    BY <1>1, <1>3, FlushKeeps DEF LogKept, Flushed, HasCritical
  <2>2. QED
    BY <1>1, <1>2, <1>3, <2>1
       DEF CountInv, RefusalsCounted, CriticalFlushed, Healthy, Works, producerVars
<1>4. CASE Fails /\ writer' = "finishing"
  BY <1>1, <1>2, <1>4, FailsEnds
     DEF CountInv, RefusalsCounted, CriticalFlushed, Healthy, producerVars
<1>5. QED
  BY <1>3, <1>4 DEF Rotate

LEMMA AppendCounts ==
    ASSUME CountInv, LogInv', AppendRecord
    PROVE  CountInv'
<1>1. LogTypeOK /\ writer = "appending" /\ InHand
  BY DEF CountInv, LogInv, AppendRecord
<1>2. UNCHANGED <<producerVars, inbox, dropped, owner>>
  BY DEF AppendRecord
<1>3. ASSUME NEW e \in held, Works, Buffered(EventRecord(number, e)), writer' = "flushing",
             held' = held
      PROVE  CountInv'
  <2>. DEFINE r == EventRecord(number, e)
  <2>1. r \in Record /\ r.count = 0 /\ r.critical = e.critical
    BY <1>1, InboxTyped DEF EventRecord, Record, Entry, LogTypeOK
  <2>. HIDE DEF r
  <2>2. Wrote(r)
    BY <1>1, <1>3, <2>1, BufferedWrites DEF r
  <2>3. Counted(Log') = Counted(Log)
    BY <1>1, <2>1, <2>2, WrittenCounts
  <2>4. HasCritical' => HasCritical \/ r.critical
    BY <1>1, <1>3, <2>1, BufferedCritical DEF r
  <2>5. faults = 0 => ~HasCritical
    BY <1>1 DEF CountInv, CriticalFlushed, InStep
  <2>6. \A f \in held' : f = e
    BY <1>1, <1>3 DEF InHand
  <2>7. RefusalsCounted'
    BY <1>1, <1>2, <1>3, <2>3 DEF CountInv, RefusalsCounted, Healthy, Works, producerVars
  <2>8. CriticalFlushed'
    BY <1>3, <2>1, <2>4, <2>5, <2>6 DEF CriticalFlushed, Works
  <2>9. QED
    BY <1>1, <1>2, <2>7, <2>8 DEF CountInv
<1>4. CASE Fails /\ writer' = "finishing"
  BY <1>1, <1>2, <1>4, FailsEnds
     DEF CountInv, RefusalsCounted, CriticalFlushed, Healthy, producerVars
<1>5. QED
  BY <1>3, <1>4 DEF AppendRecord

LEMMA FlushCounts ==
    ASSUME CountInv, LogInv', FlushWhenDue
    PROVE  CountInv'
<1>1. LogTypeOK /\ writer = "flushing" /\ writer' = "receiving"
  BY DEF CountInv, LogInv, FlushWhenDue
<1>2. UNCHANGED <<producerVars, inbox, dropped, owner>>
  BY DEF FlushWhenDue
<1>3. CASE Works /\ Flushed
  <2>1. Log' = Log /\ ~HasCritical'
    BY <1>1, <1>3, FlushKeeps DEF LogKept, Flushed, HasCritical
  <2>2. QED
    BY <1>1, <1>2, <1>3, <2>1
       DEF CountInv, RefusalsCounted, CriticalFlushed, Healthy, Works, producerVars
<1>4. CASE Fails
  BY <1>1, <1>2, <1>4, FailsEnds
     DEF CountInv, RefusalsCounted, CriticalFlushed, Healthy, producerVars
<1>5. CASE (\E e \in held : ~MustFlush(e)) /\ UNCHANGED <<disk, buffer, faults>>
  <2>1. PICK e \in held : ~e.critical
    BY <1>5 DEF MustFlush
  <2>2. Log' = Log /\ HasCritical' = HasCritical
    BY <1>5 DEF Log, HasCritical
  <2>3. faults = 0 => ~HasCritical
    BY <1>1, <2>1 DEF CountInv, CriticalFlushed, InStep
  <2>4. QED
    BY <1>1, <1>2, <1>5, <2>2, <2>3
       DEF CountInv, RefusalsCounted, CriticalFlushed, Healthy, producerVars
<1>6. QED
  BY <1>3, <1>4, <1>5 DEF FlushWhenDue, Flush

\* The counter is taken and reported.
LEMMA ReportCounts ==
    ASSUME CountInv, LogInv', ReportDropped, writer = "receiving",
           UNCHANGED <<producerVars, inbox, held, owner>>,
           \/ writer' = "flushing"
           \/ writer' = "finishing" /\ owner # "using"
    PROVE  CountInv'
<1>1. LogTypeOK /\ held = {} /\ dropped' = 0 /\ held' = {}
  BY DEF CountInv, LogInv, InHand, InStep, ReportDropped
<1>2. overflowed' = overflowed /\ owner' = owner
  BY DEF producerVars
<1>3. /\ dropped \in Nat /\ overflowed \in Nat /\ number \in Nat
  BY <1>1 DEF LogTypeOK
<1>4. CASE dropped = 0 /\ Works /\ UNCHANGED <<disk, buffer>>
  <2>1. Log' = Log /\ HasCritical' = HasCritical
    BY <1>4 DEF Log, HasCritical
  <2>2. QED
    BY <1>1, <1>2, <1>4, <2>1
       DEF CountInv, RefusalsCounted, CriticalFlushed, Healthy, Works
<1>5. CASE Works /\ Buffered(DroppedRecord(number + 1, dropped))
  <2>. DEFINE r == DroppedRecord(number + 1, dropped)
  <2>1. r \in Record /\ r.count = dropped /\ ~r.critical
    BY <1>3 DEF DroppedRecord, Record
  <2>. HIDE DEF r
  <2>2. Wrote(r)
    BY <1>1, <1>5, <2>1, BufferedWrites DEF r
  <2>3. Counted(Log') = Counted(Log) + dropped /\ Counted(Log) \in Nat
    BY <1>1, <2>1, <2>2, WrittenCounts
  <2>4. HasCritical' => HasCritical
    BY <1>1, <1>5, <2>1, BufferedCritical DEF r
  <2>5. RefusalsCounted'
    BY <1>1, <1>2, <1>3, <1>5, <2>3 DEF CountInv, RefusalsCounted, Healthy, Works
  <2>6. CriticalFlushed'
    BY <1>1, <1>5, <2>4 DEF CountInv, CriticalFlushed, Works
  <2>7. QED
    BY <1>2, <2>5, <2>6 DEF CountInv
<1>6. CASE Fails
  BY <1>1, <1>2, <1>6, FailsEnds DEF CountInv, RefusalsCounted, CriticalFlushed, Healthy
<1>7. QED
  BY <1>4, <1>5, <1>6 DEF ReportDropped

LEMMA FinishCounts ==
    ASSUME CountInv, LogInv', Finish
    PROVE  CountInv'
<1>1. LogTypeOK /\ writer = "finishing" /\ writer' = "closing" /\ number \in Nat
  BY DEF CountInv, LogInv, LogTypeOK, Finish
<1>2. UNCHANGED <<producerVars, inbox, dropped, owner>>
  BY DEF Finish
<1>3. CASE Works /\ Buffered(FinishRecord(FinishNumber))
  <2>. DEFINE r == FinishRecord(FinishNumber)
  <2>1. r \in Record /\ r.count = 0
    BY <1>1 DEF FinishRecord, FinishNumber, Record
  <2>. HIDE DEF r
  <2>2. Wrote(r)
    BY <1>1, <1>3, <2>1, BufferedWrites DEF r
  <2>3. Counted(Log') = Counted(Log)
    BY <1>1, <2>1, <2>2, WrittenCounts
  <2>4. QED
    BY <1>1, <1>2, <1>3, <2>3
       DEF CountInv, RefusalsCounted, CriticalFlushed, Healthy, Works, InStep, producerVars
<1>4. CASE Fails
  BY <1>1, <1>2, <1>4, FailsEnds
     DEF CountInv, RefusalsCounted, CriticalFlushed, Healthy, producerVars
<1>5. QED
  BY <1>3, <1>4 DEF Finish

LEMMA EndCounts ==
    ASSUME CountInv, LogInv', Return \/ Crash
    PROVE  CountInv'
<1>1. LogTypeOK
  BY DEF CountInv, LogInv
<1>2. CASE Crash
  BY <1>2 DEF Crash, CountInv, RefusalsCounted, CriticalFlushed, Healthy, InStep
<1>3. CASE Return
  <2>1. /\ writer = "closing" /\ writer' = "ended"
        /\ UNCHANGED <<producerVars, dropped, owner>>
    BY <1>3 DEF Return
  <2>2. CASE Works /\ Flushed
    <3>1. Log' = Log
      BY <1>1, <2>2, FlushKeeps DEF LogKept
    <3>2. QED
      BY <2>1, <2>2, <3>1
         DEF CountInv, RefusalsCounted, CriticalFlushed, Healthy, Works, InStep, producerVars
  <2>3. CASE Fails
    BY <1>1, <2>1, <2>3, FailsEnds
       DEF CountInv, RefusalsCounted, CriticalFlushed, Healthy, producerVars
  <2>4. QED
    BY <1>3, <2>2, <2>3 DEF Return
<1>4. QED
  BY <1>2, <1>3

LEMMA OwnerCounts ==
    ASSUME CountInv, LogInv', HangUp \/ Join \/ Panic \/ UNCHANGED logVars
    PROVE  CountInv'
<1>1. UNCHANGED <<producerVars, inbox, dropped, held, fileVars, writer, faults>>
  BY DEF HangUp, Join, Panic, logVars
<1>2. Log' = Log /\ HasCritical' = HasCritical /\ overflowed' = overflowed
  BY <1>1 DEF Log, HasCritical, fileVars, producerVars
<1>3. /\ owner' # "crashed" => owner # "crashed"
      /\ owner # "using" => owner' # "using"
      /\ owner' = "closed" => owner = "closed" \/ writer = "ended"
  BY DEF HangUp, Join, Panic, logVars
<1>4. QED
  BY <1>1, <1>2, <1>3 DEF CountInv, RefusalsCounted, CriticalFlushed, Healthy

LEMMA CountNextInv == CountInv /\ [LogNext]_logVars => CountInv'
<1>. SUFFICES ASSUME CountInv, [LogNext]_logVars PROVE CountInv'
  OBVIOUS
<1>1. LogInv'
  BY LogNextInv DEF CountInv
<1>2. CASE Timeout
  BY <1>1, <1>2, ReportCounts DEF Timeout
<1>3. CASE Disconnected
  BY <1>1, <1>3, ReportCounts DEF Disconnected, HungUp
<1>4. QED
  BY <1>1, <1>2, <1>3, EnqueueCounts, ReceiveCounts, RotateCounts, AppendCounts, FlushCounts,
     FinishCounts, EndCounts, OwnerCounts DEF LogNext, WriterStep

LEMMA CountInvariant == LogSpec => []CountInv
BY CountInitInv, CountNextInv, PTL DEF LogSpec

\* What a full channel refuses is counted once, and reported by the time the
\* recorder is closed, unless the file system or the process fails.
THEOREM RefusalsAreCountedOnce == LogSpec => []RefusalsAreReported
<1>1. CountInv => RefusalsAreReported
  BY DEF CountInv, RefusalsCounted, Healthy, RefusalsAreReported
<1>2. QED
  BY CountInvariant, <1>1, PTL

\* A critical record is in the file before the writer takes the next event,
\* unless a flush failed.
THEOREM CriticalRecordsReachTheFile == LogSpec => []CriticalRecordsAreFlushed
<1>1. CountInv => CriticalRecordsAreFlushed
  BY DEF CountInv, CriticalFlushed, HasCritical, CriticalRecordsAreFlushed
<1>2. QED
  BY CountInvariant, <1>1, PTL

-----------------------------------------------------------------------------
(* The updater: what one frame makes of the messages in the channel.       *)

MessageType == [kind : Answers \cup {"progress"}, version : Versions, percent : 0..MaxSteps]
Drawn == [status : UpdateStatus, pending : Versions]

IsAnswer(e) == e.kind \in Answers

LEMMA AfterDrawn ==
    ASSUME NEW s \in Drawn, NEW e \in MessageType
    PROVE  /\ After(s, e) \in Drawn
           /\ e.kind = "progress" =>
                /\ After(s, e).status.kind = s.status.kind
                /\ After(s, e).status.version = s.status.version
                /\ After(s, e).pending = s.pending
           /\ s.status.kind # "downloading" /\ e.kind = "progress" => After(s, e) = s
<1>. /\ s.status \in UpdateStatus /\ s.pending \in Versions
     /\ e.kind \in Answers \cup {"progress"} /\ e.version \in Versions /\ e.percent \in 0..MaxSteps
     /\ 0 \in Versions /\ 0 \in 0..MaxSteps
  BY UpdateAssumption DEF Drawn, MessageType, Versions
<1>1. CASE e.kind = "progress"
  <2>1. After(s, e) = [s EXCEPT !.status = AfterProgress(s.status, e)]
    BY <1>1 DEF After
  <2>2. /\ AfterProgress(s.status, e) \in UpdateStatus
        /\ AfterProgress(s.status, e).kind = s.status.kind
        /\ AfterProgress(s.status, e).version = s.status.version
    BY DEF AfterProgress, UpdateStatus
  <2>3. s.status.kind # "downloading" => AfterProgress(s.status, e) = s.status
    BY DEF AfterProgress
  <2>4. QED
    BY <1>1, <2>1, <2>2, <2>3 DEF Drawn
<1>2. CASE e.kind \in Answers
  BY <1>2 DEF After, Drawn, UpdateStatus, Plain, Answers
<1>3. QED
  BY <1>1, <1>2

\* The messages one after another.
LEMMA DrainedSteps ==
    ASSUME NEW first \in Drawn, NEW messages \in Seq(MessageType)
    PROVE  \E f \in [0..Len(messages) -> Drawn] :
             /\ f[0] = first /\ f[Len(messages)] = Drained(first, messages)
             /\ \A n \in 1..Len(messages) : f[n] = After(f[n-1], messages[n])
<1>. DEFINE N == Len(messages)
            step == [n \in 1..N |-> [s \in Drawn |-> After(s, messages[n])]]
            body(f) == [n \in 0..N |-> IF n = 0 THEN first ELSE After(f[n-1], messages[n])]
            after == CHOOSE f : f = body(f)
<1>1. N \in Nat /\ \A n \in 1..N : messages[n] \in MessageType
  OBVIOUS
<1>2. after[N] = Drained(first, messages)
  BY DEF Drained
<1>. HIDE DEF N
<1>3. step \in [1..N -> [Drawn -> Drawn]]
  BY <1>1, AfterDrawn
<1>4. PICK g \in [0..N -> Drawn] : Follows(g, N, first, step)
  BY <1>1, <1>3, PrefixRecursion
<1>5. g = body(g)
  <2>. DEFINE by(n) == IF n = 0 THEN first ELSE step[n][g[n-1]]
              with(n) == IF n = 0 THEN first ELSE After(g[n-1], messages[n])
  <2>1. \A n \in 0..N : by(n) = with(n)
    BY <1>1
  <2>2. g = [n \in 0..N |-> by(n)]
    BY <1>4 DEF Follows
  <2>. HIDE DEF by, with
  <2>3. [n \in 0..N |-> by(n)] = [n \in 0..N |-> with(n)]
    BY ONLY <2>1
  <2>4. g = [n \in 0..N |-> with(n)]
    BY ONLY <2>2, <2>3
  <2>5. QED
    BY <2>4 DEF with
<1>6. after = body(after)
  BY <1>5
<1>. HIDE DEF after, step
<1>7. /\ after[0] = first
      /\ \A n \in 1..N : after[n] = After(after[n-1], messages[n])
  BY <1>1, <1>6
<1>8. after \in [0..N -> Drawn]
  <2>. DEFINE G == {n \in 0..N : after[n] \in Drawn}
  <2>1. 0 \in G
    BY <1>1, <1>7
  <2>2. ASSUME NEW n \in 0..(N - 1), n \in G
        PROVE  n + 1 \in G
    <3>1. n + 1 \in 1..N /\ (n + 1) - 1 = n
      BY <1>1
    <3>2. after[n + 1] = After(after[n], messages[n + 1])
      BY <1>7, <3>1
    <3>3. after[n] \in Drawn /\ messages[n + 1] \in MessageType
      BY <1>1, <2>2, <3>1
    <3>4. After(after[n], messages[n + 1]) \in Drawn
      BY <3>3, AfterDrawn
    <3>5. QED
      BY <1>1, <3>1, <3>2, <3>4
  <2>. HIDE DEF G
  <2>3. \A n \in 0..N : n \in G
    BY <1>1, <2>1, <2>2, PrefixInduction
  <2>4. \A n \in 0..N : after[n] \in Drawn
    BY <2>3 DEF G
  <2>5. QED
    BY <1>6, <2>4
<1>9. QED
  BY <1>2, <1>7, <1>8 DEF N

\* Progress alone leaves the card as it is, but for the percentage.
LEMMA DrainedProgress ==
    ASSUME NEW first \in Drawn, NEW messages \in Seq(MessageType),
           \A i \in DOMAIN messages : ~IsAnswer(messages[i])
    PROVE  /\ Drained(first, messages) \in Drawn
           /\ Drained(first, messages).status.kind = first.status.kind
           /\ Drained(first, messages).status.version = first.status.version
           /\ Drained(first, messages).pending = first.pending
<1>. DEFINE N == Len(messages)
            Same(s) == /\ s.status.kind = first.status.kind
                       /\ s.status.version = first.status.version
                       /\ s.pending = first.pending
<1>1. PICK f \in [0..N -> Drawn] :
        /\ f[0] = first /\ f[N] = Drained(first, messages)
        /\ \A n \in 1..N : f[n] = After(f[n-1], messages[n])
  BY DrainedSteps
<1>2. N \in Nat /\ \A n \in 1..N : messages[n] \in MessageType /\ messages[n].kind = "progress"
  <2>1. \A e \in MessageType : ~IsAnswer(e) => e.kind = "progress"
    BY DEF MessageType, IsAnswer
  <2>2. QED
    BY <2>1
<1>. DEFINE G == {n \in 0..N : Same(f[n])}
<1>. HIDE DEF N
<1>3. 0 \in G
  BY <1>1, <1>2
<1>4. ASSUME NEW n \in 0..(N - 1), n \in G
      PROVE  n + 1 \in G
  <2>1. n + 1 \in 1..N /\ (n + 1) - 1 = n /\ f[n] \in Drawn
    BY <1>2
  <2>2. f[n + 1] = After(f[n], messages[n + 1])
    BY <1>1, <2>1
  <2>3. Same(f[n])
    BY <1>4
  <2>4. messages[n + 1] \in MessageType /\ messages[n + 1].kind = "progress"
    BY <1>2, <2>1
  <2>5. /\ After(f[n], messages[n + 1]).status.kind = f[n].status.kind
        /\ After(f[n], messages[n + 1]).status.version = f[n].status.version
        /\ After(f[n], messages[n + 1]).pending = f[n].pending
    BY <2>1, <2>4, AfterDrawn
  <2>6. Same(f[n + 1])
    BY <2>2, <2>3, <2>5
  <2>7. QED
    BY <1>2, <2>1, <2>6
<1>5. \A n \in 0..N : n \in G
  <2>. HIDE DEF G
  <2>1. QED
    BY <1>2, <1>3, <1>4, PrefixInduction
<1>6. Same(f[N]) /\ f[N] \in Drawn
  BY <1>1, <1>2, <1>5
<1>7. QED
  BY <1>1, <1>6 DEF N

\* One answer among the messages decides what the card shows; progress that
\* comes after it draws nothing.
LEMMA DrainedAnswer ==
    ASSUME NEW first \in Drawn, NEW messages \in Seq(MessageType),
           NEW i \in DOMAIN messages, IsAnswer(messages[i]),
           \A j \in DOMAIN messages : j # i => ~IsAnswer(messages[j])
    PROVE  /\ Drained(first, messages) \in Drawn
           /\ messages[i].kind # "downloaded" =>
                Drained(first, messages).status.kind \in {"available", "up to date", "failed"}
           /\ messages[i].kind = "downloaded" =>
                /\ Drained(first, messages).status.kind = "ready"
                /\ Drained(first, messages).status.version = first.pending
                /\ Drained(first, messages).pending = first.pending
<1>. DEFINE N == Len(messages)
            Decided(s) ==
              /\ messages[i].kind # "downloaded" =>
                   s.status.kind \in {"available", "up to date", "failed"}
              /\ messages[i].kind = "downloaded" =>
                   /\ s.status.kind = "ready"
                   /\ s.status.version = first.pending /\ s.pending = first.pending
            Stage(n, s) == (n < i => s.pending = first.pending) /\ (n >= i => Decided(s))
<1>1. PICK f \in [0..N -> Drawn] :
        /\ f[0] = first /\ f[N] = Drained(first, messages)
        /\ \A n \in 1..N : f[n] = After(f[n-1], messages[n])
  BY DrainedSteps
<1>2. /\ N \in Nat /\ i \in 1..N
      /\ \A n \in 1..N : messages[n] \in MessageType /\ (n # i => messages[n].kind = "progress")
  <2>1. \A e \in MessageType : ~IsAnswer(e) => e.kind = "progress"
    BY DEF MessageType, IsAnswer
  <2>2. QED
    BY <2>1
<1>3. ASSUME NEW s \in Drawn, s.pending = first.pending
      PROVE  Decided(After(s, messages[i]))
  <2>1. messages[i].kind \in Answers
    BY DEF IsAnswer
  <2>2. s.status \in UpdateStatus /\ s.pending \in Versions
    BY DEF Drawn
  <2>3. QED
    BY <1>3, <2>1, <2>2 DEF After, Answers, Plain, Drawn
<1>. DEFINE G == {n \in 0..N : Stage(n, f[n])}
<1>4. \A s \in Drawn : Decided(s) => s.status.kind # "downloading"
  OBVIOUS
<1>. HIDE DEF N, Decided
<1>5. 0 \in G
  BY <1>1, <1>2
<1>6. ASSUME NEW n \in 0..(N - 1), n \in G
      PROVE  n + 1 \in G
  <2>1. n + 1 \in 1..N /\ n + 1 \in 0..N /\ (n + 1) - 1 = n /\ f[n] \in Drawn
    BY <1>2
  <2>2. f[n + 1] = After(f[n], messages[n + 1])
    BY <1>1, <2>1
  <2>3. Stage(n, f[n])
    BY <1>6
  <2>4. CASE n + 1 = i
    BY <1>2, <1>3, <2>1, <2>2, <2>3, <2>4
  <2>5. CASE n + 1 < i
    <3>1. messages[n + 1] \in MessageType /\ messages[n + 1].kind = "progress"
      BY <1>2, <2>1, <2>5
    <3>2. After(f[n], messages[n + 1]).pending = f[n].pending
      BY <2>1, <3>1, AfterDrawn
    <3>3. QED
      BY <1>2, <2>1, <2>2, <2>3, <2>5, <3>2
  <2>6. CASE n + 1 > i
    <3>1. Decided(f[n])
      BY <1>2, <2>1, <2>3, <2>6
    <3>2. messages[n + 1] \in MessageType /\ messages[n + 1].kind = "progress"
      BY <1>2, <2>1, <2>6
    <3>3. f[n].status.kind # "downloading"
      BY <1>4, <2>1, <3>1
    <3>4. After(f[n], messages[n + 1]) = f[n]
      BY <2>1, <3>2, <3>3, AfterDrawn
    <3>5. QED
      BY <1>2, <2>1, <2>2, <2>6, <3>1, <3>4
  <2>7. QED
    BY <1>2, <2>1, <2>4, <2>5, <2>6
<1>7. \A n \in 0..N : n \in G
  <2>. HIDE DEF G
  <2>1. QED
    BY <1>2, <1>5, <1>6, PrefixInduction
<1>8. Decided(f[N]) /\ f[N] \in Drawn
  <2>1. N \in 0..N /\ N >= i /\ N \in G
    BY <1>2, <1>7
  <2>2. Stage(N, f[N])
    BY <2>1
  <2>3. QED
    BY <1>1, <2>1, <2>2
<1>9. QED
  BY <1>1, <1>8 DEF N, Decided

\* What is awaited is told apart: a check by its thread or by one of a
\* check's answers, a download by a thread that fetches the release the card
\* offered, or by its answer after that release is there.
Checks(t) ==
  \/ AnswersOf(t) = {} /\ \E k \in threads : k.does = "check" /\ ThreadsOf(t) = {k}
  \/ /\ ThreadsOf(t) = {}
     /\ \E i \in DOMAIN events[t] :
          events[t][i].kind \in Answers \ {"downloaded"} /\ AnswersOf(t) = {i}
Downloads(t) ==
  \/ /\ AnswersOf(t) = {}
     /\ \E k \in threads : /\ k.does = "download" /\ k.version = pending[t]
                           /\ ThreadsOf(t) = {k}
  \/ /\ ThreadsOf(t) = {}
     /\ \E i \in DOMAIN events[t] :
          /\ events[t][i].kind \in Answers /\ AnswersOf(t) = {i}
          /\ events[t][i].kind = "downloaded" => pending[t] \in fetched[t]
Idles(t) ==
  /\ AnswersOf(t) = {} /\ ThreadsOf(t) = {}
  /\ status[t].kind = "ready" => status[t].version = pending[t] /\ pending[t] \in fetched[t]

Tells(t) ==
  /\ status[t].kind = "checking" => Checks(t)
  /\ status[t].kind = "downloading" => Downloads(t)
  /\ ~Working(status[t]) => Idles(t)

UpdateTypes ==
  /\ UpdateTypeOK
  /\ events \in [Tabs -> Seq(MessageType)]

UpdateInv == UpdateTypes /\ \A t \in Tabs : Tells(t)

LEMMA UpdateInvTells == UpdateInv => CardTellsTheTruth
<1>. SUFFICES ASSUME UpdateInv PROVE CardTellsTheTruth
  OBVIOUS
<1>. USE DEF UpdateInv, UpdateTypes
<1>1. BusyIffAwaiting
  <2>. SUFFICES ASSUME NEW t \in Tabs
                PROVE  IF Working(status[t])
                       THEN \/ AnswersOf(t) = {} /\ \E k \in threads : ThreadsOf(t) = {k}
                            \/ ThreadsOf(t) = {} /\ \E i \in DOMAIN events[t] : AnswersOf(t) = {i}
                       ELSE AnswersOf(t) = {} /\ ThreadsOf(t) = {}
    BY DEF BusyIffAwaiting
  <2>1. Tells(t)
    OBVIOUS
  <2>2. QED
    BY <2>1 DEF Tells, Checks, Downloads, Idles, Working
<1>2. ReadyWasFetched
  <2>1. \A t \in Tabs : Tells(t)
    OBVIOUS
  <2>2. QED
    BY <2>1 DEF ReadyWasFetched, Tells, Idles, Working
<1>3. QED
  BY <1>1, <1>2 DEF CardTellsTheTruth

LEMMA UpdateInvInit == UpdateInit => UpdateInv
<1>. SUFFICES ASSUME UpdateInit PROVE UpdateInv
  OBVIOUS
<1>1. UpdateTypes
  BY UpdateAssumption DEF UpdateInit, UpdateTypes, UpdateTypeOK, UpdateStatus, Plain, Versions
<1>2. ASSUME NEW t \in Tabs PROVE Tells(t)
  BY DEF UpdateInit, Tells, Idles, Working, Plain, AnswersOf, ThreadsOf
<1>3. QED
  BY <1>1, <1>2 DEF UpdateInv

\* A tab that a step does not touch.
LEMMA UntouchedTells ==
    ASSUME NEW t \in Tabs, Tells(t), status'[t] = status[t], pending'[t] = pending[t],
           events'[t] = events[t], fetched[t] \subseteq fetched'[t],
           ThreadsOf(t)' = ThreadsOf(t)
    PROVE  Tells(t)'
<1>1. AnswersOf(t)' = AnswersOf(t)
  BY DEF AnswersOf
<1>2. \A k : ThreadsOf(t) = {k} => k \in threads'
  BY DEF ThreadsOf
<1>3. (Checks(t) => Checks(t)') /\ (Downloads(t) => Downloads(t)') /\ (Idles(t) => Idles(t)')
  BY <1>1, <1>2 DEF Checks, Downloads, Idles
<1>4. QED
  BY <1>3 DEF Tells, Working

\* A message at the end of the channel.
LEMMA PostedTypes ==
    ASSUME UpdateTypes, NEW t \in Tabs, NEW e \in MessageType, Post(t, e)
    PROVE  /\ events' \in [Tabs -> Seq(MessageType)]
           /\ \A u \in Tabs : \A i \in DOMAIN events'[u] :
                events'[u][i].kind \in Answers \cup {"progress"}
           /\ events'[t] = Append(events[t], e)
           /\ \A u \in Tabs : u # t => events'[u] = events[u]
<1>1. /\ events' \in [Tabs -> Seq(MessageType)]
      /\ events'[t] = Append(events[t], e)
      /\ \A u \in Tabs : u # t => events'[u] = events[u]
  BY DEF UpdateTypes, Post
<1>2. \A u \in Tabs : \A i \in DOMAIN events'[u] : events'[u][i] \in MessageType
  BY <1>1
<1>3. QED
  BY <1>1, <1>2 DEF MessageType

LEMMA PostedAnswers ==
    ASSUME UpdateTypes, NEW t \in Tabs, NEW e \in MessageType, Post(t, e)
    PROVE  /\ IsAnswer(e) =>
                /\ AnswersOf(t)' = AnswersOf(t) \cup {Len(events[t]) + 1}
                /\ events'[t][Len(events[t]) + 1] = e
                /\ Len(events[t]) + 1 \in DOMAIN events'[t]
           /\ ~IsAnswer(e) => AnswersOf(t)' = AnswersOf(t)
           /\ \A i \in DOMAIN events[t] : i \in DOMAIN events'[t] /\ events'[t][i] = events[t][i]
<1>1. /\ events[t] \in Seq(MessageType)
      /\ events'[t] = Append(events[t], e)
  BY PostedTypes DEF UpdateTypes
<1>. DEFINE n == Len(events[t])
<1>2. /\ DOMAIN events[t] = 1..n /\ n \in Nat
      /\ DOMAIN events'[t] = 1..(n + 1)
      /\ events'[t][n + 1] = e
      /\ \A i \in 1..n : events'[t][i] = events[t][i]
  BY <1>1
<1>. HIDE DEF n
<1>3. \A i \in 1..(n + 1) : i \in 1..n \/ i = n + 1
  BY <1>2
<1>4. QED
  BY <1>2, <1>3 DEF AnswersOf, IsAnswer, n

LEMMA PollTells ==
    ASSUME UpdateInv, NEW t \in Tabs, Poll(t)
    PROVE  UpdateInv'
<1>. DEFINE checks == ~started[t] /\ ~Working(status[t])
            first == [status |-> IF checks THEN Plain("checking") ELSE status[t],
                      pending |-> pending[t]]
            last == Drained(first, events[t])
<1>1. /\ status' = [status EXCEPT ![t] = last.status]
      /\ pending' = [pending EXCEPT ![t] = last.pending]
      /\ threads' = IF checks THEN threads \cup {Thread(t, "check", 0, 0)} ELSE threads
      /\ started' = [started EXCEPT ![t] = TRUE]
      /\ events' = [events EXCEPT ![t] = << >>]
      /\ UNCHANGED <<feed, front, attempts, forwards, fetched>>
  BY DEF Poll
<1>2. Tells(t) /\ UpdateTypes
  BY DEF UpdateInv
<1>3. first \in Drawn /\ events[t] \in Seq(MessageType)
  <2>1. Plain("checking") \in UpdateStatus
    BY UpdateAssumption DEF UpdateStatus, Plain, Versions
  <2>2. status[t] \in UpdateStatus /\ pending[t] \in Versions /\ events[t] \in Seq(MessageType)
    BY <1>2 DEF UpdateTypes, UpdateTypeOK
  <2>3. QED
    BY <2>1, <2>2 DEF Drawn
<1>4. \A i \in DOMAIN events[t] : i \in AnswersOf(t) <=> IsAnswer(events[t][i])
  BY DEF AnswersOf, IsAnswer
<1>. HIDE DEF last
<1>5. AnswersOf(t)' = {}
  BY <1>1, <1>2 DEF AnswersOf, UpdateTypes
<1>6. status'[t] = last.status /\ pending'[t] = last.pending
  BY <1>1, <1>2 DEF UpdateTypes, UpdateTypeOK
\* No answer in the channel: a check or a download goes on, or a check starts.
<1>7. ASSUME AnswersOf(t) = {}
      PROVE  last \in Drawn /\ Tells(t)'
  <2>1. /\ last \in Drawn /\ last.status.kind = first.status.kind
        /\ last.status.version = first.status.version /\ last.pending = pending[t]
    BY <1>3, <1>4, <1>7, DrainedProgress DEF last
  <2>2. CASE checks
    <3>1. last.status.kind = "checking"
      BY <2>1, <2>2 DEF Plain
    <3>2. ThreadsOf(t) = {}
      BY <1>2, <2>2 DEF Tells, Idles
    <3>3. ThreadsOf(t)' = {Thread(t, "check", 0, 0)}
      BY <1>1, <2>2, <3>2 DEF ThreadsOf, Thread
    <3>4. Checks(t)'
      BY <1>1, <1>5, <2>2, <3>3 DEF Checks, Thread
    <3>5. QED
      BY <1>6, <3>1, <3>4, <2>1 DEF Tells, Working
  <2>3. CASE ~checks
    <3>1. /\ last.status.kind = status[t].kind /\ last.status.version = status[t].version
          /\ threads' = threads
      BY <1>1, <2>1, <2>3
    <3>2. ThreadsOf(t)' = ThreadsOf(t)
      BY <3>1 DEF ThreadsOf
    <3>3. /\ Checks(t) => Checks(t)'
          /\ Downloads(t) => Downloads(t)'
          /\ Idles(t) => Idles(t)'
      BY <1>1, <1>5, <1>6, <1>7, <2>1, <3>1, <3>2 DEF Checks, Downloads, Idles
    <3>4. QED
      BY <1>2, <1>6, <2>1, <3>1, <3>3 DEF Tells, Working
  <2>4. QED
    BY <2>2, <2>3
\* The answer is in the channel.
<1>8. ASSUME AnswersOf(t) # {}
      PROVE  last \in Drawn /\ Tells(t)'
  <2>1. Working(status[t]) /\ ThreadsOf(t) = {} /\ ~checks
    BY <1>2, <1>8 DEF Tells, Idles, Checks, Downloads, Working
  <2>2. PICK i \in DOMAIN events[t] :
          /\ events[t][i].kind \in Answers /\ AnswersOf(t) = {i}
          /\ events[t][i].kind = "downloaded" => pending[t] \in fetched[t]
    BY <1>2, <1>8, <2>1 DEF Tells, Checks, Downloads, Working, Answers
  <2>3. IsAnswer(events[t][i]) /\ \A j \in DOMAIN events[t] : j # i => ~IsAnswer(events[t][j])
    BY <1>4, <2>2
  <2>4. /\ last \in Drawn
        /\ events[t][i].kind # "downloaded" =>
             last.status.kind \in {"available", "up to date", "failed"}
        /\ events[t][i].kind = "downloaded" =>
             /\ last.status.kind = "ready"
             /\ last.status.version = pending[t] /\ last.pending = pending[t]
    BY <1>3, <2>3, DrainedAnswer DEF last
  <2>5. ThreadsOf(t)' = {}
    BY <1>1, <2>1 DEF ThreadsOf
  <2>6. Idles(t)' /\ last.status.kind \notin {"checking", "downloading"}
    BY <1>1, <1>5, <1>6, <2>2, <2>4, <2>5 DEF Idles
  <2>7. QED
    BY <1>6, <2>4, <2>6 DEF Tells, Working
<1>9. last \in Drawn /\ Tells(t)'
  BY <1>7, <1>8
<1>10. UpdateTypes'
  <2>1. Thread(t, "check", 0, 0) \in [tab : Tabs, does : {"check", "download"}, version : Versions,
                                     attempt : 0..MaxAttempts, percent : 0..MaxSteps]
    BY UpdateAssumption DEF Thread, Versions
  <2>2. threads' \subseteq [tab : Tabs, does : {"check", "download"}, version : Versions,
                            attempt : 0..MaxAttempts, percent : 0..MaxSteps]
    BY <1>1, <1>2, <2>1 DEF UpdateTypes, UpdateTypeOK
  <2>3. status' \in [Tabs -> UpdateStatus] /\ pending' \in [Tabs -> Versions]
    BY <1>1, <1>2, <1>9 DEF UpdateTypes, UpdateTypeOK, Drawn
  <2>4. events' \in [Tabs -> Seq(MessageType)] /\ started' \in [Tabs -> BOOLEAN]
    BY <1>1, <1>2 DEF UpdateTypes, UpdateTypeOK
  <2>5. \A u \in Tabs : \A i \in DOMAIN events'[u] : events'[u][i].kind \in Answers \cup {"progress"}
    BY <1>1, <1>2 DEF UpdateTypes, UpdateTypeOK
  <2>6. QED
    BY <1>1, <1>2, <2>2, <2>3, <2>4, <2>5 DEF UpdateTypes, UpdateTypeOK
<1>11. ASSUME NEW u \in Tabs, u # t
       PROVE  Tells(u)'
  <2>1. ThreadsOf(u)' = ThreadsOf(u)
    BY <1>1, <1>11 DEF ThreadsOf, Thread
  <2>2. /\ status'[u] = status[u] /\ pending'[u] = pending[u]
        /\ events'[u] = events[u] /\ fetched'[u] = fetched[u]
    BY <1>1, <1>2, <1>11 DEF UpdateTypes, UpdateTypeOK
  <2>3. Tells(u)
    BY DEF UpdateInv
  <2>4. QED
    BY <2>1, <2>2, <2>3, UntouchedTells
<1>12. QED
  BY <1>9, <1>10, <1>11 DEF UpdateInv

\* A click while nothing is awaited.
LEMMA ClickTells ==
    ASSUME UpdateInv, NEW t \in Tabs, NEW kinds, NEW does \in {"check", "download"},
           NEW version \in Versions, NEW drawn \in UpdateStatus,
           "checking" \notin kinds, "downloading" \notin kinds,
           drawn.kind = IF does = "check" THEN "checking" ELSE "downloading",
           does = "download" => version = pending[t],
           Click(t, kinds, Thread(t, does, version, attempts[t] + 1), drawn)
    PROVE  UpdateInv'
<1>. DEFINE k == Thread(t, does, version, attempts[t] + 1)
<1>1. /\ attempts[t] < MaxAttempts /\ status[t].kind \in kinds
      /\ attempts' = [attempts EXCEPT ![t] = @ + 1]
      /\ status' = [status EXCEPT ![t] = drawn]
      /\ threads' = threads \cup {k}
      /\ UNCHANGED <<feed, front, pending, started, forwards, events, fetched>>
  BY DEF Click
<1>2. Tells(t) /\ UpdateTypes
  BY DEF UpdateInv
<1>3. Idles(t)
  BY <1>1, <1>2 DEF Tells, Working
<1>4. /\ attempts[t] + 1 \in 0..MaxAttempts
      /\ k \in [tab : Tabs, does : {"check", "download"}, version : Versions,
                attempt : 0..MaxAttempts, percent : 0..MaxSteps]
  BY <1>1, <1>2, UpdateAssumption DEF UpdateTypes, UpdateTypeOK, Thread
<1>5. UpdateTypes'
  BY <1>1, <1>2, <1>4 DEF UpdateTypes, UpdateTypeOK
<1>6. /\ k.tab = t /\ k.does = does /\ k.version = version
  BY DEF Thread
<1>. HIDE DEF k
<1>7. ThreadsOf(t)' = {k} /\ AnswersOf(t)' = {} /\ k \in threads'
  BY <1>1, <1>3, <1>6 DEF ThreadsOf, AnswersOf, Idles
<1>8. status'[t] = drawn /\ pending' = pending
  BY <1>1, <1>2 DEF UpdateTypes, UpdateTypeOK
<1>9. Tells(t)'
  BY <1>6, <1>7, <1>8 DEF Tells, Checks, Downloads, Working
<1>10. ASSUME NEW u \in Tabs, u # t
       PROVE  Tells(u)'
  <2>1. ThreadsOf(u)' = ThreadsOf(u)
    BY <1>1, <1>6, <1>10 DEF ThreadsOf
  <2>2. /\ status'[u] = status[u] /\ pending'[u] = pending[u]
        /\ events'[u] = events[u] /\ fetched'[u] = fetched[u]
    BY <1>1, <1>2, <1>10 DEF UpdateTypes, UpdateTypeOK
  <2>3. Tells(u)
    BY DEF UpdateInv
  <2>4. QED
    BY <2>1, <2>2, <2>3, UntouchedTells
<1>11. QED
  BY <1>5, <1>9, <1>10 DEF UpdateInv

\* A thread that ends with its answer.
LEMMA EndTells ==
    ASSUME UpdateInv, NEW k \in threads, NEW e \in MessageType, IsAnswer(e),
           threads' = threads \ {k}, Post(k.tab, e),
           fetched' \in [Tabs -> SUBSET Versions],
           \A u \in Tabs : fetched[u] \subseteq fetched'[u],
           k.does = "check" => e.kind # "downloaded",
           k.does = "download" /\ e.kind = "downloaded" => k.version \in fetched'[k.tab],
           UNCHANGED <<feed, front, status, pending, started, attempts, forwards>>
    PROVE  UpdateInv'
<1>. DEFINE t == k.tab
<1>1. t \in Tabs /\ k.does \in {"check", "download"} /\ UpdateTypes
  BY DEF UpdateInv, UpdateTypes, UpdateTypeOK
<1>2. k \in ThreadsOf(t) /\ Tells(t)
  BY <1>1 DEF ThreadsOf, UpdateInv
<1>3. /\ ThreadsOf(t) = {k} /\ AnswersOf(t) = {}
      /\ status[t].kind = "checking" => k.does = "check"
      /\ status[t].kind = "downloading" => k.does = "download" /\ k.version = pending[t]
      /\ Working(status[t])
  BY <1>2 DEF Tells, Idles, Checks, Downloads, Working
<1>4. ThreadsOf(t)' = {}
  BY <1>3 DEF ThreadsOf
<1>5. PICK i \in DOMAIN events'[t] : AnswersOf(t)' = {i} /\ events'[t][i] = e
  BY <1>1, <1>3, PostedAnswers
<1>6. Tells(t)'
  BY <1>3, <1>4, <1>5 DEF Tells, Checks, Downloads, Working, IsAnswer
<1>7. UpdateTypes'
  BY <1>1, PostedTypes DEF UpdateTypes, UpdateTypeOK
<1>8. ASSUME NEW u \in Tabs, u # t
      PROVE  Tells(u)'
  <2>1. ThreadsOf(u)' = ThreadsOf(u)
    BY <1>8 DEF ThreadsOf
  <2>2. events'[u] = events[u]
    BY <1>1, <1>8, PostedTypes
  <2>3. Tells(u)
    BY DEF UpdateInv
  <2>4. QED
    BY <2>1, <2>2, <2>3, UntouchedTells
<1>9. QED
  BY <1>6, <1>7, <1>8 DEF UpdateInv

LEMMA CheckEndsTells ==
    ASSUME UpdateInv, NEW k \in threads, CheckEnds(k)
    PROVE  UpdateInv'
<1>1. PICK e \in MessageType : IsAnswer(e) /\ e.kind # "downloaded" /\ Post(k.tab, e)
  <2>1. feed \in Versions /\ 0 \in Versions /\ 0 \in 0..MaxSteps
    BY UpdateAssumption DEF UpdateInv, UpdateTypes, UpdateTypeOK, Versions
  <2>2. /\ Message("found", feed, 0) \in MessageType /\ Message("none", 0, 0) \in MessageType
        /\ Message("refused", 0, 0) \in MessageType
    BY <2>1 DEF Message, MessageType, Answers
  <2>3. \E e \in {Message("found", feed, 0), Message("none", 0, 0), Message("refused", 0, 0)} :
          Post(k.tab, e)
    BY DEF CheckEnds
  <2>4. \A e \in {Message("found", feed, 0), Message("none", 0, 0), Message("refused", 0, 0)} :
          IsAnswer(e) /\ e.kind # "downloaded"
    BY DEF IsAnswer, Message, Answers
  <2>5. QED
    BY <2>2, <2>3, <2>4
<1>2. /\ k.does = "check" /\ threads' = threads \ {k} /\ fetched' = fetched
      /\ UNCHANGED <<feed, front, status, pending, started, attempts, forwards>>
  BY DEF CheckEnds
<1>3. fetched' \in [Tabs -> SUBSET Versions]
  BY <1>2 DEF UpdateInv, UpdateTypes, UpdateTypeOK
<1>4. QED
  BY <1>1, <1>2, <1>3, EndTells

LEMMA DownloadEndsTells ==
    ASSUME UpdateInv, NEW k \in threads, DownloadEnds(k)
    PROVE  UpdateInv'
<1>1. /\ k.does = "download" /\ threads' = threads \ {k}
      /\ UNCHANGED <<feed, front, status, pending, started, attempts, forwards>>
  BY DEF DownloadEnds
<1>2. /\ fetched \in [Tabs -> SUBSET Versions] /\ k.tab \in Tabs /\ k.version \in Versions
      /\ Message("downloaded", 0, 0) \in MessageType /\ Message("refused", 0, 0) \in MessageType
  BY UpdateAssumption
  DEF UpdateInv, UpdateTypes, UpdateTypeOK, Versions, Message, MessageType, Answers
<1>3. CASE /\ fetched' = [fetched EXCEPT ![k.tab] = @ \cup {k.version}]
           /\ Post(k.tab, Message("downloaded", 0, 0))
  <2>1. /\ fetched' \in [Tabs -> SUBSET Versions]
        /\ \A u \in Tabs : fetched[u] \subseteq fetched'[u]
        /\ k.version \in fetched'[k.tab]
    BY <1>2, <1>3
  <2>2. IsAnswer(Message("downloaded", 0, 0))
    BY DEF IsAnswer, Message, Answers
  <2>3. QED
    BY <1>1, <1>2, <1>3, <2>1, <2>2, EndTells
<1>4. CASE UNCHANGED fetched /\ Post(k.tab, Message("refused", 0, 0))
  <2>1. /\ IsAnswer(Message("refused", 0, 0))
        /\ Message("refused", 0, 0).kind # "downloaded"
    BY DEF IsAnswer, Message, Answers
  <2>2. QED
    BY <1>1, <1>2, <1>4, <2>1, EndTells
<1>5. QED
  BY <1>3, <1>4 DEF DownloadEnds

\* A download that reports is the same download.
LEMMA ReportTells ==
    ASSUME UpdateInv, NEW k \in threads, Report(k)
    PROVE  UpdateInv'
<1>. DEFINE next == [k EXCEPT !.percent = @ + 1]
            t == k.tab
<1>1. /\ k.does = "download" /\ k.percent < MaxSteps
      /\ threads' = (threads \ {k}) \cup {next}
      /\ forwards' = forwards \cup {[tab |-> t, attempt |-> k.attempt, percent |-> k.percent + 1]}
      /\ UNCHANGED <<feed, front, status, pending, started, attempts, events, fetched>>
  BY DEF Report
<1>2. UpdateTypes /\ t \in Tabs
  BY DEF UpdateInv, UpdateTypes, UpdateTypeOK
<1>3. /\ k \in [tab : Tabs, does : {"check", "download"}, version : Versions,
                attempt : 0..MaxAttempts, percent : 0..MaxSteps]
      /\ k.percent + 1 \in 1..MaxSteps
  BY <1>1, <1>2, UpdateAssumption DEF UpdateTypes, UpdateTypeOK
<1>4. /\ next \in [tab : Tabs, does : {"check", "download"}, version : Versions,
                   attempt : 0..MaxAttempts, percent : 0..MaxSteps]
      /\ next.tab = t /\ next.does = "download" /\ next.version = k.version
  BY <1>1, <1>3
<1>5. UpdateTypes'
  <2>1. forwards' \subseteq [tab : Tabs, attempt : 0..MaxAttempts, percent : 1..MaxSteps]
    BY <1>1, <1>2, <1>3 DEF UpdateTypes, UpdateTypeOK
  <2>. HIDE DEF next
  <2>2. QED
    BY <1>1, <1>2, <1>4, <2>1 DEF UpdateTypes, UpdateTypeOK
<1>. HIDE DEF next
<1>6. k \in ThreadsOf(t) /\ Tells(t)
  BY <1>2 DEF ThreadsOf, UpdateInv
<1>7. /\ ThreadsOf(t) = {k} /\ AnswersOf(t) = {}
      /\ status[t].kind = "downloading" /\ k.version = pending[t]
  BY <1>1, <1>6 DEF Tells, Idles, Checks, Downloads, Working
<1>8. ThreadsOf(t)' = {next}
  BY <1>1, <1>4, <1>7 DEF ThreadsOf
<1>9. Tells(t)'
  BY <1>1, <1>4, <1>7, <1>8 DEF Tells, Downloads, Working, AnswersOf
<1>10. ASSUME NEW u \in Tabs, u # t
       PROVE  Tells(u)'
  <2>1. ThreadsOf(u)' = ThreadsOf(u)
    BY <1>1, <1>4, <1>10 DEF ThreadsOf
  <2>2. Tells(u)
    BY DEF UpdateInv
  <2>3. QED
    BY <1>1, <2>1, <2>2, UntouchedTells
<1>11. QED
  BY <1>5, <1>9, <1>10 DEF UpdateInv

\* Progress that reaches a channel answers nothing.
LEMMA ForwardTells ==
    ASSUME UpdateInv, NEW r \in forwards, Forward(r)
    PROVE  UpdateInv'
<1>. DEFINE t == r.tab
            e == Message("progress", 0, r.percent)
<1>1. /\ forwards' \subseteq forwards /\ Post(t, e)
      /\ UNCHANGED <<feed, front, status, pending, started, attempts, threads, fetched>>
  BY DEF Forward
<1>2. UpdateTypes /\ t \in Tabs
  BY DEF UpdateInv, UpdateTypes, UpdateTypeOK
<1>3. e \in MessageType /\ ~IsAnswer(e)
  <2>1. r.percent \in 0..MaxSteps /\ 0 \in Versions
    BY <1>2, UpdateAssumption DEF UpdateTypes, UpdateTypeOK, Versions
  <2>2. QED
    BY <2>1 DEF Message, MessageType, IsAnswer, Answers
<1>4. UpdateTypes'
  BY <1>1, <1>2, <1>3, PostedTypes DEF UpdateTypes, UpdateTypeOK
<1>. HIDE DEF e
<1>5. /\ AnswersOf(t)' = AnswersOf(t)
      /\ \A i \in DOMAIN events[t] : i \in DOMAIN events'[t] /\ events'[t][i] = events[t][i]
  BY <1>1, <1>2, <1>3, PostedAnswers
<1>6. Tells(t) /\ ThreadsOf(t)' = ThreadsOf(t)
  BY <1>1, <1>2 DEF UpdateInv, ThreadsOf
<1>7. /\ Checks(t) => Checks(t)'
      /\ Downloads(t) => Downloads(t)'
      /\ Idles(t) => Idles(t)'
  BY <1>1, <1>5, <1>6 DEF Checks, Downloads, Idles
<1>8. Tells(t)'
  BY <1>1, <1>6, <1>7 DEF Tells, Working
<1>9. ASSUME NEW u \in Tabs, u # t
      PROVE  Tells(u)'
  <2>1. ThreadsOf(u)' = ThreadsOf(u) /\ events'[u] = events[u]
    BY <1>1, <1>2, <1>3, <1>9, PostedTypes DEF ThreadsOf
  <2>2. Tells(u)
    BY DEF UpdateInv
  <2>3. QED
    BY <1>1, <2>1, <2>2, UntouchedTells
<1>10. QED
  BY <1>4, <1>8, <1>9 DEF UpdateInv

LEMMA ApplyFailsTells ==
    ASSUME UpdateInv, NEW t \in Tabs, ApplyFails(t)
    PROVE  UpdateInv'
<1>1. /\ status[t].kind = "ready" /\ status' = [status EXCEPT ![t] = Plain("failed")]
      /\ UNCHANGED <<feed, front, pending, started, attempts, threads, forwards, events, fetched>>
  BY DEF ApplyFails
<1>2. UpdateTypes /\ Tells(t)
  BY DEF UpdateInv
<1>3. Plain("failed") \in UpdateStatus
  BY UpdateAssumption DEF UpdateStatus, Plain, Versions
<1>4. UpdateTypes' /\ status'[t] = Plain("failed")
  BY <1>1, <1>2, <1>3 DEF UpdateTypes, UpdateTypeOK
<1>5. Idles(t)
  BY <1>1, <1>2 DEF Tells, Working
<1>6. Tells(t)'
  BY <1>1, <1>4, <1>5 DEF Tells, Idles, Working, Plain, AnswersOf, ThreadsOf
<1>7. ASSUME NEW u \in Tabs, u # t
      PROVE  Tells(u)'
  <2>1. status'[u] = status[u] /\ ThreadsOf(u)' = ThreadsOf(u)
    BY <1>1, <1>2, <1>7 DEF UpdateTypes, UpdateTypeOK, ThreadsOf
  <2>2. Tells(u)
    BY DEF UpdateInv
  <2>3. QED
    BY <1>1, <2>1, <2>2, UntouchedTells
<1>8. QED
  BY <1>4, <1>6, <1>7 DEF UpdateInv

\* What neither answers nor draws.
LEMMA AsideTells ==
    ASSUME UpdateInv, feed' \in Versions, front' \in Tabs,
           UNCHANGED <<status, pending, started, attempts, threads, forwards, events, fetched>>
    PROVE  UpdateInv'
<1>1. UpdateTypes'
  BY DEF UpdateInv, UpdateTypes, UpdateTypeOK
<1>2. ASSUME NEW u \in Tabs PROVE Tells(u)'
  <2>1. Tells(u) /\ ThreadsOf(u)' = ThreadsOf(u)
    BY DEF UpdateInv, ThreadsOf
  <2>2. QED
    BY <2>1, UntouchedTells
<1>3. QED
  BY <1>1, <1>2 DEF UpdateInv

LEMMA UpdateInvStep == UpdateInv /\ [UpdateNext]_updateVars => UpdateInv'
<1>. SUFFICES ASSUME UpdateInv, [UpdateNext]_updateVars PROVE UpdateInv'
  OBVIOUS
<1>1. feed \in Versions /\ front \in Tabs
  BY DEF UpdateInv, UpdateTypes, UpdateTypeOK
<1>2. ASSUME NEW t \in Tabs, Poll(t) PROVE UpdateInv'
  BY <1>2, PollTells
<1>3. ASSUME NEW t \in Tabs, StartCheck(t) PROVE UpdateInv'
  <2>1. Plain("checking") \in UpdateStatus /\ 0 \in Versions
    BY UpdateAssumption DEF UpdateStatus, Plain, Versions
  <2>2. Click(t, {"idle", "up to date", "failed"}, Thread(t, "check", 0, attempts[t] + 1),
              Plain("checking"))
    BY <1>3 DEF StartCheck
  <2>3. Plain("checking").kind = "checking"
    BY DEF Plain
  <2>4. QED
    BY <2>1, <2>2, <2>3, ClickTells
<1>4. ASSUME NEW t \in Tabs, StartDownload(t) PROVE UpdateInv'
  <2>. DEFINE drawn == [Plain("downloading") EXCEPT !.version = pending[t]]
  <2>1. pending[t] \in Versions
    BY DEF UpdateInv, UpdateTypes, UpdateTypeOK
  <2>2. drawn \in UpdateStatus /\ drawn.kind = "downloading"
    <3>1. drawn = [kind |-> "downloading", version |-> pending[t], percent |-> 0]
      BY DEF Plain
    <3>2. 0 \in 0..MaxSteps
      BY UpdateAssumption
    <3>. HIDE DEF drawn
    <3>3. QED
      BY <2>1, <3>1, <3>2 DEF UpdateStatus
  <2>3. Click(t, {"available"}, Thread(t, "download", pending[t], attempts[t] + 1), drawn)
    BY <1>4 DEF StartDownload
  <2>. HIDE DEF drawn
  <2>4. QED
    BY <2>1, <2>2, <2>3, ClickTells
<1>5. ASSUME NEW t \in Tabs, Activate(t) PROVE UpdateInv'
  BY <1>1, <1>5, AsideTells DEF Activate
<1>6. ASSUME NEW t \in Tabs, ApplyFails(t) PROVE UpdateInv'
  BY <1>6, ApplyFailsTells
<1>7. ASSUME NEW k \in threads, ThreadStep(k) PROVE UpdateInv'
  BY <1>7, CheckEndsTells, ReportTells, DownloadEndsTells DEF ThreadStep
<1>8. ASSUME NEW r \in forwards, Forward(r) PROVE UpdateInv'
  BY <1>8, ForwardTells
<1>9. CASE Publish
  <2>1. feed' \in Versions
    BY <1>1, <1>9, UpdateAssumption DEF Publish, Versions
  <2>2. front' \in Tabs
    BY <1>1, <1>9 DEF Publish
  <2>3. UNCHANGED <<status, pending, started, attempts, threads, forwards, events, fetched>>
    BY <1>9 DEF Publish
  <2>4. QED
    BY <2>1, <2>2, <2>3, AsideTells
<1>10. CASE UNCHANGED updateVars
  BY <1>1, <1>10, AsideTells DEF updateVars
<1>11. QED
  BY <1>2, <1>3, <1>4, <1>5, <1>6, <1>7, <1>8, <1>9, <1>10 DEF UpdateNext

\* The card of every tab shows what is so: it is busy exactly while one
\* answer is under way, and a release it offers to install was downloaded by
\* this updater, whatever the feed published and the other tabs did since.
THEOREM CardsTellTheTruth == UpdateSpec => []CardTellsTheTruth
<1>1. UpdateSpec => []UpdateInv
  BY UpdateInvInit, UpdateInvStep, PTL DEF UpdateSpec
<1>2. QED
  BY <1>1, UpdateInvTells, PTL

-----------------------------------------------------------------------------
(* Script Studio: what the window shows.                                   *)

\* A window whose script or parameter was changed asks for a run; one that
\* raises the modal forgets what the last one was answered.
Changed(s, u) ==
  /\ u \in Studio
  /\ \/ u.requested \/ u.edited
     \/ /\ u.source = s.source /\ u.value = s.value
        /\ u.requested = s.requested /\ u.edited = s.edited
  /\ \/ u.discard = NoAction \/ u.choice = "none"
     \/ u.discard = s.discard /\ u.choice = s.choice

\* The script is still there, as unsaved as before, and under no Open prompt it
\* was not under; and a window without unsaved work.
Held(s, u) ==
  /\ u.source = s.source /\ u.saved = s.saved /\ u.window = s.window
  /\ u.prompt = s.prompt \/ u.prompt # "open"
Clean(u) == u.source = u.saved

Files == files \in [Paths -> Scripts]
AnyAction == Actions \cup {NoAction}

\* Fields that neither hold the script nor ask for a run.
LEMMA SameScriptChanges ==
    ASSUME NEW s \in Studio
    PROVE  /\ Changed(s, s)
           /\ Changed(s, [s EXCEPT !.resume = NoAction])
           /\ Changed(s, [s EXCEPT !.discard = NoAction])
           /\ Changed(s, [s EXCEPT !.import = NoScript])
           /\ \A purpose \in {"none", "open", "save", "export", "import"} :
                Changed(s, [s EXCEPT !.prompt = purpose])
           /\ \A w \in {"open", "closing", "closed"} : Changed(s, [s EXCEPT !.window = w])
           /\ \A a \in AnyAction : /\ Changed(s, [s EXCEPT !.discard = a, !.choice = "none"])
                                   /\ Changed(s, [s EXCEPT !.resume = a])
           /\ \A script \in Scripts : Changed(s, [s EXCEPT !.import = script])
           /\ s.discard = NoAction =>
                \A c \in {"none", "save", "discard"} : Changed(s, [s EXCEPT !.choice = c])
<1>1. /\ Changed(s, s)
      /\ Changed(s, [s EXCEPT !.resume = NoAction])
      /\ Changed(s, [s EXCEPT !.discard = NoAction])
      /\ Changed(s, [s EXCEPT !.import = NoScript])
  BY DEF Changed, Studio
<1>2. \A purpose \in {"none", "open", "save", "export", "import"} :
        Changed(s, [s EXCEPT !.prompt = purpose])
  BY DEF Changed, Studio
<1>3. \A w \in {"open", "closing", "closed"} : Changed(s, [s EXCEPT !.window = w])
  BY DEF Changed, Studio
<1>4. \A a \in AnyAction : /\ Changed(s, [s EXCEPT !.discard = a, !.choice = "none"])
                          /\ Changed(s, [s EXCEPT !.resume = a])
  BY DEF Changed, Studio, AnyAction
<1>5. \A script \in Scripts : Changed(s, [s EXCEPT !.import = script])
  BY DEF Changed, Studio
<1>6. s.discard = NoAction =>
        \A c \in {"none", "save", "discard"} : Changed(s, [s EXCEPT !.choice = c])
  BY DEF Changed, Studio
<1>7. QED
  BY <1>1, <1>2, <1>3, <1>4, <1>5, <1>6

LEMMA SameScriptHeld ==
    ASSUME NEW s \in Studio
    PROVE  /\ Held(s, s)
           /\ Held(s, [s EXCEPT !.resume = NoAction])
           /\ Held(s, [s EXCEPT !.discard = NoAction])
           /\ Held(s, [s EXCEPT !.import = NoScript])
           /\ \A purpose \in {"none", "save", "export", "import"} :
                Held(s, [s EXCEPT !.prompt = purpose])
           /\ \A a \in AnyAction : /\ Held(s, [s EXCEPT !.discard = a, !.choice = "none"])
                                   /\ Held(s, [s EXCEPT !.resume = a])
           /\ \A script \in Scripts : Held(s, [s EXCEPT !.import = script])
           /\ \A c \in {"none", "save", "discard"} : Held(s, [s EXCEPT !.choice = c])
  BY DEF Held, Studio

LEMMA HeldTwice ==
    ASSUME NEW s, NEW u, Held(s, u), NEW v, Held(u, v)
    PROVE  Held(s, v)
  BY DEF Held

LEMMA LoadedChanges ==
    ASSUME NEW s \in Studio, NEW script \in Scripts, NEW from \in Paths \cup {NoPath}
    PROVE  Changed(s, Loaded(s, script, from))
  BY StudioAssumption DEF Changed, Loaded, Studio

LEMMA OpenedChanges ==
    ASSUME NEW s \in Studio, NEW p \in Paths, NEW u \in Opened(s, p), Files
    PROVE  Changed(s, u)
<1>1. files[p] \in Scripts
  BY DEF Files
<1>2. Changed(s, Loaded(s, files[p], p))
  BY <1>1, LoadedChanges
<1>3. QED
  BY <1>2, SameScriptChanges DEF Opened

LEMMA ActionKinds ==
    ASSUME NEW a \in AnyAction
    PROVE  /\ a.do \in {"close", "replace", "choose", "open", "nothing"}
           /\ a.do = "open" => a.path \in Paths
<1>1. CASE \E p \in Paths : a = [do |-> "open", path |-> p]
  BY <1>1
<1>2. CASE a \in {[do |-> "close"], [do |-> "replace"], [do |-> "choose"], [do |-> "nothing"]}
  BY <1>2
<1>3. QED
  BY <1>1, <1>2 DEF AnyAction, Actions, NoAction

LEMMA PerformedChanges ==
    ASSUME NEW s \in Studio, NEW a \in AnyAction, NEW u \in Performed(s, a), Files
    PROVE  Changed(s, u)
<1>1. CASE a.do = "close"
  BY <1>1, SameScriptChanges DEF Performed
<1>2. CASE a.do = "replace"
  BY <1>2, LoadedChanges, StudioAssumption DEF Performed
<1>3. CASE a.do = "open"
  BY <1>3, OpenedChanges, ActionKinds DEF Performed
<1>4. CASE a.do = "choose"
  <2>1. \/ u \in {[s EXCEPT !.prompt = "open"], [s EXCEPT !.resume = NoAction]}
        \/ \E p \in Paths : u \in Opened(s, p)
    BY <1>4 DEF Performed
  <2>2. QED
    BY <2>1, OpenedChanges, SameScriptChanges
<1>5. CASE a.do = "nothing"
  BY <1>5, SameScriptChanges DEF Performed
<1>6. QED
  BY <1>1, <1>2, <1>3, <1>4, <1>5, ActionKinds

\* No action takes a window without unsaved work to one with it, or answers
\* the modal.
LEMMA LoadedClean ==
    ASSUME NEW s \in Studio, NEW script \in Scripts, NEW from \in Paths \cup {NoPath}
    PROVE  /\ Clean(Loaded(s, script, from))
           /\ Loaded(s, script, from).choice = s.choice
           /\ Loaded(s, script, from).prompt = s.prompt
  BY DEF Clean, Loaded, Studio

LEMMA OpenedClean ==
    ASSUME NEW s \in Studio, NEW p \in Paths, NEW u \in Opened(s, p), Files
    PROVE  /\ u = s \/ (Clean(u) /\ u.prompt = s.prompt)
           /\ u.choice = s.choice
<1>1. files[p] \in Scripts
  BY DEF Files
<1>2. u = s \/ u = Loaded(s, files[p], p)
  BY DEF Opened
<1>3. QED
  BY <1>1, <1>2, LoadedClean

LEMMA PerformedClean ==
    ASSUME NEW s \in Studio, NEW a \in AnyAction, NEW u \in Performed(s, a), Files
    PROVE  (Clean(s) => Clean(u)) /\ u.choice = s.choice
<1>1. CASE a.do = "close"
  BY <1>1 DEF Performed, Clean, Studio
<1>2. CASE a.do = "replace"
  BY <1>2, LoadedClean, StudioAssumption DEF Performed
<1>3. CASE a.do = "open"
  BY <1>3, OpenedClean, ActionKinds DEF Performed
<1>4. CASE a.do = "choose"
  <2>1. \/ u \in {[s EXCEPT !.prompt = "open"], [s EXCEPT !.resume = NoAction]}
        \/ \E p \in Paths : u \in Opened(s, p)
    BY <1>4 DEF Performed
  <2>2. CASE u \in {[s EXCEPT !.prompt = "open"], [s EXCEPT !.resume = NoAction]}
    BY <2>2 DEF Clean, Studio
  <2>3. QED
    BY <2>1, <2>2, OpenedClean
<1>5. CASE a.do = "nothing"
  BY <1>5 DEF Performed
<1>6. QED
  BY <1>1, <1>2, <1>3, <1>4, <1>5, ActionKinds

LEMMA ChangedTwice ==
    ASSUME NEW s \in Studio, NEW u, Changed(s, u), NEW v, Changed(u, v)
    PROVE  Changed(s, v)
  BY DEF Changed

LEMMA LandedChanges ==
    ASSUME NEW s \in Studio, NEW p \in Paths, NEW u \in Landed(s, p), Files
    PROVE  Changed(s, u) /\ Clean(u)
<1>. DEFINE saved == [s EXCEPT !.saved = s.source, !.path = p, !.resume = NoAction]
<1>1. saved \in Studio /\ Changed(s, saved) /\ Clean(saved)
  BY DEF Changed, Clean, Studio
<1>2. s.resume \in AnyAction
  BY DEF Studio, AnyAction
<1>. HIDE DEF saved
<1>3. Changed(saved, u) /\ Clean(u)
  <2>1. u \in Performed(saved, s.resume)
    BY DEF Landed, saved
  <2>2. QED
    BY <1>1, <1>2, <2>1, PerformedChanges, PerformedClean
<1>4. QED
  BY <1>1, <1>3, ChangedTwice

\* A save goes through, or fails and withdraws what waited for it.
LEMMA SaveToChanges ==
    ASSUME NEW s \in Studio, NEW p \in Paths, Files, SaveTo(s, p)
    PROVE  /\ Files' /\ Changed(s, studio')
           /\ (files'[p] = s.source /\ Clean(studio')) \/ Held(s, studio')
<1>1. CASE files' = [files EXCEPT ![p] = s.source] /\ studio' \in Landed(s, p)
  <2>1. s.source \in Scripts
    BY DEF Studio
  <2>2. Files' /\ files'[p] = s.source
    BY <1>1, <2>1 DEF Files
  <2>3. Changed(s, studio') /\ Clean(studio')
    BY <1>1, LandedChanges
  <2>4. QED
    BY <2>2, <2>3
<1>2. CASE UNCHANGED files /\ studio' = [s EXCEPT !.resume = NoAction]
  BY <1>2, SameScriptChanges, SameScriptHeld DEF Files
<1>3. QED
  BY <1>1, <1>2 DEF SaveTo

LEMMA SaveAsChanges ==
    ASSUME NEW s \in Studio, Files, SaveAs(s)
    PROVE  /\ Files' /\ Changed(s, studio')
           /\ \/ (\E p \in Paths : files'[p] = s.source) /\ Clean(studio')
              \/ Held(s, studio')
<1>1. CASE /\ UNCHANGED files
           /\ studio' \in {[s EXCEPT !.prompt = "save"], [s EXCEPT !.resume = NoAction]}
  BY <1>1, SameScriptChanges, SameScriptHeld DEF Files
<1>2. CASE \E p \in Paths : SaveTo(s, p)
  BY <1>2, SaveToChanges
<1>3. QED
  BY <1>1, <1>2 DEF SaveAs

LEMMA SaveScriptChanges ==
    ASSUME NEW s \in Studio, Files, SaveScript(s)
    PROVE  /\ Files' /\ Changed(s, studio')
           /\ \/ (\E p \in Paths : files'[p] = s.source) /\ Clean(studio')
              \/ Held(s, studio')
<1>1. CASE s.path = NoPath
  BY <1>1, SaveAsChanges DEF SaveScript
<1>2. CASE s.path # NoPath
  <2>1. s.path \in Paths
    BY <1>2 DEF Studio
  <2>2. QED
    BY <1>2, <2>1, SaveToChanges DEF SaveScript
<1>3. QED
  BY <1>1, <1>2

\* The run that is awaited, its answer, and once nothing is awaited the
\* outcome shown, are of the script and the parameter as they stand, unless
\* another run is due.
Current(x) ==
  ~studio.requested /\ ~studio.edited => x.script = studio.source /\ x.value = studio.value

RunsAnswerInTurn ==
  /\ \A o \in results : o.generation \in 1..generation
  /\ \A r \in runs : r.generation = worker => ~r.cancelled /\ Current(r)
  /\ \A o \in results : o.generation = worker => ~o.cancelled /\ Current(o)
  /\ worker = 0 => Current(outcome)

\* While the modal is up it has not been answered Don't save.
ModalWaits == Modal => studio.choice # "discard"

StudioInv == StudioTypeOK /\ RunsAnswerInTurn /\ ModalWaits

LEMMA StudioInvShows == StudioInv => ShownIsOfTheScript
  BY DEF StudioInv, RunsAnswerInTurn, Current, ShownIsOfTheScript, Quiet

LEMMA StudioInvInit == StudioInit => StudioInv
<1>. SUFFICES ASSUME StudioInit PROVE StudioInv
  OBVIOUS
<1>1. studio \in Studio /\ studio.requested
  BY StudioAssumption DEF StudioInit, Studio
<1>2. outcome \in Outcome /\ files \in [Paths -> Scripts] /\ auto \in BOOLEAN
  BY StudioAssumption DEF StudioInit, Outcome, Model
<1>3. QED
  BY <1>1, <1>2, StudioAssumption
  DEF StudioInit, StudioInv, StudioTypeOK, RunsAnswerInTurn, Current, ModalWaits, Modal

\* What the user does changes no run.
LEMMA UserStep ==
    ASSUME StudioInv, Changed(studio, studio'), Files', auto' \in BOOLEAN,
           inputs' \in 0..MaxInputs, UNCHANGED runVars
    PROVE  StudioInv'
<1>1. StudioTypeOK'
  BY DEF StudioInv, StudioTypeOK, Changed, Files, runVars
<1>2. \A x : Current(x) => Current(x)'
  BY DEF Current, Changed
<1>3. RunsAnswerInTurn'
  BY <1>2 DEF StudioInv, RunsAnswerInTurn, runVars
<1>4. ModalWaits'
  BY DEF StudioInv, ModalWaits, Modal, Changed
<1>5. QED
  BY <1>1, <1>3, <1>4 DEF StudioInv

\* One answer for the run that ends.
LEMMA RunEndsAnswers ==
    ASSUME StudioInv, NEW r \in runs, RunEnds(r)
    PROVE  StudioInv'
<1>1. /\ r \in [generation : 1..generation, script : Scripts, value : Values,
                cancelled : BOOLEAN]
      /\ generation \in Nat
  BY DEF StudioInv, StudioTypeOK
<1>2. PICK c \in BOOLEAN : results' = results \cup {Answer(r, c)} /\ (c => r.cancelled)
  BY DEF RunEnds
<1>. DEFINE o == Answer(r, c)
<1>3. /\ o.generation = r.generation /\ o.script = r.script /\ o.value = r.value
      /\ o.cancelled = c
  BY DEF Answer
<1>4. o \in Outcome
  <2>1. (IF Builds(r) /\ ~c THEN <<r.script, r.value>> ELSE NoModel) \in Model
    BY <1>1 DEF Model
  <2>2. r.generation \in Nat /\ (r.script \in Broken) \in BOOLEAN
    BY <1>1
  <2>3. QED
    BY <1>1, <2>1, <2>2 DEF Answer, Outcome
<1>. HIDE DEF o
<1>5. /\ runs' \subseteq runs
      /\ UNCHANGED <<studio, files, auto, generation, worker, outcome, inputs>>
  BY DEF RunEnds
<1>6. StudioTypeOK'
  BY <1>2, <1>4, <1>5 DEF StudioInv, StudioTypeOK, o
<1>7. \A x : Current(x)' <=> Current(x)
  BY <1>5 DEF Current
<1>8. o.generation = worker => ~o.cancelled /\ Current(o)
  BY <1>2, <1>3 DEF StudioInv, RunsAnswerInTurn, Current
<1>9. RunsAnswerInTurn'
  BY <1>1, <1>2, <1>3, <1>5, <1>7, <1>8 DEF StudioInv, RunsAnswerInTurn, o
<1>10. ModalWaits'
  BY <1>5 DEF StudioInv, ModalWaits, Modal
<1>11. QED
  BY <1>6, <1>9, <1>10 DEF StudioInv

\* The channel is drained: the answer awaited, if it is there, is shown.
LEMMA PollShows ==
    ASSUME StudioInv, NEW waiting, PollWorker(waiting)
    PROVE  /\ waiting \in {0, worker} /\ outcome' \in Outcome /\ results' = {}
           /\ waiting = 0 => Current(outcome')
<1>1. CASE waiting = worker /\ UNCHANGED outcome
  BY <1>1 DEF StudioInv, StudioTypeOK, RunsAnswerInTurn, PollWorker
<1>2. CASE \E o \in results :
             /\ Awaited(o) /\ waiting = 0
             /\ outcome' = IF o.cancelled THEN outcome ELSE Adopted(o)
  <2>1. PICK o \in results :
          /\ Awaited(o) /\ waiting = 0
          /\ outcome' = IF o.cancelled THEN outcome ELSE Adopted(o)
    BY <1>2
  <2>2. ~o.cancelled /\ Current(o)
    BY <2>1 DEF StudioInv, RunsAnswerInTurn, Awaited
  <2>3. o \in Outcome /\ outcome \in Outcome
    BY DEF StudioInv, StudioTypeOK
  <2>4. Adopted(o) \in Outcome /\ Adopted(o).script = o.script /\ Adopted(o).value = o.value
    BY <2>3 DEF Adopted, Outcome
  <2>5. outcome' = Adopted(o)
    BY <2>1, <2>2
  <2>6. QED
    BY <2>1, <2>2, <2>4, <2>5 DEF Current, PollWorker
<1>3. QED
  BY <1>1, <1>2 DEF PollWorker

LEMMA TickShows ==
    ASSUME StudioInv, Tick
    PROVE  StudioInv'
<1>1. PICK waiting \in {0, worker} :
        /\ PollWorker(waiting)
        /\ \/ Due /\ StartRun(waiting)
           \/ /\ ~studio.requested /\ results # {}
              /\ worker' = waiting
              /\ UNCHANGED <<generation, runs, studio>>
  BY DEF Tick
<1>2. UNCHANGED <<files, auto, inputs>>
  BY DEF Tick
<1>3. /\ outcome' \in Outcome /\ results' = {}
      /\ waiting = 0 => Current(outcome')
  BY <1>1, PollShows
<1>4. CASE StartRun(waiting)
  <2>. DEFINE marked == {[r EXCEPT !.cancelled = @ \/ r.generation = waiting] : r \in runs}
              new == [generation |-> generation + 1, script |-> studio.source,
                      value |-> studio.value, cancelled |-> FALSE]
  <2>1. /\ generation' = generation + 1 /\ worker' = generation + 1
        /\ runs' = marked \cup {new}
        /\ studio' = [studio EXCEPT !.requested = FALSE, !.edited = FALSE]
    BY <1>4 DEF StartRun
  <2>2. generation \in Nat /\ studio \in Studio
    BY DEF StudioInv, StudioTypeOK
  <2>3. /\ studio' \in Studio /\ studio'.source = studio.source
        /\ studio'.value = studio.value
    BY <2>1, <2>2 DEF Studio
  <2>4. ASSUME NEW q \in marked
        PROVE  q \in [generation : 1..generation, script : Scripts, value : Values,
                      cancelled : BOOLEAN]
    <3>1. PICK r \in runs : q = [r EXCEPT !.cancelled = @ \/ r.generation = waiting]
      OBVIOUS
    <3>2. r \in [generation : 1..generation, script : Scripts, value : Values,
                 cancelled : BOOLEAN]
      BY DEF StudioInv, StudioTypeOK
    <3>3. (r.cancelled \/ r.generation = waiting) \in BOOLEAN
      OBVIOUS
    <3>4. QED
      BY <3>1, <3>2, <3>3
  <2>5. new \in [generation : 1..(generation + 1), script : Scripts, value : Values,
                 cancelled : BOOLEAN]
    BY <2>2 DEF Studio
  <2>6. runs' \subseteq [generation : 1..(generation + 1), script : Scripts, value : Values,
                         cancelled : BOOLEAN]
    <3>. HIDE DEF marked, new
    <3>1. QED
      BY <2>1, <2>2, <2>4, <2>5
  <2>7. StudioTypeOK'
    BY <1>2, <1>3, <2>1, <2>2, <2>3, <2>6 DEF StudioInv, StudioTypeOK
  <2>8. ASSUME NEW q \in runs', q.generation = generation + 1
        PROVE  q = new
    BY <2>1, <2>2, <2>4, <2>8
  <2>9. ~new.cancelled /\ new.script = studio.source /\ new.value = studio.value
    OBVIOUS
  <2>. HIDE DEF marked, new
  <2>10. RunsAnswerInTurn'
    BY <1>3, <2>1, <2>2, <2>3, <2>8, <2>9 DEF RunsAnswerInTurn, Current
  <2>11. ModalWaits'
    BY <2>1, <2>2 DEF StudioInv, ModalWaits, Modal, Studio
  <2>12. QED
    BY <2>7, <2>10, <2>11 DEF StudioInv
<1>5. CASE worker' = waiting /\ UNCHANGED <<generation, runs, studio>>
  <2>1. StudioTypeOK'
    BY <1>1, <1>2, <1>3, <1>5 DEF StudioInv, StudioTypeOK
  <2>2. \A x : Current(x)' <=> Current(x)
    BY <1>5 DEF Current
  <2>3. \A r \in runs' : r.generation = worker' => ~r.cancelled /\ Current(r)'
    <3>1. \A r \in runs : r.generation \in 1..generation
      BY DEF StudioInv, StudioTypeOK
    <3>2. \A r \in runs' : r.generation = worker' => worker' = worker
      BY <1>1, <1>5, <3>1 DEF StudioInv, StudioTypeOK
    <3>3. QED
      BY <1>5, <2>2, <3>2 DEF StudioInv, RunsAnswerInTurn
  <2>4. RunsAnswerInTurn'
    BY <1>3, <1>5, <2>2, <2>3 DEF RunsAnswerInTurn, Current
  <2>5. ModalWaits'
    BY <1>5 DEF StudioInv, ModalWaits, Modal
  <2>6. QED
    BY <2>1, <2>4, <2>5 DEF StudioInv
<1>6. QED
  BY <1>1, <1>4, <1>5

\* The four ways to lose nothing.
LEMMA HeldLosesNothing ==
    ASSUME Held(studio, studio')
    PROVE  LosesNothing
  BY DEF Held, LosesNothing, SourceReplaced, Open, AtStake, Dirty

LEMMA SavedLosesNothing ==
    ASSUME \E p \in Paths : files'[p] = studio.source, Clean(studio')
    PROVE  LosesNothing
  BY DEF LosesNothing, Kept, Clean, AtStake, Dirty

LEMMA OpenedLosesNothing ==
    ASSUME studio.prompt = "open", studio'.prompt = "none", Clean(studio')
    PROVE  LosesNothing
  BY DEF LosesNothing, Clean, AtStake, Dirty

LEMMA AnsweredLosesNothing ==
    ASSUME DontSave \/ Pulled
    PROVE  LosesNothing
  BY DEF LosesNothing

\* What the user's inputs leave behind: the window, or a window whose change
\* is due to be run, and nothing that is lost unasked.
LEMMA InputTypes ==
    ASSUME StudioInv, Input
    PROVE  inputs' \in 0..MaxInputs /\ studio \in Studio /\ Files /\ auto \in BOOLEAN
  BY StudioAssumption DEF StudioInv, StudioTypeOK, Input, Files

LEMMA EditSteps ==
    ASSUME StudioInv,
           \/ \E script \in Scripts : Type(script)
           \/ \E v \in Values : SetParameter(v)
           \/ Run \/ ToggleAuto
    PROVE  StudioInv' /\ LosesNothing
<1>1. Input /\ studio \in Studio /\ Files
  BY InputTypes DEF Type, SetParameter, Run, ToggleAuto, Edit
<1>2. ASSUME NEW script \in Scripts, Type(script)
      PROVE  StudioInv' /\ LosesNothing
  <2>1. Changed(studio, studio')
    BY <1>1, <1>2 DEF Type, Edit, Changed, Studio
  <2>2. UNCHANGED <<files, auto, runVars>>
    BY <1>2 DEF Type, Edit
  <2>3. studio'.prompt = "none" /\ studio'.window = studio.window /\ Open
    BY <1>1, <1>2 DEF Type, Edit, Input, Studio
  <2>4. LosesNothing
    BY <1>2, <2>3 DEF LosesNothing, SourceReplaced, AtStake, Open
  <2>5. QED
    BY <1>1, <2>1, <2>2, <2>4, InputTypes, UserStep DEF Files
<1>3. ASSUME NEW v \in Values, SetParameter(v)
      PROVE  StudioInv' /\ LosesNothing
  <2>1. Changed(studio, studio') /\ Held(studio, studio')
    BY <1>1, <1>3 DEF SetParameter, Edit, Changed, Studio, Held
  <2>2. UNCHANGED <<files, auto, runVars>>
    BY <1>3 DEF SetParameter, Edit
  <2>3. QED
    BY <1>1, <2>1, <2>2, InputTypes, UserStep, HeldLosesNothing DEF Files
<1>4. ASSUME Run
      PROVE  StudioInv' /\ LosesNothing
  <2>1. Changed(studio, studio') /\ Held(studio, studio')
    BY <1>1, <1>4 DEF Run, Edit, Changed, Studio, Held
  <2>2. UNCHANGED <<files, auto, runVars>>
    BY <1>4 DEF Run, Edit
  <2>3. QED
    BY <1>1, <2>1, <2>2, InputTypes, UserStep, HeldLosesNothing DEF Files
<1>5. ASSUME ToggleAuto
      PROVE  StudioInv' /\ LosesNothing
  <2>1. UNCHANGED <<studio, files, runVars>> /\ auto' \in BOOLEAN
    BY <1>5 DEF ToggleAuto
  <2>2. Changed(studio, studio') /\ Held(studio, studio')
    BY <1>1, <2>1 DEF Changed, Held
  <2>3. QED
    BY <1>1, <2>1, <2>2, InputTypes, UserStep, HeldLosesNothing DEF Files
<1>6. QED
  BY <1>2, <1>3, <1>4, <1>5

\* Everything else the user asks for changes the window and the files.
Answering ==
  \/ \E action \in Actions : AskFor(action)
  \/ \E purpose \in {"export", "import"} : OpenPrompt(purpose)
  \/ Save \/ AnswerModal \/ AnswerPrompt \/ AnswerImport \/ Escape

LEMMA AskForChanges ==
    ASSUME StudioInv, NEW action \in Actions, AskFor(action)
    PROVE  Changed(studio, studio') /\ Files' /\ LosesNothing
<1>1. studio \in Studio /\ Files /\ action \in AnyAction
  BY DEF StudioInv, StudioTypeOK, Files, AnyAction
<1>2. studio' \in Guarded(studio, action) /\ UNCHANGED files
  BY DEF AskFor, Asked
<1>3. CASE Dirty
  <2>1. studio' = [studio EXCEPT !.discard = action, !.choice = "none"]
    BY <1>2, <1>3 DEF Guarded, Dirty
  <2>2. QED
    BY <1>1, <1>2, <2>1, SameScriptChanges, SameScriptHeld, HeldLosesNothing DEF Files
<1>4. CASE ~Dirty
  <2>1. studio' \in Performed(studio, action)
    BY <1>2, <1>4 DEF Guarded, Dirty
  <2>2. Clean(studio')
    BY <1>1, <1>4, <2>1, PerformedClean DEF Clean, Dirty
  <2>3. LosesNothing
    BY <1>4, <2>2 DEF LosesNothing, Clean, AtStake, Dirty
  <2>4. QED
    BY <1>1, <1>2, <2>1, <2>3, PerformedChanges DEF Files
<1>5. QED
  BY <1>3, <1>4

LEMMA AnswerModalChanges ==
    ASSUME StudioInv, AnswerModal
    PROVE  Changed(studio, studio') /\ Files' /\ LosesNothing
<1>. DEFINE s == [studio EXCEPT !.discard = NoAction]
            r == [s EXCEPT !.resume = studio.discard]
            t == [r EXCEPT !.choice = "save"]
            d == [s EXCEPT !.choice = "discard"]
<1>1. studio \in Studio /\ Files /\ studio.discard \in AnyAction /\ studio.choice # "discard"
  BY DEF StudioInv, StudioTypeOK, Files, AnyAction, Studio, ModalWaits, AnswerModal
<1>2. /\ s \in Studio /\ Changed(studio, s) /\ Held(studio, s) /\ s.source = studio.source
      /\ t \in Studio /\ Changed(studio, t) /\ Held(studio, t) /\ t.source = studio.source
      /\ d \in Studio /\ Changed(studio, d) /\ d.choice = "discard"
  <2>1. s \in Studio /\ Changed(studio, s) /\ Held(studio, s) /\ s.discard = NoAction
    <3>1. Changed(studio, s) /\ Held(studio, s)
      BY <1>1, SameScriptChanges, SameScriptHeld
    <3>2. s.discard = NoAction
      BY <1>1 DEF Studio
    <3>. HIDE DEF s
    <3>3. QED
      BY <3>1, <3>2 DEF Changed
  <2>. HIDE DEF s
  <2>2. Changed(s, r) /\ Held(s, r) /\ r.discard = NoAction
    BY <1>1, <2>1, SameScriptChanges, SameScriptHeld DEF Studio
  <2>3. r \in Studio /\ Changed(studio, r) /\ Held(studio, r)
    BY <1>1, <2>1, <2>2, ChangedTwice, HeldTwice DEF Changed
  <2>4. Changed(s, d) /\ d.choice = "discard"
    <3>1. Changed(s, d)
      BY <2>1, SameScriptChanges
    <3>2. QED
      BY <2>1, <3>1 DEF Studio
  <2>. HIDE DEF r, d
  <2>5. Changed(r, t) /\ Held(r, t)
    BY <2>2, <2>3, SameScriptChanges, SameScriptHeld
  <2>. HIDE DEF t
  <2>6. Changed(studio, t) /\ Held(studio, t) /\ Changed(studio, d)
    BY <1>1, <2>1, <2>3, <2>4, <2>5, ChangedTwice, HeldTwice
  <2>7. QED
    BY <2>1, <2>4, <2>6 DEF Changed, Held
<1>3. \/ SaveScript(t)
      \/ studio' \in Performed(d, studio.discard) /\ UNCHANGED files
      \/ studio' = s /\ UNCHANGED files
  <2>1. t = [s EXCEPT !.resume = studio.discard, !.choice = "save"]
    OBVIOUS
  <2>2. QED
    BY <2>1 DEF AnswerModal, Asked
<1>. HIDE DEF s, r, t, d
<1>4. CASE SaveScript(t)
  <2>1. /\ Files' /\ Changed(t, studio')
        /\ \/ (\E p \in Paths : files'[p] = studio.source) /\ Clean(studio')
           \/ Held(t, studio')
    BY <1>1, <1>2, <1>4, SaveScriptChanges
  <2>2. Changed(studio, studio')
    BY <1>1, <1>2, <2>1, ChangedTwice
  <2>3. LosesNothing
    BY <1>2, <2>1, HeldTwice, HeldLosesNothing, SavedLosesNothing
  <2>4. QED
    BY <2>1, <2>2, <2>3
<1>5. CASE studio' \in Performed(d, studio.discard) /\ UNCHANGED files
  <2>1. Changed(d, studio') /\ studio'.choice = "discard"
    BY <1>1, <1>2, <1>5, PerformedChanges, PerformedClean
  <2>2. LosesNothing
    BY <1>1, <2>1, AnsweredLosesNothing DEF DontSave
  <2>3. QED
    BY <1>1, <1>2, <1>5, <2>1, <2>2, ChangedTwice DEF Files
<1>6. CASE studio' = s /\ UNCHANGED files
  BY <1>1, <1>2, <1>6, HeldLosesNothing DEF Files
<1>7. QED
  BY <1>3, <1>4, <1>5, <1>6

LEMMA ImportedChanges ==
    ASSUME NEW s \in Studio, NEW u \in Imported(s)
    PROVE  Changed(s, u) /\ Held(s, u)
  BY SameScriptChanges, SameScriptHeld DEF Imported

LEMMA AnswerPromptChanges ==
    ASSUME StudioInv, AnswerPrompt
    PROVE  Changed(studio, studio') /\ Files' /\ LosesNothing
<1>. DEFINE s == [studio EXCEPT !.prompt = "none"]
<1>1. studio \in Studio /\ Files
  BY DEF StudioInv, StudioTypeOK, Files
<1>2. /\ s \in Studio /\ Changed(studio, s) /\ Held(studio, s)
      /\ s.prompt = "none" /\ s.source = studio.source
  <2>1. Changed(studio, s) /\ Held(studio, s)
    BY <1>1, SameScriptChanges, SameScriptHeld
  <2>2. s.prompt = "none"
    BY <1>1 DEF Studio
  <2>. HIDE DEF s
  <2>3. QED
    BY <2>1, <2>2 DEF Changed, Held
<1>3. \/ studio' \in {s, [s EXCEPT !.resume = NoAction]} /\ UNCHANGED files
      \/ studio.prompt = "open" /\ UNCHANGED files /\ \E p \in Paths : studio' \in Opened(s, p)
      \/ \E p \in Paths : SaveTo(s, p)
      \/ studio' \in Imported(s) /\ UNCHANGED files
  BY DEF AnswerPrompt, Asked
<1>. HIDE DEF s
<1>4. Files' /\ Changed(s, studio') /\ LosesNothing
  <2>1. CASE studio' \in {s, [s EXCEPT !.resume = NoAction]} /\ UNCHANGED files
    <3>1. Changed(s, studio') /\ Held(s, studio')
      BY <1>2, <2>1, SameScriptChanges, SameScriptHeld
    <3>2. Held(studio, studio') /\ Files'
      BY <1>1, <1>2, <2>1, <3>1, HeldTwice DEF Files
    <3>3. QED
      BY <3>1, <3>2, HeldLosesNothing
  <2>2. ASSUME NEW p \in Paths, studio' \in Opened(s, p), studio.prompt = "open", UNCHANGED files
        PROVE  Files' /\ Changed(s, studio') /\ LosesNothing
    <3>1. Changed(s, studio') /\ (studio' = s \/ (Clean(studio') /\ studio'.prompt = "none"))
      BY <1>1, <1>2, <2>2, OpenedChanges, OpenedClean
    <3>2. Held(studio, studio') \/ (Clean(studio') /\ studio'.prompt = "none")
      BY <1>2, <3>1
    <3>3. Clean(studio') /\ studio'.prompt = "none" => LosesNothing
      BY <2>2, OpenedLosesNothing
    <3>4. Files'
      BY <1>1, <2>2 DEF Files
    <3>5. QED
      BY <3>1, <3>2, <3>3, <3>4, HeldLosesNothing
  <2>3. ASSUME NEW p \in Paths, SaveTo(s, p)
        PROVE  Files' /\ Changed(s, studio') /\ LosesNothing
    <3>1. /\ Files' /\ Changed(s, studio')
          /\ (files'[p] = studio.source /\ Clean(studio')) \/ Held(s, studio')
      BY <1>1, <1>2, <2>3, SaveToChanges
    <3>2. QED
      BY <1>2, <3>1, HeldTwice, HeldLosesNothing, SavedLosesNothing
  <2>4. CASE studio' \in Imported(s) /\ UNCHANGED files
    <3>1. Changed(s, studio') /\ Held(s, studio')
      BY <1>2, <2>4, ImportedChanges
    <3>2. Held(studio, studio') /\ Files'
      BY <1>1, <1>2, <2>4, <3>1, HeldTwice DEF Files
    <3>3. QED
      BY <3>1, <3>2, HeldLosesNothing
  <2>5. QED
    BY <1>3, <2>1, <2>2, <2>3, <2>4
<1>5. QED
  BY <1>1, <1>2, <1>4, ChangedTwice

LEMMA AnswerImportChanges ==
    ASSUME StudioInv, AnswerImport
    PROVE  Changed(studio, studio') /\ Files' /\ LosesNothing
<1>. DEFINE s == [studio EXCEPT !.import = NoScript]
            u == [s EXCEPT !.source = studio.import, !.value = 0, !.requested = TRUE]
<1>1. studio \in Studio /\ Files /\ studio.import \in Scripts /\ studio.import # NoScript
  BY DEF StudioInv, StudioTypeOK, Files, Studio, AnswerImport
<1>2. s \in Studio /\ Changed(studio, s) /\ Held(studio, s) /\ s.import = NoScript
  <2>1. Changed(studio, s) /\ Held(studio, s)
    BY <1>1, SameScriptChanges, SameScriptHeld
  <2>2. s.import = NoScript
    BY <1>1 DEF Studio
  <2>. HIDE DEF s
  <2>3. QED
    BY <2>1, <2>2 DEF Changed
<1>3. studio' \in {s, u} /\ UNCHANGED files
  BY DEF AnswerImport, Asked
<1>. HIDE DEF s
<1>4. Changed(s, u) /\ u.import = NoScript /\ u.source = studio.import
  BY <1>1, <1>2, StudioAssumption DEF Changed, Studio
<1>. HIDE DEF u
<1>5. Changed(studio, studio')
  BY <1>1, <1>2, <1>3, <1>4, ChangedTwice
<1>6. LosesNothing
  BY <1>1, <1>2, <1>3, <1>4, HeldLosesNothing, AnsweredLosesNothing DEF Pulled
<1>7. QED
  BY <1>1, <1>3, <1>5, <1>6 DEF Files

LEMMA EscapeChanges ==
    ASSUME StudioInv, Escape
    PROVE  Changed(studio, studio') /\ Files' /\ LosesNothing
<1>1. studio \in Studio /\ Files
  BY DEF StudioInv, StudioTypeOK, Files
<1>2. PICK resumed \in AnyAction :
        studio' = [studio EXCEPT !.prompt = "none", !.import = NoScript, !.discard = NoAction,
                                 !.resume = resumed]
  <2>1. studio.resume \in AnyAction /\ NoAction \in AnyAction
    BY <1>1 DEF Studio, AnyAction
  <2>2. QED
    BY <2>1 DEF Escape, Asked
<1>3. Changed(studio, studio') /\ Held(studio, studio')
  BY <1>1, <1>2 DEF Changed, Held, Studio, AnyAction
<1>4. QED
  BY <1>1, <1>3, HeldLosesNothing DEF Escape, Asked, Files

LEMMA OpenPromptChanges ==
    ASSUME StudioInv, NEW purpose \in {"export", "import"}, OpenPrompt(purpose)
    PROVE  Changed(studio, studio') /\ Files' /\ LosesNothing
<1>1. studio \in Studio /\ Files
  BY DEF StudioInv, StudioTypeOK, Files
<1>2. /\ UNCHANGED files
      /\ \/ studio' \in {[studio EXCEPT !.prompt = purpose], [studio EXCEPT !.resume = NoAction]}
         \/ UNCHANGED studio
         \/ studio' \in Imported(studio)
  BY DEF OpenPrompt, Asked
<1>3. Changed(studio, studio') /\ Held(studio, studio')
  BY <1>1, <1>2, SameScriptChanges, SameScriptHeld, ImportedChanges
<1>4. QED
  BY <1>1, <1>2, <1>3, HeldLosesNothing DEF Files

LEMMA SaveChanges ==
    ASSUME StudioInv, Save
    PROVE  Changed(studio, studio') /\ Files' /\ LosesNothing
<1>1. studio \in Studio /\ Files
  BY DEF StudioInv, StudioTypeOK, Files
<1>2. SaveScript(studio) \/ SaveAs(studio)
  BY DEF Save, Asked
<1>3. /\ Files' /\ Changed(studio, studio')
      /\ \/ (\E p \in Paths : files'[p] = studio.source) /\ Clean(studio')
         \/ Held(studio, studio')
  BY <1>1, <1>2, SaveScriptChanges, SaveAsChanges
<1>4. QED
  BY <1>3, HeldLosesNothing, SavedLosesNothing

LEMMA AnsweringSteps ==
    ASSUME StudioInv, Answering
    PROVE  StudioInv' /\ LosesNothing
<1>1. Changed(studio, studio') /\ Files' /\ LosesNothing
  BY AskForChanges, OpenPromptChanges, SaveChanges, AnswerModalChanges, AnswerPromptChanges,
     AnswerImportChanges, EscapeChanges DEF Answering
<1>2. Input /\ UNCHANGED <<auto, runVars>>
  BY DEF Answering, AskFor, OpenPrompt, Save, AnswerModal, AnswerPrompt, AnswerImport, Escape, Asked
<1>3. inputs' \in 0..MaxInputs /\ auto' \in BOOLEAN
  BY <1>2, InputTypes
<1>4. StudioInv'
  BY <1>1, <1>2, <1>3, UserStep
<1>5. QED
  BY <1>1, <1>4

LEMMA StudioInvStep == StudioInv /\ [StudioNext]_studioVars => StudioInv'
<1>. SUFFICES ASSUME StudioInv, [StudioNext]_studioVars PROVE StudioInv'
  OBVIOUS
<1>1. CASE Close
  <2>1. /\ studio' = [studio EXCEPT !.window = "closed"]
        /\ UNCHANGED <<files, auto, runVars, inputs>>
    BY <1>1 DEF Close
  <2>2. studio \in Studio /\ Files /\ auto \in BOOLEAN /\ inputs \in 0..MaxInputs
    BY DEF StudioInv, StudioTypeOK, Files
  <2>3. Changed(studio, studio')
    BY <2>1, <2>2, SameScriptChanges
  <2>4. QED
    BY <2>1, <2>2, <2>3, UserStep DEF Files
<1>2. CASE UNCHANGED studioVars
  <2>1. studio \in Studio /\ Files /\ auto \in BOOLEAN /\ inputs \in 0..MaxInputs
    BY DEF StudioInv, StudioTypeOK, Files
  <2>2. Changed(studio, studio')
    BY <1>2, <2>1 DEF Changed, studioVars
  <2>3. QED
    BY <1>2, <2>1, <2>2, UserStep DEF Files, studioVars
<1>3. QED
  BY <1>1, <1>2, EditSteps, AnsweringSteps, RunEndsAnswers, TickShows DEF StudioNext, Answering

\* Once no run is due or awaited, the window shows the outcome of the script
\* and the parameter as they stand, whatever runs were overtaken and in
\* whatever order their answers came.
THEOREM TheOutcomeIsOfTheScript == StudioSpec => []ShownIsOfTheScript
<1>1. StudioSpec => []StudioInv
  BY StudioInvInit, StudioInvStep, PTL DEF StudioSpec
<1>2. QED
  BY <1>1, StudioInvShows, PTL

LEMMA UnsavedWorkStays ==
    ASSUME StudioInv, StudioNext
    PROVE  LosesNothing
<1>1. studio \in Studio
  BY DEF StudioInv, StudioTypeOK
<1>2. CASE \E r \in runs : RunEnds(r)
  BY <1>1, <1>2, SameScriptHeld, HeldLosesNothing DEF RunEnds
<1>3. CASE Tick
  <2>1. Held(studio, studio')
    BY <1>1, <1>3 DEF Tick, StartRun, Held, Studio
  <2>2. QED
    BY <2>1, HeldLosesNothing
<1>4. CASE Close
  <2>1. studio' = [studio EXCEPT !.window = "closed"]
    BY <1>4 DEF Close
  <2>2. /\ studio'.source = studio.source /\ studio'.saved = studio.saved
        /\ studio'.prompt = studio.prompt /\ studio'.window = "closed"
    BY <1>1, <2>1 DEF Studio
  <2>3. QED
    BY <2>2 DEF LosesNothing, SourceReplaced, AtStake, Dirty
<1>5. QED
  BY <1>2, <1>3, <1>4, EditSteps, AnsweringSteps DEF StudioNext, Answering

\* A script with unsaved work is replaced, or the window closed over it, only
\* when it was saved, or given up by the modal, the import window or an Open
\* prompt that the modal or the import window let it come under.
THEOREM UnsavedWorkIsAskedAbout == StudioSpec => NothingIsLostUnasked
<1>1. StudioSpec => []StudioInv
  BY StudioInvInit, StudioInvStep, PTL DEF StudioSpec
<1>2. StudioInv /\ [StudioNext]_studioVars => [LosesNothing]_studioVars
  BY UnsavedWorkStays
<1>3. QED
  BY <1>1, <1>2, PTL DEF StudioSpec, NothingIsLostUnasked
=============================================================================
