--------------------------- MODULE DevelopmentLog ---------------------------
(***************************************************************************)
(* The development recorder of the workbench                               *)
(* (apps/workbench/src/development_log.rs): the UI thread offers events to *)
(* a bounded channel and never waits; one writer thread numbers them,    *)
(* buffers them, rotates the file and flushes; dropping the recorder hangs *)
(* up and joins the writer.  A panic anywhere in the process writes an     *)
(* incident report.                                                        *)
(*                                                                         *)
(* Every call of the writer that reaches the file system may fail, and the *)
(* process may end between any two steps.  A record is written whole: the  *)
(* half line a crash can leave behind is not modelled.                     *)
(***************************************************************************)
EXTENDS Naturals, Sequences, FiniteSets

CONSTANTS
    MaxEvents,   \* bound: events offered in one session
    MaxFaults,   \* bound: calls to the file system that fail
    MaxPanics,   \* bound: panics in the process
    Capacity,    \* QUEUE_CAPACITY
    Batch,       \* WRITER_BATCH_EVENTS
    PartLimit    \* MAX_SESSION_BYTES, in records

ASSUME LogAssumption ==
    /\ MaxEvents \in Nat /\ MaxFaults \in Nat /\ MaxPanics \in Nat
    /\ Capacity \in Nat \ {0} /\ Batch \in Nat \ {0} /\ PartLimit \in Nat \ {0}

VARIABLES
    offered,    \* events the UI thread has offered; an event is its number
    accepted,   \* history: the events the channel took
    overflowed, \* history: how many it refused because it was full
    inbox,    \* the channel, oldest first
    dropped,    \* the counter of refused events not reported yet
    held,       \* the event the writer has in hand, if any
    disk,       \* the records in the files, all parts one after another
    buffer,     \* the records in the writer's BufWriter
    size,       \* records written to the current part (bytes_written)
    number,     \* last_sequence
    unflushed,  \* records since the last flush
    writer,     \* where the writer thread is
    owner,      \* the recorder: in use, dropped and joining, closed, or gone with the process
    incident,   \* the incident file
    faults      \* failed calls so far

producerVars == <<offered, accepted, overflowed>>
fileVars == <<disk, buffer, size, number, unflushed>>
logVars == <<producerVars, inbox, dropped, held, fileVars, writer, owner, incident, faults>>

Entry == [id : Nat, critical : BOOLEAN]
EventRecord(n, e) == [number |-> n, kind |-> "event", id |-> e.id,
                      critical |-> e.critical, count |-> 0]
DroppedRecord(n, count) == [number |-> n, kind |-> "trace.dropped", id |-> 0,
                            critical |-> FALSE, count |-> count]
FinishRecord(n) == [number |-> n, kind |-> "session.finish", id |-> 0,
                    critical |-> FALSE, count |-> 0]
Record == [number : Nat, kind : {"event", "trace.dropped", "session.finish"},
           id : Nat, critical : BOOLEAN, count : Nat]

InStep == {"rotating", "appending", "flushing"}

LogTypeOK ==
    /\ offered \in Nat /\ accepted \in SUBSET (1..offered) /\ overflowed \in Nat
    /\ inbox \in Seq(Entry) /\ Len(inbox) <= Capacity
    /\ dropped \in Nat
    /\ held \in SUBSET Entry
    /\ disk \in Seq(Record) /\ buffer \in Seq(Record)
    /\ size \in Nat /\ number \in Nat /\ unflushed \in Nat
    /\ writer \in InStep \cup {"receiving", "finishing", "closing", "ended"}
    /\ owner \in {"using", "joining", "closed", "crashed"}
    /\ incident \in [place : {"pending", "final", "removed"}, reports : Nat]
    /\ faults \in Nat

LogInit ==
    /\ offered = 0 /\ accepted = {} /\ overflowed = 0
    /\ inbox = << >> /\ dropped = 0
    /\ held = {}
    /\ disk = << >> /\ buffer = << >> /\ size = 0 /\ number = 0 /\ unflushed = 0
    /\ writer = "receiving" /\ owner = "using"
    /\ incident = [place |-> "pending", reports |-> 0]
    /\ faults = 0

-----------------------------------------------------------------------------
(* The producer: try_send, never waiting.                                  *)

\* The receiver lives until writer_loop returns, so a writer that has left
\* its loop still lets the channel fill.
Connected == writer # "ended"

Full == Len(inbox) >= Capacity

Enqueue(critical) ==
    LET e == [id |-> offered + 1, critical |-> critical]
    IN  /\ owner = "using" /\ offered < MaxEvents
        /\ offered' = offered + 1
        /\ \/ /\ Connected /\ ~Full
              /\ inbox' = Append(inbox, e)
              /\ accepted' = accepted \cup {e.id}
              /\ UNCHANGED <<overflowed, dropped>>
           \/ /\ Connected /\ Full
              /\ overflowed' = overflowed + 1
              /\ dropped' = dropped + 1
              /\ UNCHANGED <<inbox, accepted>>
           \/ /\ ~Connected
              /\ UNCHANGED <<inbox, accepted, overflowed, dropped>>
        /\ UNCHANGED <<held, fileVars, writer, owner, incident, faults>>

-----------------------------------------------------------------------------
(* What the file system does with the writer's calls.                      *)

Works == faults' = faults
Fails == faults < MaxFaults /\ faults' = faults + 1

\* A flush that succeeds, and one that fails after it wrote some records.
Flushed == disk' = disk \o buffer /\ buffer' = << >>
PartlyFlushed ==
    \E n \in 0..Len(buffer) :
        /\ disk' = disk \o SubSeq(buffer, 1, n)
        /\ buffer' = SubSeq(buffer, n + 1, Len(buffer))

Flush == \/ Works /\ Flushed
         \/ Fails /\ PartlyFlushed

\* write_all of one record: into the buffer, which is written out first when
\* it is full.
Buffered(r) ==
    \/ disk' = disk /\ buffer' = Append(buffer, r)
    \/ disk' = disk \o buffer /\ buffer' = <<r>>

-----------------------------------------------------------------------------
(* writer_loop.                                                            *)

\* The next record is taken; a part that is full, or a day old, is rotated.
Receive ==
    /\ writer = "receiving" /\ inbox # << >>
    /\ held' = {Head(inbox)}
    /\ inbox' = Tail(inbox)
    /\ number' = number + 1
    /\ \/ writer' = "rotating"
       \/ size < PartLimit /\ writer' = "appending"
    /\ UNCHANGED <<producerVars, dropped, disk, buffer, size, unflushed, owner, incident, faults>>

\* Mutant: the new part's writer replaces one that was not flushed.
RotateUnflushed ==
    /\ writer = "rotating"
    /\ Works /\ UNCHANGED disk /\ buffer' = << >>
    /\ size' = 0 /\ writer' = "appending"
    /\ UNCHANGED <<producerVars, inbox, dropped, held, number, unflushed, owner, incident>>

\* A failed flush, or a part that cannot be created, ends the loop.
Rotate ==
    /\ writer = "rotating"
    /\ \/ /\ Works /\ Flushed
          /\ size' = 0 /\ writer' = "appending" /\ UNCHANGED held
       \/ /\ Fails /\ (PartlyFlushed \/ Flushed)
          /\ UNCHANGED size /\ writer' = "finishing" /\ held' = {}
    /\ UNCHANGED <<producerVars, inbox, dropped, number, unflushed, owner, incident>>

AppendRecord ==
    /\ writer = "appending"
    /\ \E e \in held :
        \/ /\ Works /\ Buffered(EventRecord(number, e))
           /\ size' = size + 1 /\ writer' = "flushing" /\ UNCHANGED held
        \/ /\ Fails /\ PartlyFlushed
           /\ UNCHANGED size /\ writer' = "finishing" /\ held' = {}
    /\ UNCHANGED <<producerVars, inbox, dropped, number, unflushed, owner, incident>>

\* Mutant: only a full batch is flushed.
MustFlushBatch(e) == unflushed + 1 >= Batch

MustFlush(e) == e.critical \/ unflushed + 1 >= Batch

\* A flush is due, or a second has passed; its failure is ignored.
FlushWhenDue ==
    /\ writer = "flushing"
    /\ \/ Flush /\ unflushed' = 0
       \/ /\ \E e \in held : ~MustFlush(e)
          /\ unflushed' = unflushed + 1
          /\ UNCHANGED <<disk, buffer, faults>>
    /\ held' = {} /\ writer' = "receiving"
    /\ UNCHANGED <<producerVars, inbox, dropped, size, number, owner, incident>>

\* Mutant: the counter is read and not taken.
ReportDroppedByLoad ==
    /\ UNCHANGED dropped
    /\ IF dropped = 0
       THEN Works /\ UNCHANGED <<disk, buffer, number, size>>
       ELSE /\ number' = number + 1 /\ size' = size + 1
            /\ Works /\ Buffered(DroppedRecord(number + 1, dropped))

\* append_dropped_record: the counter is taken, and reported if it was not
\* 0; a count that cannot be written is lost.
ReportDropped ==
    /\ dropped' = 0
    /\ IF dropped = 0
       THEN Works /\ UNCHANGED <<disk, buffer, number, size>>
       ELSE /\ number' = number + 1
            /\ \/ /\ Works /\ Buffered(DroppedRecord(number + 1, dropped))
                  /\ size' = size + 1
               \/ /\ Fails /\ PartlyFlushed
                  /\ UNCHANGED size

\* Mutant: a second without an event flushes nothing.
TimeoutUnflushed ==
    /\ writer = "receiving" /\ inbox = << >> /\ owner # "joining"
    /\ (dropped # 0)
    /\ ReportDropped
    /\ UNCHANGED <<producerVars, inbox, held, unflushed, writer, owner, incident>>

\* A second without an event: report what was refused, then flush.
Timeout ==
    /\ writer = "receiving" /\ inbox = << >> /\ owner # "joining"
    /\ (dropped # 0 \/ buffer # << >>)
    /\ ReportDropped
    /\ writer' = "flushing"
    /\ UNCHANGED <<producerVars, inbox, held, unflushed, owner, incident>>

\* Mutant: the hang-up is a message, which a full channel refuses.
HungUpByMessage == owner = "joining" /\ overflowed = 0

\* The sender is gone and everything it sent was received.
HungUp == owner = "joining"

Disconnected ==
    /\ writer = "receiving" /\ inbox = << >> /\ HungUp
    /\ ReportDropped
    /\ writer' = "finishing"
    /\ UNCHANGED <<producerVars, inbox, held, unflushed, owner, incident>>

\* Mutant: the finish record takes the number of the record before it.
FinishNumberTaken == number

FinishNumber == number + 1

\* The last record of the session; its failure is ignored.
Finish ==
    /\ writer = "finishing"
    /\ \/ Works /\ Buffered(FinishRecord(FinishNumber))
       \/ Fails /\ PartlyFlushed
    /\ writer' = "closing"
    /\ UNCHANGED <<producerVars, inbox, dropped, held, size, number, unflushed, owner, incident>>

\* The last flush; returning drops the receiver and what is still in it.
Return ==
    /\ writer = "closing"
    /\ \/ Works /\ Flushed
       \/ /\ Fails /\ buffer' = << >>
          /\ \E n \in 0..Len(buffer) : disk' = disk \o SubSeq(buffer, 1, n)
    /\ writer' = "ended"
    /\ inbox' = << >>
    /\ UNCHANGED <<producerVars, dropped, held, size, number, unflushed, owner, incident>>

-----------------------------------------------------------------------------
(* The owner, the panic hook and the process.                              *)

HangUp ==
    /\ owner = "using"
    /\ owner' = "joining"
    /\ UNCHANGED <<producerVars, inbox, dropped, held, fileVars, writer, incident, faults>>

\* The writer is joined, the hook is disarmed, a report that was never
\* needed is removed.
Join ==
    /\ owner = "joining" /\ writer = "ended"
    /\ owner' = "closed"
    /\ incident' = [incident EXCEPT !.place = IF @ = "pending" THEN "removed" ELSE @]
    /\ UNCHANGED <<producerVars, inbox, dropped, held, fileVars, writer, faults>>

\* write_panic_incident: truncate, write where the file's position stands,
\* rename.  (When a lock is taken the hook writes nothing.)
Panic ==
    /\ owner \in {"using", "joining"} /\ incident.reports < MaxPanics
    /\ incident' = [place |-> "final", reports |-> incident.reports + 1]
    /\ UNCHANGED <<producerVars, inbox, dropped, held, fileVars, writer, owner, faults>>

\* The process ends: what was buffered or queued is lost.
Crash ==
    /\ owner \in {"using", "joining"}
    /\ owner' = "crashed" /\ writer' = "ended"
    /\ inbox' = << >> /\ held' = {} /\ buffer' = << >>
    /\ UNCHANGED <<producerVars, dropped, disk, size, number, unflushed, incident, faults>>

WriterStep == Receive \/ Rotate \/ AppendRecord \/ FlushWhenDue \/ Timeout
                \/ Disconnected \/ Finish \/ Return

LogNext ==
    \/ \E critical \in BOOLEAN : Enqueue(critical)
    \/ WriterStep
    \/ HangUp \/ Join
    \/ Panic \/ Crash

\* The writer thread runs, and a recorder that is being dropped goes on.
LogFairness == WF_logVars(WriterStep) /\ WF_logVars(Join)

LogSpec == LogInit /\ [][LogNext]_logVars /\ LogFairness

-----------------------------------------------------------------------------
(* Properties.                                                             *)

Log == disk \o buffer
Events(log) == {log[i].id : i \in {j \in DOMAIN log : log[j].kind = "event"}}
Queued == {inbox[i].id : i \in DOMAIN inbox}
Running == writer \in InStep \cup {"receiving"}

\* The log keeps the order of the session: numbers only grow, events come in
\* the order they were offered, and what still waits in the writer's hand or
\* in the channel comes after what is written.  (The rotation of parts, the
\* spilled buffer, failed flushes and crashes included.)
LogIsInOrder ==
    /\ \A i, j \in DOMAIN Log : i < j =>
          /\ Log[i].number < Log[j].number
          /\ Log[i].kind = "event" /\ Log[j].kind = "event" => Log[i].id < Log[j].id
    /\ \A id \in Events(Log), e \in held : writer # "flushing" => id < e.id
    /\ \A id \in Events(Log) \cup {e.id : e \in held}, later \in Queued : id < later
    /\ \A i, j \in DOMAIN inbox : i < j => inbox[i].id < inbox[j].id

\* While the writer runs, an accepted event is in the log, in its hand or in
\* the channel: a part is rotated, a flush fails and is retried, and nothing
\* accepted falls between two places.
NothingAcceptedIsLost ==
    Running => accepted = Events(Log) \cup {e.id : e \in held} \cup Queued

\* What the channel refused is reported, once, and by the time the recorder
\* is closed all of it ("overload drops events with a later trace.dropped
\* count", ADR 0022:18), unless the file system or the process fails.
Counted(log) ==
    LET total[n \in 0..Len(log)] == IF n = 0 THEN 0 ELSE total[n-1] + log[n].count
    IN  total[Len(log)]

RefusalsAreReported ==
    faults = 0 /\ owner # "crashed" =>
      /\ overflowed = dropped + Counted(Log)
      /\ owner = "closed" => dropped = 0

\* A critical record (an operation that was refused or cancelled, a panic
\* that was caught) is in the file before the writer takes the next event,
\* unless a flush failed.
CriticalRecordsAreFlushed ==
    faults = 0 /\ writer = "receiving" => \A i \in DOMAIN buffer : ~buffer[i].critical

\* What was accepted reaches the file for good, once no more events are
\* offered, unless the file system or the process fails.
AcceptedReachesTheFile ==
    <>[](accepted \subseteq Events(disk) \/ faults > 0 \/ owner = "crashed")

\* Dropping the recorder returns, a full channel or a failing disk
\* notwithstanding.
LogDropReturns == owner = "joining" ~> owner \in {"closed", "crashed"}

=============================================================================
