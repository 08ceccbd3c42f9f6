---------------------------- MODULE JobScheduler ----------------------------
(***************************************************************************)
(* The background job scheduler of the workbench                           *)
(* (crates/compute/src/lib.rs, lines 246-511): a pool of worker threads    *)
(* that pop the most urgent job from one heap, cancellation tokens that a  *)
(* handle, a superseding submission or the scheduler's Drop may set at any *)
(* time, and one result channel per job.                                   *)
(*                                                                         *)
(* What the code does under its mutex is one action; what it does outside  *)
(* the mutex (drawing an id, notifying, running the job, checking a token, *)
(* sending) is an action of its own, so that submitters, handles, workers  *)
(* and the dropping owner interleave as the threads do.  A job is named by *)
(* its id, which is also its token: every job owns exactly one.            *)
(***************************************************************************)
EXTENDS Naturals, FiniteSets

CONSTANTS
    Workers,     \* the worker threads
    Submitters,  \* the threads that call submit on the scheduler
    Keys,        \* the supersede keys
    NoKey,       \* submit was given None as the supersede key
    NoJob,       \* no job
    Priorities,  \* the JobPriority levels in use, as numbers: larger is sooner
    MaxJobs      \* bound on the number of jobs submitted

ASSUME WorkersAssumption == IsFiniteSet(Workers) /\ Workers # {}
ASSUME SubmittersAssumption == IsFiniteSet(Submitters)
ASSUME KeysAssumption == NoKey \notin Keys
ASSUME PrioritiesAssumption == Priorities \subseteq Nat
ASSUME MaxJobsAssumption == MaxJobs \in Nat

Job == 0 .. MaxJobs - 1

ASSUME NoJobAssumption == NoJob \notin Job

Request == [priority : Nat, key : Keys \cup {NoKey}]

VARIABLES
    sequence,       \* the next job id (SchedulerInner.sequence)
    request,        \* what each job was submitted with
    queue,          \* the jobs in the heap (SchedulerState.queue)
    superseded,     \* the token last registered under each key
    stopped,        \* SchedulerState.stopped
    cancelled,      \* the tokens that are set
    channel,        \* what each job's channel holds for its handle
    submitterPc,    \* where each submitting thread is inside submit
    submitterJob,   \* the job it is submitting
    workerPc,       \* where each worker is inside worker_loop and the action
    workerJob,      \* the job whose action it holds
    workerResult,   \* the result it has decided to send ("ok" until then)
    ownerPc,        \* where the owner is inside Drop
    ran             \* history: the jobs whose operation was entered

schedulerVars == <<queue, superseded, stopped>>
submitterVars == <<sequence, request, submitterPc, submitterJob>>
workerVars == <<workerPc, workerJob, workerResult>>
vars == <<submitterVars, schedulerVars, cancelled, channel, workerVars, ownerPc, ran>>

Results == {"ok", "cancelled", "panicked"}

\* A worker that holds a job, and the points where it may be.
Busy == {"checking", "running", "returned", "sending"}

TypeOK ==
    /\ sequence \in 0 .. MaxJobs
    /\ request \in [Job -> Request]
    /\ queue \in SUBSET Job
    /\ superseded \in [Keys -> Job \cup {NoJob}]
    /\ stopped \in BOOLEAN
    /\ cancelled \in SUBSET Job
    /\ channel \in [Job -> Results \cup {"empty", "closed"}]
    /\ submitterPc \in [Submitters -> {"idle", "allocated", "pushed"}]
    /\ submitterJob \in [Submitters -> Job \cup {NoJob}]
    /\ \A c \in Submitters : submitterPc[c] # "idle" => submitterJob[c] \in Job
    /\ workerPc \in [Workers -> Busy \cup {"idle", "waiting", "exited"}]
    /\ workerJob \in [Workers -> Job \cup {NoJob}]
    /\ \A w \in Workers : workerPc[w] \in Busy => workerJob[w] \in Job
    /\ workerResult \in [Workers -> Results]
    /\ ownerPc \in {"live", "stopping", "joining", "gone"}
    /\ ran \in SUBSET Job

-----------------------------------------------------------------------------

Init ==
    /\ sequence = 0
    /\ request = [j \in Job |-> [priority |-> 0, key |-> NoKey]]
    /\ queue = {}
    /\ superseded = [k \in Keys |-> NoJob]
    /\ stopped = FALSE
    /\ cancelled = {}
    /\ channel = [j \in Job |-> "empty"]
    /\ submitterPc = [c \in Submitters |-> "idle"]
    /\ submitterJob = [c \in Submitters |-> NoJob]
    /\ workerPc = [w \in Workers |-> "idle"]
    /\ workerJob = [w \in Workers |-> NoJob]
    /\ workerResult = [w \in Workers |-> "ok"]
    /\ ownerPc = "live"
    /\ ran = {}

\* Mutant: among equals, the newest first.
BeforeLifo(i, j) ==
    \/ request[i].priority > request[j].priority
    \/ request[i].priority = request[j].priority /\ i > j

\* The heap's order: the higher priority first, then the lower id.
Before(i, j) ==
    \/ request[i].priority > request[j].priority
    \/ request[i].priority = request[j].priority /\ i < j

\* The jobs submit has pushed (an id that is drawn is not yet a job).
Registered ==
    {j \in Job : /\ j < sequence
                 /\ \A c \in Submitters :
                        submitterPc[c] = "allocated" => submitterJob[c] # j}

\* The jobs whose handle submit has returned.
Held ==
    {j \in Registered : \A c \in Submitters :
                            submitterPc[c] = "pushed" => submitterJob[c] # j}

\* What JobHandle::try_take and wait read: a closed channel with no message
\* in it is reported as SchedulerStopped.
HandleReads(j) ==
    CASE channel[j] = "empty" -> "nothing"
      [] channel[j] = "closed" -> "stopped"
      [] OTHER -> channel[j]

-----------------------------------------------------------------------------
(* submit: the id is drawn before the lock is taken, the notification is   *)
(* sent after it is released.                                              *)

AllocateId(c, p, k) ==
    /\ ownerPc = "live"
    /\ submitterPc[c] = "idle"
    /\ sequence < MaxJobs
    /\ request' = [request EXCEPT ![sequence] = [priority |-> p, key |-> k]]
    /\ submitterJob' = [submitterJob EXCEPT ![c] = sequence]
    /\ sequence' = sequence + 1
    /\ submitterPc' = [submitterPc EXCEPT ![c] = "allocated"]
    /\ UNCHANGED <<schedulerVars, cancelled, channel, workerVars, ownerPc, ran>>

\* The tokens a registration under key k cancels: the one it replaces.
Replaced(k) == IF k \in Keys THEN {superseded[k]} \ {NoJob} ELSE {}

\* Mutant: entry(key).or_insert(token).
NamedOnce(k, j) ==
    IF k \in Keys /\ superseded[k] = NoJob
        THEN [superseded EXCEPT ![k] = j] ELSE superseded

\* The map after job j was registered under key k.
Named(k, j) ==
    IF k \in Keys THEN [superseded EXCEPT ![k] = j] ELSE superseded

Register(c) ==
    LET j == submitterJob[c]
        k == request[j].key
    IN  /\ submitterPc[c] = "allocated"
        /\ superseded' = Named(k, j)
        /\ cancelled' = cancelled \cup Replaced(k)
        /\ queue' = queue \cup {j}
        /\ submitterPc' = [submitterPc EXCEPT ![c] = "pushed"]
        /\ UNCHANGED <<sequence, request, stopped, channel, submitterJob,
                       workerVars, ownerPc, ran>>

\* Condvar::notify_one wakes one thread of the wait set, if there is one.
NotifyOne(c) ==
    /\ submitterPc[c] = "pushed"
    /\ \/ \E w \in Workers : /\ workerPc[w] = "waiting"
                             /\ workerPc' = [workerPc EXCEPT ![w] = "idle"]
       \/ /\ \A w \in Workers : workerPc[w] # "waiting"
          /\ UNCHANGED workerPc
    /\ submitterPc' = [submitterPc EXCEPT ![c] = "idle"]
    /\ submitterJob' = [submitterJob EXCEPT ![c] = NoJob]
    /\ UNCHANGED <<sequence, request, schedulerVars, cancelled, channel,
                   workerJob, workerResult, ownerPc, ran>>

\* JobHandle::cancel, at any time after submit returned, even after Drop.
Cancel(j) ==
    /\ j \in Held
    /\ cancelled' = cancelled \cup {j}
    /\ UNCHANGED <<submitterVars, schedulerVars, channel, workerVars, ownerPc, ran>>

-----------------------------------------------------------------------------
(* worker_loop: the three ways out of one passage under the lock, then the *)
(* action that submit built.                                               *)

Goto(w, pc) == workerPc' = [workerPc EXCEPT ![w] = pc]

\* Mutants: the loop forgets one half of its condition.
MustWaitUntested == ~stopped
MustWaitForever == queue = {}

\* The condition of the loop around the condition variable.
MustWait == queue = {} /\ ~stopped

Wait(w) ==
    /\ workerPc[w] = "idle"
    /\ MustWait
    /\ Goto(w, "waiting")
    /\ UNCHANGED <<submitterVars, schedulerVars, cancelled, channel, workerJob,
                   workerResult, ownerPc, ran>>

\* A condition variable may wake a thread that nobody notified.
SpuriousWakeup(w) ==
    /\ workerPc[w] = "waiting"
    /\ Goto(w, "idle")
    /\ UNCHANGED <<submitterVars, schedulerVars, cancelled, channel, workerJob,
                   workerResult, ownerPc, ran>>

Exit(w) ==
    /\ workerPc[w] = "idle"
    /\ stopped
    /\ Goto(w, "exited")
    /\ UNCHANGED <<submitterVars, schedulerVars, cancelled, channel, workerJob,
                   workerResult, ownerPc, ran>>

Pop(w) ==
    /\ workerPc[w] = "idle"
    /\ ~stopped
    /\ \E j \in queue :
        /\ \A i \in queue \ {j} : Before(j, i)
        /\ queue' = queue \ {j}
        /\ workerJob' = [workerJob EXCEPT ![w] = j]
    /\ Goto(w, "checking")
    /\ UNCHANGED <<submitterVars, superseded, stopped, cancelled, channel,
                   workerResult, ownerPc, ran>>

\* The check before the operation: a token that is already set skips it.
Skips(j) == j \in cancelled

SkipCancelled(w) ==
    /\ workerPc[w] = "checking"
    /\ Skips(workerJob[w])
    /\ workerResult' = [workerResult EXCEPT ![w] = "cancelled"]
    /\ Goto(w, "sending")
    /\ UNCHANGED <<submitterVars, schedulerVars, cancelled, channel, workerJob, ownerPc, ran>>

StartOperation(w) ==
    /\ workerPc[w] = "checking"
    /\ ~Skips(workerJob[w])
    /\ ran' = ran \cup {workerJob[w]}
    /\ Goto(w, "running")
    /\ UNCHANGED <<submitterVars, schedulerVars, cancelled, channel, workerJob,
                   workerResult, ownerPc>>

OperationReturns(w) ==
    /\ workerPc[w] = "running"
    /\ Goto(w, "returned")
    /\ UNCHANGED <<submitterVars, schedulerVars, cancelled, channel, workerJob,
                   workerResult, ownerPc, ran>>

\* catch_unwind turns the unwind into a result; its token is not consulted.
OperationPanics(w) ==
    /\ workerPc[w] = "running"
    /\ workerResult' = [workerResult EXCEPT ![w] = "panicked"]
    /\ Goto(w, "sending")
    /\ UNCHANGED <<submitterVars, schedulerVars, cancelled, channel, workerJob, ownerPc, ran>>

\* The check after the operation decides whether its value is published.
Verdict(j) == IF j \in cancelled THEN "cancelled" ELSE "ok"

FinalCheck(w) ==
    /\ workerPc[w] = "returned"
    /\ workerResult' = [workerResult EXCEPT ![w] = Verdict(workerJob[w])]
    /\ Goto(w, "sending")
    /\ UNCHANGED <<submitterVars, schedulerVars, cancelled, channel, workerJob, ownerPc, ran>>

Send(w) ==
    /\ workerPc[w] = "sending"
    /\ channel' = [channel EXCEPT ![workerJob[w]] = workerResult[w]]
    /\ workerJob' = [workerJob EXCEPT ![w] = NoJob]
    /\ workerResult' = [workerResult EXCEPT ![w] = "ok"]
    /\ Goto(w, "idle")
    /\ UNCHANGED <<submitterVars, schedulerVars, cancelled, ownerPc, ran>>

-----------------------------------------------------------------------------
(* Drop for SchedulerInner.  The last clone is gone, so no thread is       *)
(* inside submit and none will enter it.                                   *)

\* Mutant: running jobs are not told.
CurrentTokensNone == {}

\* The tokens Drop sets: the one registered last under each key.
CurrentTokens == {superseded[k] : k \in Keys} \ {NoJob}

\* Mutants: Drop closes every open channel; or every channel.
ClosedIfUnanswered(j) == IF channel[j] = "empty" THEN "closed" ELSE channel[j]

\* Clearing the heap drops the sender inside each queued action.
ClosedByClear(j) == IF j \in queue THEN "closed" ELSE channel[j]

DropStop ==
    /\ ownerPc = "live"
    /\ \A c \in Submitters : submitterPc[c] = "idle"
    /\ stopped' = TRUE
    /\ cancelled' = cancelled \cup CurrentTokens
    /\ channel' = [j \in Job |-> ClosedByClear(j)]
    /\ queue' = {}
    /\ ownerPc' = "stopping"
    /\ UNCHANGED <<submitterVars, superseded, workerVars, ran>>

DropNotifyAll ==
    /\ ownerPc = "stopping"
    /\ workerPc' = [w \in Workers |->
                        IF workerPc[w] = "waiting" THEN "idle" ELSE workerPc[w]]
    /\ ownerPc' = "joining"
    /\ UNCHANGED <<submitterVars, schedulerVars, cancelled, channel, workerJob,
                   workerResult, ran>>

DropJoin ==
    /\ ownerPc = "joining"
    /\ \A w \in Workers : workerPc[w] = "exited"
    /\ ownerPc' = "gone"
    /\ UNCHANGED <<submitterVars, schedulerVars, cancelled, channel, workerVars, ran>>

\* The scheduler is gone and its handles may live on: a legitimate end.
Ended == ownerPc = "gone" /\ UNCHANGED vars

-----------------------------------------------------------------------------

Submit(c) ==
    \/ \E p \in Priorities, k \in Keys \cup {NoKey} : AllocateId(c, p, k)
    \/ Register(c)
    \/ NotifyOne(c)

WorkerStep(w) ==
    \/ Wait(w)
    \/ Exit(w)
    \/ Pop(w)
    \/ SkipCancelled(w)
    \/ StartOperation(w)
    \/ OperationReturns(w)
    \/ OperationPanics(w)
    \/ FinalCheck(w)
    \/ Send(w)

Drop == DropStop \/ DropNotifyAll \/ DropJoin

Next ==
    \/ \E c \in Submitters : Submit(c)
    \/ \E j \in Job : Cancel(j)
    \/ \E w \in Workers : WorkerStep(w) \/ SpuriousWakeup(w)
    \/ Drop
    \/ Ended

Spec == Init /\ [][Next]_vars

\* Threads that are inside a call finish it, and operations return: nobody
\* is obliged to submit, to cancel or to drop the scheduler.
Fairness ==
    /\ \A c \in Submitters : WF_vars(Register(c) \/ NotifyOne(c))
    /\ \A w \in Workers : WF_vars(WorkerStep(w))
    /\ WF_vars(DropNotifyAll \/ DropJoin)

FairSpec == Spec /\ Fairness

-----------------------------------------------------------------------------
(* Safety                                                                  *)

\* The places a registered job can be: the heap, a worker's hands, or
\* finished (its sender was used or dropped).
Holders(j) == {w \in Workers : workerPc[w] \in Busy /\ workerJob[w] = j}

\* Every job submit has pushed is in exactly one place, so that none is lost
\* and none is run twice: in the heap, with one worker, or answered.  An id
\* that is not registered is nowhere.  (worker_loop's pop, the action's send
\* and Drop's queue.clear hand the job over under different locks.)
EachJobInOnePlace ==
    \A j \in Job :
        /\ \A v, w \in Holders(j) : v = w
        /\ j \in queue => Holders(j) = {} /\ channel[j] = "empty"
        /\ Holders(j) # {} => channel[j] = "empty"
        /\ j \in Registered <=>
              j \in queue \/ Holders(j) # {} \/ channel[j] # "empty"

\* "Reusing a supersede key cancels the older preview/job" (doc of submit):
\* of all the jobs ever registered under one key, at most one has a token
\* that is not set, and the map still names it, so that the next submission
\* and Drop can reach it.
OneSurvivorPerKey ==
    \A j \in Registered :
        LET k == request[j].key
        IN  k # NoKey /\ j \notin cancelled => superseded[k] = j

\* The survivor is the newest by id.  The id is drawn before the lock is
\* taken, so this needs a single submitting thread, which is how the
\* workbench uses the scheduler (its UI thread is the only caller).
SurvivorIsNewest ==
    \A i, j \in Registered :
        i < j /\ request[i].key = request[j].key /\ request[i].key # NoKey
            => i \in cancelled

\* With a single submitting thread a job never waits in the heap while one
\* submitted after it at the same or a lower priority has already left it.
\* (Ord for QueuedJob; a stopped scheduler drops what is queued at once.)
NoOvertaking ==
    \A i \in queue, j \in Registered :
        i < j /\ request[i].priority >= request[j].priority => j \in queue

\* With a single submitting thread, the order of submission decides which
\* job of a key survives and which of two equals runs first.
SubmissionOrderHolds == SurvivorIsNewest /\ NoOvertaking

\* No lost wakeup: a worker never sleeps on the condition variable while a
\* job is queued, unless some thread is already on its way to the queue (a
\* worker that is about to take the lock, or a submitter that is about to
\* notify).  Workers test the heap under the lock and submitters notify
\* after they released it.
NoLostWakeup ==
    queue # {} /\ (\E w \in Workers : workerPc[w] = "waiting") =>
        \/ \E w \in Workers : workerPc[w] = "idle"
        \/ \E c \in Submitters : submitterPc[c] = "pushed"

\* What a handle reads tells the truth about the operation: a value or a
\* panic only if it was entered, SchedulerStopped only if it never was.
HandlesTellTheTruth ==
    \A j \in Job :
        /\ HandleReads(j) \in {"ok", "panicked"} => j \in ran
        /\ HandleReads(j) = "stopped" => j \notin ran /\ stopped

-----------------------------------------------------------------------------
(* The scheduler implements JobPromise.  A job is pending while it is in   *)
(* the heap or at the first check, executing while its operation runs, and *)
(* resolved from the moment a worker has decided on its result.            *)

\* The life of a job as its handle's holder may think of it.
Status(j) ==
    LET at(pcs) == \E w \in Holders(j) : workerPc[w] \in pcs
    IN  CASE j \notin Registered -> "absent"
          [] j \in queue \/ at({"checking"}) -> "pending"
          [] at({"running", "returned"}) -> "executing"
          [] at({"sending"}) -> (CHOOSE r \in Results :
                 \E w \in Holders(j) : workerPc[w] = "sending" /\ r = workerResult[w])
          [] OTHER -> HandleReads(j)

Promise == INSTANCE JobPromise WITH
    Job <- Job,
    Keys <- Keys,
    NoKey <- NoKey,
    status <- [j \in Job |-> Status(j)],
    key <- [j \in Job |-> IF j \in Registered THEN request[j].key ELSE NoKey],
    cancelled <- cancelled,
    closed <- stopped

\* Every behaviour of the scheduler is one of the promise: a keyed
\* registration cancels every earlier job of its key although the map names
\* only the last one, Drop cancels every keyed job although it walks that
\* map, no operation is entered after its cancellation, no value is
\* published after it, and a result is never revised.
KeepsItsPromise == Promise!PromiseSpec

-----------------------------------------------------------------------------
(* Liveness, under FairSpec                                                *)

\* Every job that is registered is answered: its value, Cancelled, Panicked
\* or SchedulerStopped, so that a caller blocked in wait returns.
EveryJobIsAnswered ==
    \A j \in Job : j \in Registered ~> HandleReads(j) # "nothing"

\* Drop returns: every worker sees stopped, whatever it was doing when the
\* notification was sent, and is joined.
DropReturns == ownerPc = "stopping" ~> ownerPc = "gone"
=============================================================================
