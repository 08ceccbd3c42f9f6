------------------------ MODULE JobScheduler_proofs ------------------------
(***************************************************************************)
(* Proofs about JobScheduler, for any number of workers, of submitting     *)
(* threads, of keys and of jobs; and that it implements JobPromise.        *)
(***************************************************************************)
EXTENDS JobScheduler, FiniteSetTheorems, TLAPS

-----------------------------------------------------------------------------
(* Type correctness.                                                       *)

LEMMA InitTyped == Init => TypeOK
<1>. SUFFICES ASSUME Init PROVE TypeOK
  OBVIOUS
<1>1. [priority |-> 0, key |-> NoKey] \in Request
  BY DEF Request
<1>2. request \in [Job -> Request] /\ sequence \in 0 .. MaxJobs
  BY <1>1, MaxJobsAssumption DEF Init
<1>3. QED
  BY <1>2 DEF Init, TypeOK, Results, Busy

LEMMA SubmitTyped ==
    ASSUME NEW c \in Submitters, TypeOK, Submit(c)
    PROVE  TypeOK'
<1> USE MaxJobsAssumption, PrioritiesAssumption
<1>1. ASSUME NEW p \in Priorities, NEW k \in Keys \cup {NoKey}, AllocateId(c, p, k)
      PROVE  TypeOK'
  <2>1. sequence \in Job
    BY <1>1 DEF AllocateId, TypeOK, Job
  <2>2. [priority |-> p, key |-> k] \in Request
    BY DEF Request
  <2>3. QED
    BY <1>1, <2>1, <2>2 DEF AllocateId, TypeOK, Busy, schedulerVars, workerVars, Job
<1>2. CASE Register(c)
  <2>1. submitterJob[c] \in Job \cup {NoJob}
    BY DEF TypeOK
  <2>. DEFINE j == submitterJob[c]
              k == request[j].key
  <2>2. superseded' \in [Keys -> Job \cup {NoJob}]
    BY <1>2, <2>1 DEF Register, Named, TypeOK
  <2>3. QED
    BY <1>2, <2>1, <2>2 DEF Register, Replaced, TypeOK, workerVars, Busy
<1>3. CASE NotifyOne(c)
  BY <1>3 DEF NotifyOne, TypeOK, schedulerVars, Busy
<1>4. QED
  BY <1>1, <1>2, <1>3 DEF Submit

LEMMA CancelTyped ==
    ASSUME NEW i \in Job, TypeOK, Cancel(i)
    PROVE  TypeOK'
BY DEF Cancel, TypeOK, schedulerVars, submitterVars, workerVars

LEMMA WorkerTyped ==
    ASSUME NEW w \in Workers, TypeOK, WorkerStep(w) \/ SpuriousWakeup(w)
    PROVE  TypeOK'
<1> USE DEF TypeOK, Goto, Busy, Results, schedulerVars, submitterVars
<1>1. CASE Wait(w) \/ SpuriousWakeup(w) \/ Exit(w)
  BY <1>1 DEF Wait, SpuriousWakeup, Exit
<1>2. CASE Pop(w)
  BY <1>2 DEF Pop
<1>3. CASE SkipCancelled(w)
  BY <1>3 DEF SkipCancelled
<1>4. CASE StartOperation(w) \/ OperationReturns(w) \/ OperationPanics(w)
  BY <1>4 DEF StartOperation, OperationReturns, OperationPanics
<1>5. CASE FinalCheck(w)
  BY <1>5 DEF FinalCheck, Verdict
<1>6. CASE Send(w)
  BY <1>6 DEF Send
<1>7. QED
  BY <1>1, <1>2, <1>3, <1>4, <1>5, <1>6 DEF WorkerStep

LEMMA DropTyped ==
    ASSUME TypeOK, Drop
    PROVE  TypeOK'
<1> USE DEF TypeOK, Busy, schedulerVars, submitterVars, workerVars
<1>1. CASE DropStop
  BY <1>1 DEF DropStop, CurrentTokens, ClosedByClear
<1>2. CASE DropNotifyAll
  BY <1>2 DEF DropNotifyAll
<1>3. CASE DropJoin
  BY <1>3 DEF DropJoin
<1>4. QED
  BY <1>1, <1>2, <1>3 DEF Drop

LEMMA StutterTyped == TypeOK /\ UNCHANGED vars => TypeOK'
BY DEF TypeOK, vars, schedulerVars, submitterVars, workerVars

\* Every variable keeps its type, and a thread inside a call holds a job.
THEOREM TypeCorrect == Spec => []TypeOK
<1>1. TypeOK /\ [Next]_vars => TypeOK'
  BY SubmitTyped, CancelTyped, WorkerTyped, DropTyped, StutterTyped
     DEF Next, Ended
<1>2. QED
  BY InitTyped, <1>1, PTL DEF Spec

-----------------------------------------------------------------------------
(* The inductive invariant.  None of the safety invariants is inductive by *)
(* itself: each needs to know which ids are drawn but not yet registered,  *)
(* and that a stopped scheduler has no thread inside submit.               *)

\* Each thread inside submit has an id of its own.
SubmittersApart ==
    /\ \A c \in Submitters :
          submitterPc[c] # "idle" => submitterJob[c] < sequence
    /\ \A c, d \in Submitters :
          /\ submitterPc[c] # "idle"
          /\ submitterPc[d] # "idle"
          /\ submitterJob[c] = submitterJob[d]
          => c = d

\* Where the registered jobs are, and where no other job is.
Placed ==
    /\ queue \subseteq Registered
    /\ \A j \in queue : channel[j] = "empty"
    /\ \A w \in Workers : workerPc[w] \in Busy =>
          /\ workerJob[w] \in Registered \ queue
          /\ channel[workerJob[w]] = "empty"
    /\ \A v, w \in Workers :
          /\ workerPc[v] \in Busy
          /\ workerPc[w] \in Busy
          /\ workerJob[v] = workerJob[w]
          => v = w
    /\ \A j \in Job : channel[j] # "empty" => j \in Registered
    /\ \A j \in Registered :
          \/ j \in queue
          \/ channel[j] # "empty"
          \/ \E w \in Workers : workerPc[w] \in Busy /\ workerJob[w] = j

\* The map names registered jobs of the right key, and all survivors.
Keyed ==
    /\ \A k \in Keys : superseded[k] # NoJob =>
          superseded[k] \in Registered /\ request[superseded[k]].key = k
    /\ OneSurvivorPerKey

\* A stopped scheduler takes no more jobs.
Stopping ==
    /\ stopped <=> ownerPc # "live"
    /\ stopped => queue = {} /\ \A c \in Submitters : submitterPc[c] = "idle"

\* How far each operation has come.
RanInOrder ==
    /\ ran \subseteq Registered \ queue
    /\ \A w \in Workers :
          /\ workerPc[w] = "checking" => workerJob[w] \notin ran
          /\ workerPc[w] \in {"running", "returned"} => workerJob[w] \in ran
          /\ workerPc[w] = "sending" /\ workerResult[w] # "cancelled"
                => workerJob[w] \in ran
    /\ \A j \in Job :
          /\ channel[j] \in {"ok", "panicked"} => j \in ran
          /\ channel[j] = "closed" => j \notin ran /\ stopped

IInv ==
    /\ TypeOK
    /\ SubmittersApart
    /\ Placed
    /\ Keyed
    /\ Stopping
    /\ RanInOrder

LEMMA InitInv == Init => IInv
<1>1. Init => Registered = {}
  BY DEF Init, Registered, Job
<1>2. QED
  BY <1>1, InitTyped DEF Init, IInv, SubmittersApart, Placed, Keyed, Stopping,
     RanInOrder, OneSurvivorPerKey, Busy

LEMMA StutterInv == IInv /\ UNCHANGED vars => IInv'
<1>. SUFFICES ASSUME IInv, UNCHANGED vars PROVE IInv'
  OBVIOUS
<1>1. Registered' = Registered
  BY DEF vars, schedulerVars, submitterVars, Registered
<1>2. QED
  BY <1>1, StutterTyped DEF IInv, SubmittersApart, Placed, Keyed, Stopping,
     RanInOrder, OneSurvivorPerKey, Busy, vars, schedulerVars, submitterVars,
     workerVars

\* The new id is drawn, not registered.
LEMMA AllocateInv ==
    ASSUME NEW c \in Submitters, NEW p \in Priorities, NEW k \in Keys \cup {NoKey},
           IInv, AllocateId(c, p, k)
    PROVE  IInv'
<1> USE MaxJobsAssumption DEF IInv
<1>1. TypeOK'
  BY SubmitTyped DEF Submit
<1>2. /\ sequence \in Job
      /\ submitterPc' = [submitterPc EXCEPT ![c] = "allocated"]
      /\ submitterJob' = [submitterJob EXCEPT ![c] = sequence]
      /\ request' = [request EXCEPT ![sequence] = [priority |-> p, key |-> k]]
      /\ submitterPc[c] = "idle"
      /\ sequence' = sequence + 1
      /\ ~stopped
  BY DEF AllocateId, TypeOK, Job, Stopping
<1>3. SubmittersApart'
  BY <1>2 DEF SubmittersApart, TypeOK, Job
<1>4. Registered' = Registered
  BY <1>2 DEF Registered, TypeOK, Job
<1>5. Placed'
  BY <1>4 DEF Placed, AllocateId, schedulerVars, workerVars, Busy
<1>6. \A j \in Registered : request'[j] = request[j]
  BY <1>2 DEF Registered, TypeOK, Job
<1>7. Keyed'
  BY <1>4, <1>6 DEF Keyed, OneSurvivorPerKey, AllocateId, schedulerVars
<1>8. Stopping'
  BY <1>2 DEF Stopping, AllocateId, schedulerVars
<1>9. RanInOrder'
  BY <1>4 DEF RanInOrder, AllocateId, schedulerVars, workerVars
<1>10. QED
  BY <1>1, <1>3, <1>5, <1>7, <1>8, <1>9

\* Registration cancels the job the map named; every other job of the key
\* was cancelled before.
LEMMA RegisterInv ==
    ASSUME NEW c \in Submitters, IInv, Register(c)
    PROVE  IInv'
<1> USE MaxJobsAssumption, NoJobAssumption, KeysAssumption DEF IInv
<1>. DEFINE j == submitterJob[c]
            k == request[j].key
<1>1. TypeOK'
  BY SubmitTyped DEF Submit
<1>2. /\ j \in Job /\ j < sequence
      /\ submitterPc[c] = "allocated"
      /\ submitterPc' = [submitterPc EXCEPT ![c] = "pushed"]
      /\ UNCHANGED <<sequence, request, stopped, channel, submitterJob,
                     workerPc, workerJob, workerResult, ownerPc, ran>>
      /\ queue' = queue \cup {j}
      /\ superseded' = Named(k, j)
      /\ cancelled' = cancelled \cup Replaced(k)
      /\ ~stopped
  BY DEF Register, TypeOK, SubmittersApart, Stopping, workerVars
<1>3. SubmittersApart'
  BY <1>2 DEF SubmittersApart, TypeOK
<1>4. j \notin Registered
  BY <1>2 DEF Registered
<1>5. Registered' = Registered \cup {j}
  BY <1>2 DEF Registered, SubmittersApart, TypeOK
<1>6. Placed'
  BY <1>2, <1>4, <1>5 DEF Placed, Busy, TypeOK
<1>7. Keyed'
  <2>1. CASE k \in Keys
    <3>1. superseded' = [superseded EXCEPT ![k] = j]
      BY <2>1, <1>2 DEF Named
    <3>2. cancelled' = cancelled \cup ({superseded[k]} \ {NoJob})
      BY <2>1, <1>2 DEF Replaced
    <3>3. \A i \in Registered : request[i].key = k => i \in cancelled'
      BY <2>1, <3>2 DEF Keyed, OneSurvivorPerKey, Registered
    <3>4. QED
      BY <1>2, <1>4, <1>5, <2>1, <3>1, <3>2, <3>3 DEF Keyed, OneSurvivorPerKey, TypeOK, Registered
  <2>2. CASE k = NoKey
    <3>1. superseded' = superseded /\ cancelled' = cancelled
      BY <2>2, <1>2 DEF Named, Replaced
    <3>2. QED
      BY <1>2, <1>4, <1>5, <2>2, <3>1 DEF Keyed, OneSurvivorPerKey, TypeOK
  <2>3. k \in Keys \/ k = NoKey
    BY <1>2 DEF TypeOK, Request
  <2>4. QED
    BY <2>1, <2>2, <2>3
<1>8. Stopping'
  BY <1>2 DEF Stopping
<1>9. RanInOrder'
  BY <1>2, <1>4, <1>5 DEF RanInOrder, TypeOK
<1>10. QED
  BY <1>1, <1>3, <1>6, <1>7, <1>8, <1>9

\* What the steps that move no job have in common: the invariant only looks
\* at which workers are busy and which submitters are inside submit.
Quiet ==
    /\ UNCHANGED <<sequence, request, queue, superseded, stopped, channel,
                   workerJob, workerResult, ran>>
    /\ ownerPc = "live" <=> ownerPc' = "live"
    /\ cancelled \subseteq cancelled'
    /\ \A c \in Submitters :
          \/ UNCHANGED <<submitterPc[c], submitterJob[c]>>
          \/ submitterPc[c] = "pushed" /\ submitterPc'[c] = "idle"
    /\ \A w \in Workers :
          \/ workerPc'[w] = workerPc[w]
          \/ workerPc[w] \notin Busy /\ workerPc'[w] \notin Busy

LEMMA QuietInv == IInv /\ TypeOK' /\ Quiet => IInv'
<1>. SUFFICES ASSUME IInv, TypeOK', Quiet PROVE IInv'
  OBVIOUS
<1> USE DEF IInv, Quiet
<1>1. Registered' = Registered
  BY DEF Registered
<1>2. SubmittersApart'
  BY DEF SubmittersApart
<1>3. Placed'
  BY <1>1 DEF Placed
<1>4. Keyed'
  BY <1>1 DEF Keyed, OneSurvivorPerKey
<1>5. Stopping'
  BY DEF Stopping
<1>6. RanInOrder'
  BY <1>1 DEF RanInOrder, Busy
<1>7. QED
  BY <1>2, <1>3, <1>4, <1>5, <1>6

LEMMA NotifyInv ==
    ASSUME NEW c \in Submitters, IInv, NotifyOne(c)
    PROVE  IInv'
<1>1. TypeOK'
  BY SubmitTyped DEF Submit, IInv
<1>2. TypeOK
  BY DEF IInv
<1>3. Quiet
  BY <1>2 DEF Quiet, NotifyOne, schedulerVars, Busy, TypeOK
<1>4. QED
  BY <1>1, <1>3, QuietInv

LEMMA CancelInv ==
    ASSUME NEW i \in Job, IInv, Cancel(i)
    PROVE  IInv'
<1>1. TypeOK'
  BY CancelTyped DEF IInv
<1>2. Quiet
  BY DEF Quiet, Cancel, schedulerVars, submitterVars, workerVars
<1>3. QED
  BY <1>1, <1>2, QuietInv

LEMMA IdleInv ==
    ASSUME NEW w \in Workers, IInv, Wait(w) \/ SpuriousWakeup(w) \/ Exit(w)
    PROVE  IInv'
<1>1. TypeOK'
  BY WorkerTyped DEF WorkerStep, IInv
<1>2. TypeOK
  BY DEF IInv
<1>3. Quiet
  BY <1>2 DEF Quiet, Wait, SpuriousWakeup, Exit, Goto, schedulerVars,
     submitterVars, Busy, TypeOK
<1>4. QED
  BY <1>1, <1>3, QuietInv

LEMMA PopInv ==
    ASSUME NEW w \in Workers, IInv, Pop(w)
    PROVE  IInv'
<1> USE DEF IInv
<1>1. TypeOK'
  BY WorkerTyped DEF WorkerStep
<1>2. PICK j \in queue :
        /\ queue' = queue \ {j}
        /\ workerJob' = [workerJob EXCEPT ![w] = j]
  BY DEF Pop
<1>3. /\ workerPc[w] = "idle"
      /\ workerPc' = [workerPc EXCEPT ![w] = "checking"]
      /\ UNCHANGED <<sequence, request, superseded, stopped, cancelled, channel,
                     submitterVars, workerResult, ownerPc, ran>>
  BY DEF Pop, Goto, submitterVars
<1>4. Registered' = Registered
  BY <1>3 DEF Registered, submitterVars
<1>5. SubmittersApart'
  BY <1>3 DEF SubmittersApart, submitterVars
<1>6. Placed'
  BY <1>2, <1>3, <1>4 DEF Placed, Busy, TypeOK
<1>7. Keyed'
  BY <1>3, <1>4 DEF Keyed, OneSurvivorPerKey
<1>8. Stopping'
  BY <1>2, <1>3 DEF Stopping, submitterVars
<1>9. RanInOrder'
  BY <1>2, <1>3, <1>4 DEF RanInOrder, TypeOK
<1>10. QED
  BY <1>1, <1>5, <1>6, <1>7, <1>8, <1>9

\* The steps of a busy worker that keep its job.
LEMMA ActionInv ==
    ASSUME NEW w \in Workers, IInv,
           \/ SkipCancelled(w)
           \/ StartOperation(w)
           \/ OperationReturns(w)
           \/ OperationPanics(w)
           \/ FinalCheck(w)
    PROVE  IInv'
<1> USE DEF IInv
<1>1. TypeOK'
  BY WorkerTyped DEF WorkerStep
<1>2. /\ workerPc[w] \in Busy
      /\ workerPc'[w] \in Busy
      /\ \A v \in Workers \ {w} : workerPc'[v] = workerPc[v]
      /\ UNCHANGED <<sequence, request, schedulerVars, cancelled, channel,
                     submitterVars, workerJob, ownerPc>>
  BY DEF SkipCancelled, StartOperation, OperationReturns, OperationPanics,
     FinalCheck, Goto, Busy, TypeOK, submitterVars
<1>3. Registered' = Registered
  BY <1>2 DEF Registered, submitterVars
<1>4. SubmittersApart'
  BY <1>2 DEF SubmittersApart, submitterVars
<1>5. Placed'
  BY <1>2, <1>3 DEF Placed, schedulerVars
<1>6. Keyed'
  BY <1>2, <1>3 DEF Keyed, OneSurvivorPerKey, schedulerVars
<1>7. Stopping'
  BY <1>2 DEF Stopping, schedulerVars, submitterVars
<1>8. RanInOrder'
  <2>1. workerJob[w] \in Registered \ queue /\ channel[workerJob[w]] = "empty"
    BY <1>2 DEF Placed
  <2>2. \A v \in Workers \ {w} :
            workerPc[v] \in Busy => workerJob[v] # workerJob[w]
    BY <1>2 DEF Placed
  <2>3. CASE StartOperation(w)
    BY <1>3, <2>1, <2>2, <2>3
       DEF StartOperation, Goto, RanInOrder, TypeOK, schedulerVars, Busy
  <2>4. CASE SkipCancelled(w)
    BY <1>3, <2>4 DEF SkipCancelled, Goto, RanInOrder, TypeOK, schedulerVars
  <2>5. CASE OperationReturns(w)
    BY <1>3, <2>5 DEF OperationReturns, Goto, RanInOrder, TypeOK, schedulerVars
  <2>6. CASE OperationPanics(w)
    BY <1>3, <2>6 DEF OperationPanics, Goto, RanInOrder, TypeOK, schedulerVars
  <2>7. CASE FinalCheck(w)
    BY <1>3, <2>7 DEF FinalCheck, Goto, RanInOrder, TypeOK, schedulerVars
  <2>8. QED
    BY <2>3, <2>4, <2>5, <2>6, <2>7
<1>9. QED
  BY <1>1, <1>4, <1>5, <1>6, <1>7, <1>8

LEMMA SendInv ==
    ASSUME NEW w \in Workers, IInv, Send(w)
    PROVE  IInv'
<1> USE DEF IInv
<1>. DEFINE j == workerJob[w]
<1>1. TypeOK'
  BY WorkerTyped DEF WorkerStep
<1>2. /\ workerPc[w] = "sending"
      /\ workerPc' = [workerPc EXCEPT ![w] = "idle"]
      /\ workerJob' = [workerJob EXCEPT ![w] = NoJob]
      /\ workerResult' = [workerResult EXCEPT ![w] = "ok"]
      /\ channel' = [channel EXCEPT ![j] = workerResult[w]]
      /\ UNCHANGED <<sequence, request, schedulerVars, cancelled, submitterVars,
                     ownerPc, ran>>
  BY DEF Send, Goto, submitterVars
<1>3. /\ j \in Registered \ queue
      /\ j \in Job
      /\ workerResult[w] # "empty" /\ workerResult[w] # "closed"
  BY <1>2 DEF Placed, Busy, TypeOK, Results
<1>4. Registered' = Registered
  BY <1>2 DEF Registered, submitterVars
<1>5. SubmittersApart'
  BY <1>2 DEF SubmittersApart, submitterVars
<1>6. Placed'
  BY <1>2, <1>3, <1>4 DEF Placed, TypeOK, schedulerVars, Busy
<1>7. Keyed'
  BY <1>2, <1>4 DEF Keyed, OneSurvivorPerKey, schedulerVars
<1>8. Stopping'
  BY <1>2 DEF Stopping, schedulerVars, submitterVars
<1>9. RanInOrder'
  BY <1>2, <1>3, <1>4 DEF RanInOrder, TypeOK, schedulerVars
<1>10. QED
  BY <1>1, <1>5, <1>6, <1>7, <1>8, <1>9

LEMMA DropInv ==
    ASSUME IInv, Drop
    PROVE  IInv'
<1> USE DEF IInv
<1>1. TypeOK'
  BY DropTyped
<1>2. CASE DropNotifyAll \/ DropJoin
  <2>1. Quiet
    BY <1>2 DEF Quiet, DropNotifyAll, DropJoin, schedulerVars, submitterVars,
       workerVars, Busy, TypeOK
  <2>2. QED
    BY <1>1, <2>1, QuietInv
<1>3. CASE DropStop
  <2>1. Registered' = Registered
    BY <1>3 DEF DropStop, Registered, submitterVars
  <2>2. SubmittersApart'
    BY <1>3 DEF DropStop, SubmittersApart, submitterVars
  <2>3. Placed'
    <3>1. /\ queue' = {}
          /\ UNCHANGED <<workerPc, workerJob>>
          /\ \A j \in Job : channel'[j] = IF j \in queue THEN "closed" ELSE channel[j]
      BY <1>3 DEF DropStop, ClosedByClear, workerVars
    <3>2. Registered \subseteq Job /\ queue \subseteq Registered
      BY DEF Registered, Placed
    <3>3. \A w \in Workers : workerPc[w] \in Busy =>
              /\ workerJob[w] \in Registered \ queue
              /\ channel'[workerJob[w]] = "empty"
      BY <3>1, <3>2 DEF Placed
    <3>4. \A j \in Job : channel'[j] # "empty" => j \in Registered
      BY <3>1, <3>2 DEF Placed
    <3>5. \A j \in Registered :
              \/ channel'[j] # "empty"
              \/ \E w \in Workers : workerPc[w] \in Busy /\ workerJob[w] = j
      BY <3>1, <3>2 DEF Placed
    <3>6. QED
      BY <2>1, <3>1, <3>3, <3>4, <3>5 DEF Placed
  <2>4. Keyed'
    BY <1>3, <2>1 DEF DropStop, Keyed, OneSurvivorPerKey, submitterVars
  <2>5. Stopping'
    BY <1>3 DEF DropStop, Stopping, submitterVars
  <2>6. RanInOrder'
    BY <1>3, <2>1 DEF DropStop, ClosedByClear, RanInOrder, TypeOK, workerVars
  <2>7. QED
    BY <1>1, <2>2, <2>3, <2>4, <2>5, <2>6
<1>4. QED
  BY <1>2, <1>3 DEF Drop

LEMMA NextInv == IInv /\ [Next]_vars => IInv'
BY AllocateInv, RegisterInv, NotifyInv, CancelInv, IdleInv, PopInv, ActionInv,
   SendInv, DropInv, StutterInv
   DEF Next, Submit, WorkerStep, Ended

LEMMA InvIsInvariant == Spec => []IInv
BY InitInv, NextInv, PTL DEF Spec

-----------------------------------------------------------------------------
(* The safety invariants.                                                  *)

\* No job is lost or run twice: every registered job is in the heap, with
\* exactly one worker, or answered.
THEOREM NoJobLost == Spec => []EachJobInOnePlace
<1>1. IInv => EachJobInOnePlace
  BY DEF IInv, TypeOK, Placed, EachJobInOnePlace, Holders
<1>2. QED
  BY InvIsInvariant, <1>1, PTL

\* At most one job per supersede key is ever alive, and the map names it.
THEOREM KeyHasOneSurvivor == Spec => []OneSurvivorPerKey
<1>1. IInv => OneSurvivorPerKey
  BY DEF IInv, Keyed
<1>2. QED
  BY InvIsInvariant, <1>1, PTL

\* A handle reads a value or a panic only of an operation that was entered,
\* and SchedulerStopped only of one that never was.
THEOREM AnswersAreTrue == Spec => []HandlesTellTheTruth
<1>1. IInv => HandlesTellTheTruth
  BY DEF IInv, TypeOK, RanInOrder, HandlesTellTheTruth, HandleReads, Results
<1>2. QED
  BY InvIsInvariant, <1>1, PTL

-----------------------------------------------------------------------------
(* No wakeup is lost.  That somebody is on the way to the queue is not     *)
(* inductive: the worker on its way may take one job of two.  What the     *)
(* steps keep is a count, namely that while anybody sleeps there are no    *)
(* more jobs in the heap than threads on their way to it.                  *)

Awake == {w \in Workers : workerPc[w] = "idle"}
Notifying == {c \in Submitters : submitterPc[c] = "pushed"}
Asleep == \E w \in Workers : workerPc[w] = "waiting"

Attended == Asleep => Cardinality(queue) <= Cardinality(Awake) + Cardinality(Notifying)

\* The three sets are finite, so the counts are numbers.
LEMMA Counted ==
    ASSUME TypeOK
    PROVE  /\ IsFiniteSet(queue) /\ IsFiniteSet(Awake) /\ IsFiniteSet(Notifying)
           /\ Cardinality(queue) \in Nat
           /\ Cardinality(Awake) \in Nat
           /\ Cardinality(Notifying) \in Nat
<1>1. IsFiniteSet(Job)
  BY FS_Interval, MaxJobsAssumption DEF Job
<1>2. IsFiniteSet(queue)
  BY <1>1, FS_Subset DEF TypeOK
<1>3. IsFiniteSet(Awake)
  BY WorkersAssumption, FS_Subset DEF Awake
<1>4. IsFiniteSet(Notifying)
  BY SubmittersAssumption, FS_Subset DEF Notifying
<1>5. QED
  BY <1>2, <1>3, <1>4, FS_CardinalityType

\* The steps that leave the heap alone and take nobody off the way to it.
LEMMA AttendedKept ==
    ASSUME TypeOK, Attended, queue' = queue,
           Awake \subseteq Awake', Notifying \subseteq Notifying', Asleep' => Asleep
    PROVE  Attended'
<1>1. /\ Cardinality(Awake) <= Cardinality(Awake')
      /\ Cardinality(Notifying) <= Cardinality(Notifying')
  <2>1. IsFiniteSet(Awake') /\ IsFiniteSet(Notifying')
    BY SubmittersAssumption, WorkersAssumption, FS_Subset DEF Awake, Notifying
  <2>2. QED
    BY <2>1, FS_Subset
<1>2. /\ Cardinality(Awake') \in Nat
      /\ Cardinality(Notifying') \in Nat
  BY SubmittersAssumption, WorkersAssumption, FS_Subset, FS_CardinalityType
     DEF Awake, Notifying
<1>3. QED
  BY <1>1, <1>2, Counted DEF Attended

LEMMA AttendedEmpty ==
    ASSUME queue' = {}
    PROVE  Attended'
<1>1. /\ Cardinality(Awake') \in Nat
      /\ Cardinality(Notifying') \in Nat
  BY SubmittersAssumption, WorkersAssumption, FS_Subset, FS_CardinalityType
     DEF Awake, Notifying
<1>2. Cardinality(queue') = 0
  BY FS_EmptySet
<1>3. QED
  BY <1>1, <1>2 DEF Attended

LEMMA RegisterAttended ==
    ASSUME NEW c \in Submitters, IInv, Attended, Register(c)
    PROVE  Attended'
<1>1. TypeOK
  BY DEF IInv
<1>2. Notifying' = Notifying \cup {c} /\ c \notin Notifying
  BY <1>1 DEF Register, Notifying, TypeOK
<1>3. Cardinality(Notifying') = Cardinality(Notifying) + 1
  BY <1>1, <1>2, Counted, FS_AddElement
<1>4. Cardinality(queue') <= Cardinality(queue) + 1
  <2>1. PICK j : queue' = queue \cup {j}
    BY DEF Register
  <2>2. Cardinality(queue \cup {j}) = IF j \in queue THEN Cardinality(queue)
                                                     ELSE Cardinality(queue) + 1
    BY <1>1, Counted, FS_AddElement
  <2>3. QED
    BY <1>1, <2>1, <2>2, Counted
<1>5. Awake' = Awake /\ Asleep' = Asleep
  BY DEF Register, workerVars, Awake, Asleep
<1>6. Cardinality(queue') \in Nat
  BY <1>1, Counted, FS_AddElement, FS_CardinalityType DEF Register
<1>7. QED
  BY <1>1, <1>3, <1>4, <1>5, <1>6, Counted DEF Attended

\* A notification turns a sleeper into a worker on its way.
LEMMA NotifyAttended ==
    ASSUME NEW c \in Submitters, IInv, Attended, NotifyOne(c)
    PROVE  Attended'
<1>1. TypeOK
  BY DEF IInv
<1>2. Notifying' = Notifying \ {c} /\ c \in Notifying
  BY <1>1 DEF NotifyOne, Notifying, TypeOK
<1>3. Cardinality(Notifying') = Cardinality(Notifying) - 1
  BY <1>1, <1>2, Counted, FS_RemoveElement
<1>4. queue' = queue
  BY DEF NotifyOne, schedulerVars
<1>5. CASE \A w \in Workers : workerPc[w] # "waiting"
  <2>1. ~Asleep'
    BY <1>5 DEF NotifyOne, Asleep
  <2>2. QED
    BY <2>1 DEF Attended
<1>6. CASE Asleep
  <2>1. PICK w \in Workers : /\ workerPc[w] = "waiting"
                             /\ workerPc' = [workerPc EXCEPT ![w] = "idle"]
    BY <1>6 DEF NotifyOne, Asleep
  <2>2. Awake' = Awake \cup {w} /\ w \notin Awake
    BY <1>1, <2>1 DEF Awake, TypeOK
  <2>3. Cardinality(Awake') = Cardinality(Awake) + 1
    BY <1>1, <2>2, Counted, FS_AddElement
  <2>4. QED
    BY <1>1, <1>3, <1>4, <1>6, <2>3, Counted DEF Attended
<1>7. QED
  BY <1>5, <1>6 DEF Asleep

LEMMA PopAttended ==
    ASSUME NEW w \in Workers, IInv, Attended, Pop(w)
    PROVE  Attended'
<1>1. TypeOK
  BY DEF IInv
<1>2. PICK j \in queue : queue' = queue \ {j}
  BY DEF Pop
<1>3. Cardinality(queue') = Cardinality(queue) - 1
  BY <1>1, <1>2, Counted, FS_RemoveElement
<1>4. Awake' = Awake \ {w} /\ w \in Awake
  BY <1>1 DEF Pop, Goto, Awake, TypeOK
<1>5. Cardinality(Awake') = Cardinality(Awake) - 1
  BY <1>1, <1>4, Counted, FS_RemoveElement
<1>6. Notifying' = Notifying
  BY DEF Pop, submitterVars, Notifying
<1>7. Asleep' => Asleep
  BY <1>1 DEF Pop, Goto, Asleep, TypeOK
<1>8. QED
  BY <1>1, <1>3, <1>5, <1>6, <1>7, Counted DEF Attended

LEMMA WorkerAttended ==
    ASSUME NEW w \in Workers, IInv, Attended,
           WorkerStep(w) \/ SpuriousWakeup(w)
    PROVE  Attended'
<1>1. TypeOK
  BY DEF IInv
<1>2. CASE Pop(w)
  BY <1>2, PopAttended
<1>3. CASE Wait(w)
  BY <1>1, <1>3, AttendedEmpty DEF Wait, MustWait, schedulerVars
<1>4. CASE Exit(w)
  BY <1>1, <1>4, AttendedEmpty DEF Exit, IInv, Stopping, schedulerVars
<1>5. CASE \/ SkipCancelled(w) \/ StartOperation(w) \/ OperationReturns(w)
           \/ OperationPanics(w) \/ FinalCheck(w) \/ Send(w) \/ SpuriousWakeup(w)
  <2>1. /\ queue' = queue /\ UNCHANGED submitterVars
        /\ workerPc[w] # "idle"
        /\ \E pc : pc # "waiting" /\ workerPc' = [workerPc EXCEPT ![w] = pc]
    BY <1>5 DEF SkipCancelled, StartOperation, OperationReturns, OperationPanics,
       FinalCheck, Send, SpuriousWakeup, Goto, schedulerVars, submitterVars
  <2>2. Awake \subseteq Awake' /\ (Asleep' => Asleep)
    BY <1>1, <2>1 DEF Awake, Asleep, TypeOK
  <2>3. Notifying \subseteq Notifying'
    BY <2>1 DEF Notifying, submitterVars
  <2>4. QED
    BY <1>1, <2>1, <2>2, <2>3, AttendedKept
<1>6. QED
  BY <1>2, <1>3, <1>4, <1>5 DEF WorkerStep

LEMMA DropAttended ==
    ASSUME IInv, Attended, Drop
    PROVE  Attended'
<1>1. TypeOK
  BY DEF IInv
<1>2. CASE DropStop
  BY <1>1, <1>2, AttendedEmpty DEF DropStop
<1>3. CASE DropNotifyAll
  <2>1. ~Asleep'
    BY <1>1, <1>3 DEF DropNotifyAll, Asleep, TypeOK
  <2>2. QED
    BY <2>1 DEF Attended
<1>4. CASE DropJoin
  <2>1. queue' = queue /\ UNCHANGED <<workerPc, submitterPc>>
    BY <1>4 DEF DropJoin, schedulerVars, workerVars, submitterVars
  <2>2. QED
    BY <1>1, <2>1, AttendedKept DEF Awake, Notifying, Asleep
<1>5. QED
  BY <1>2, <1>3, <1>4 DEF Drop

LEMMA NextAttended == IInv /\ Attended /\ [Next]_vars => Attended'
<1>. SUFFICES ASSUME IInv, Attended, [Next]_vars PROVE Attended'
  OBVIOUS
<1>1. TypeOK
  BY DEF IInv
<1>2. ASSUME NEW c \in Submitters, NEW p \in Priorities, NEW k \in Keys \cup {NoKey},
             AllocateId(c, p, k)
      PROVE  Attended'
  <2>1. queue' = queue /\ workerPc' = workerPc
    BY <1>2 DEF AllocateId, schedulerVars, workerVars
  <2>2. Notifying \subseteq Notifying'
    BY <1>1, <1>2 DEF AllocateId, Notifying, TypeOK
  <2>3. QED
    BY <1>1, <2>1, <2>2, AttendedKept DEF Awake, Asleep
<1>3. ASSUME NEW j \in Job, Cancel(j) PROVE Attended'
  <2>1. queue' = queue /\ UNCHANGED <<workerPc, submitterPc>>
    BY <1>3 DEF Cancel, schedulerVars, workerVars, submitterVars
  <2>2. QED
    BY <1>1, <2>1, AttendedKept DEF Awake, Notifying, Asleep
<1>4. CASE UNCHANGED vars
  <2>1. queue' = queue /\ UNCHANGED <<workerPc, submitterPc>>
    BY <1>4 DEF vars, schedulerVars, workerVars, submitterVars
  <2>2. QED
    BY <1>1, <2>1, AttendedKept DEF Awake, Notifying, Asleep
<1>5. QED
  BY <1>1, <1>2, <1>3, <1>4, RegisterAttended, NotifyAttended, WorkerAttended,
     DropAttended DEF Next, Submit, Ended

LEMMA InitAttended == Init => Attended
<1>1. Init => ~Asleep
  BY DEF Init, Asleep
<1>2. QED
  BY <1>1 DEF Attended

\* No worker sleeps on the condition variable while a job is in the heap and
\* nobody is on the way to it, with any number of workers and submitters.
THEOREM NoWakeupIsLost == Spec => []NoLostWakeup
<1>1. IInv /\ Attended => NoLostWakeup
  <2>. SUFFICES ASSUME IInv, Attended, queue # {}, Asleep
                PROVE  Awake # {} \/ Notifying # {}
    BY DEF NoLostWakeup, Asleep, Awake, Notifying
  <2>1. TypeOK
    BY DEF IInv
  <2>2. Cardinality(queue) # 0
    BY <2>1, Counted, FS_EmptySet
  <2>3. Cardinality(Awake) # 0 \/ Cardinality(Notifying) # 0
    BY <2>1, <2>2, Counted DEF Attended
  <2>4. QED
    BY <2>3, FS_EmptySet
<1>2. QED
  BY InitAttended, NextAttended, InvIsInvariant, <1>1, PTL DEF Spec

-----------------------------------------------------------------------------
(* With a single submitting thread the ids are registered in order.        *)

\* What is drawn and not registered is the newest id.
DrawnIsNewest ==
    \A c \in Submitters : submitterPc[c] = "allocated" => submitterJob[c] + 1 = sequence

Ordered == DrawnIsNewest /\ SubmissionOrderHolds

LEMMA AllocateOrdered ==
    ASSUME NEW c \in Submitters, Submitters = {c}, IInv, Ordered,
           NEW p \in Priorities, NEW k \in Keys \cup {NoKey}, AllocateId(c, p, k)
    PROVE  Ordered'
<1> USE MaxJobsAssumption
<1>1. TypeOK
  BY DEF IInv
<1>2. Registered' = Registered
  BY <1>1 DEF AllocateId, Registered, TypeOK, Job
<1>3. \A j \in Registered : request'[j] = request[j]
  BY <1>1 DEF AllocateId, Registered, TypeOK, Job
<1>4. DrawnIsNewest'
  BY <1>1 DEF AllocateId, DrawnIsNewest, TypeOK
<1>5. queue \subseteq Registered
  BY DEF IInv, Placed
<1>6. QED
  BY <1>2, <1>3, <1>4, <1>5 DEF AllocateId, schedulerVars, Ordered, SubmissionOrderHolds,
     SurvivorIsNewest, NoOvertaking

\* The job that is registered is newer than all that were, and it cancels
\* the one survivor of its key.
LEMMA RegisterOrdered ==
    ASSUME NEW c \in Submitters, Submitters = {c}, IInv, IInv', Ordered, Register(c)
    PROVE  Ordered'
<1> USE MaxJobsAssumption
<1>. DEFINE j == submitterJob[c]
<1>1. TypeOK
  BY DEF IInv
<1>2. /\ j \in Job /\ j + 1 = sequence
      /\ submitterPc[c] = "allocated" /\ submitterPc'[c] = "pushed"
      /\ UNCHANGED <<sequence, request, submitterJob>>
      /\ queue' = queue \cup {j}
      /\ superseded' = Named(request[j].key, j)
      /\ cancelled \subseteq cancelled'
  BY <1>1 DEF Register, Ordered, DrawnIsNewest, TypeOK
<1>3. Registered' = Registered \cup {j}
  <2>1. \A i \in Job : i \in Registered <=> i < sequence /\ i # j
    BY <1>2 DEF Registered
  <2>2. \A i \in Job : i \in Registered' <=> i < sequence
    BY <1>2 DEF Registered
  <2>3. j < sequence
    BY <1>2 DEF Job
  <2>4. Registered \subseteq Job /\ Registered' \subseteq Job
    BY DEF Registered
  <2>5. QED
    BY <1>2, <2>1, <2>2, <2>3, <2>4
<1>4. \A i \in Registered : i \in Job /\ i < j
  BY <1>2 DEF Registered, Job
<1>5. DrawnIsNewest'
  BY <1>2 DEF DrawnIsNewest
<1>6. \A i \in Registered : request[i].key = request[j].key /\ request[i].key # NoKey
          => i \in cancelled'
  <2>1. request[j].key # NoKey => superseded'[request[j].key] = j
    BY <1>1, <1>2 DEF Named, TypeOK, Request
  <2>2. QED
    BY <1>2, <1>3, <1>4, <2>1 DEF IInv, Keyed, OneSurvivorPerKey, Job
<1>7. SurvivorIsNewest'
  BY <1>2, <1>3, <1>4, <1>6 DEF Ordered, SubmissionOrderHolds, SurvivorIsNewest, Job
<1>8. NoOvertaking'
  BY <1>2, <1>3, <1>4 DEF Ordered, SubmissionOrderHolds, NoOvertaking, Job
<1>9. QED
  BY <1>5, <1>7, <1>8 DEF Ordered, SubmissionOrderHolds

\* The job that leaves the heap is before every other in it.
LEMMA PopOrdered ==
    ASSUME NEW w \in Workers, IInv, Ordered, Pop(w)
    PROVE  Ordered'
<1>1. TypeOK
  BY DEF IInv
<1>2. PICK j \in queue : /\ \A i \in queue \ {j} : Before(j, i)
                         /\ queue' = queue \ {j}
  BY DEF Pop
<1>3. UNCHANGED <<submitterVars, cancelled>> /\ Registered' = Registered
  BY DEF Pop, submitterVars, Registered
<1>4. \A i \in queue : request[i].priority \in Nat /\ i \in Nat
  BY <1>1, MaxJobsAssumption DEF TypeOK, Request, Job
<1>5. NoOvertaking'
  BY <1>2, <1>3, <1>4 DEF Ordered, SubmissionOrderHolds, NoOvertaking, Before, submitterVars
<1>6. QED
  BY <1>3, <1>5 DEF Ordered, DrawnIsNewest, SubmissionOrderHolds, SurvivorIsNewest,
     submitterVars

\* The other steps draw no id, register nothing and empty the heap or leave
\* it alone.
LEMMA OthersOrdered ==
    ASSUME Ordered, queue' = queue \/ queue' = {}, cancelled \subseteq cancelled',
           UNCHANGED <<sequence, request>>, Registered' = Registered,
           \A c \in Submitters : submitterPc'[c] = "allocated" =>
               submitterPc[c] = "allocated" /\ submitterJob'[c] = submitterJob[c]
    PROVE  Ordered'
BY DEF Ordered, DrawnIsNewest, SubmissionOrderHolds, SurvivorIsNewest, NoOvertaking

LEMMA NextOrdered ==
    ASSUME NEW c \in Submitters, Submitters = {c}, IInv, IInv', Ordered, [Next]_vars
    PROVE  Ordered'
<1>1. TypeOK
  BY DEF IInv
<1>2. CASE NotifyOne(c)
  <2>1. Registered' = Registered
    BY <1>1, <1>2 DEF NotifyOne, Registered, TypeOK
  <2>2. QED
    BY <1>1, <1>2, <2>1, OthersOrdered DEF NotifyOne, schedulerVars, TypeOK
<1>3. ASSUME NEW w \in Workers, WorkerStep(w) \/ SpuriousWakeup(w), ~Pop(w)
      PROVE  Ordered'
  <2>1. queue' = queue /\ UNCHANGED <<submitterVars, cancelled>>
    BY <1>3 DEF WorkerStep, Wait, Exit, SkipCancelled, StartOperation, OperationReturns,
       OperationPanics, FinalCheck, Send, SpuriousWakeup, schedulerVars
  <2>2. QED
    BY <2>1, OthersOrdered DEF submitterVars, Registered
<1>4. ASSUME NEW j \in Job, Cancel(j) PROVE Ordered'
  <2>1. queue' = queue /\ UNCHANGED submitterVars /\ cancelled \subseteq cancelled'
    BY <1>4 DEF Cancel, schedulerVars
  <2>2. QED
    BY <2>1, OthersOrdered DEF submitterVars, Registered
<1>5. CASE Drop
  <2>1. /\ queue' = queue \/ queue' = {}
        /\ UNCHANGED submitterVars
        /\ cancelled \subseteq cancelled'
    BY <1>5 DEF Drop, DropStop, DropNotifyAll, DropJoin, schedulerVars
  <2>2. QED
    BY <2>1, OthersOrdered DEF submitterVars, Registered
<1>6. CASE UNCHANGED vars
  <2>1. queue' = queue /\ UNCHANGED <<submitterVars, cancelled>>
    BY <1>6 DEF vars, schedulerVars
  <2>2. QED
    BY <2>1, OthersOrdered DEF submitterVars, Registered
<1>7. QED
  BY <1>2, <1>3, <1>4, <1>5, <1>6, AllocateOrdered, RegisterOrdered, PopOrdered
     DEF Next, Submit, Ended

\* With a single submitting thread, of all the jobs of a key only the newest
\* is not cancelled, and no job leaves the heap while one that was submitted
\* before it at the same or a higher priority is still in it.
THEOREM OneSubmitterKeepsOrder ==
    ASSUME NEW c, Submitters = {c}
    PROVE  Spec => []SubmissionOrderHolds
<1>1. Init => Ordered
  BY DEF Init, Ordered, DrawnIsNewest, SubmissionOrderHolds, SurvivorIsNewest,
     NoOvertaking, Registered, Job
<1>2. IInv /\ IInv' /\ Ordered /\ [Next]_vars => Ordered'
  BY NextOrdered
<1>3. Ordered => SubmissionOrderHolds
  BY DEF Ordered
<1>4. QED
  BY <1>1, <1>2, <1>3, InvIsInvariant, PTL DEF Spec

-----------------------------------------------------------------------------
(* The scheduler implements JobPromise.                                    *)

(* What Status is in each of the places a job can be.                      *)

Holds(w, j) == workerPc[w] \in Busy /\ workerJob[w] = j

LEMMA HolderIsAlone ==
    ASSUME IInv, NEW w \in Workers, NEW j \in Job, Holds(w, j)
    PROVE  /\ Holders(j) = {w}
           /\ j \in Registered /\ j \notin queue /\ channel[j] = "empty"
<1>1. /\ j \in Registered \ queue /\ channel[j] = "empty"
      /\ \A v \in Workers : Holds(v, j) => v = w
  BY DEF IInv, Placed, Holds
<1>2. Holders(j) = {w}
  BY <1>1 DEF Holders, Holds
<1>3. QED
  BY <1>1, <1>2

LEMMA AbsentStatus ==
    ASSUME IInv, NEW j \in Job, j \notin Registered
    PROVE  Status(j) = "absent"
<1>1. j \notin queue /\ Holders(j) = {}
  BY HolderIsAlone DEF IInv, Placed, Holders, Holds
<1>2. QED
  BY <1>1 DEF Status

LEMMA QueuedStatus ==
    ASSUME IInv, NEW j \in queue
    PROVE  j \in Registered /\ Status(j) = "pending"
<1>1. j \in Registered
  BY DEF IInv, Placed
<1>2. Holders(j) = {}
  BY HolderIsAlone DEF Holders, Holds, Registered, IInv, Placed
<1>3. QED
  BY <1>1, <1>2 DEF Status

LEMMA AnsweredStatus ==
    ASSUME IInv, NEW j \in Job, channel[j] # "empty"
    PROVE  j \in Registered /\ Status(j) = HandleReads(j)
<1>1. j \in Registered /\ j \notin queue
  BY DEF IInv, Placed
<1>2. Holders(j) = {}
  BY HolderIsAlone DEF Holders, Holds
<1>3. QED
  BY <1>1, <1>2 DEF Status

\* What the work a holder has done makes of its job.
Progress(pc, result) ==
    CASE pc = "checking" -> "pending"
      [] pc = "running" -> "executing"
      [] pc = "returned" -> "executing"
      [] pc = "sending" -> result

LEMMA HeldStatus ==
    ASSUME IInv, NEW w \in Workers, NEW j \in Job, Holds(w, j)
    PROVE  Status(j) = Progress(workerPc[w], workerResult[w])
<1>1. Holders(j) = {w} /\ j \in Registered /\ j \notin queue
  BY HolderIsAlone
<1>2. workerPc[w] \in Busy /\ workerResult[w] \in Results
  BY DEF Holds, IInv, TypeOK
<1>3. CASE workerPc[w] \in {"checking", "running", "returned"}
  BY <1>1, <1>3 DEF Status, Progress
<1>4. CASE workerPc[w] = "sending"
  <2>. DEFINE sent == CHOOSE r \in Results :
                 \E v \in Holders(j) : workerPc[v] = "sending" /\ r = workerResult[v]
  <2>1. Status(j) = sent
    BY <1>1, <1>4 DEF Status
  <2>2. \A r \in Results :
            (\E v \in Holders(j) : workerPc[v] = "sending" /\ r = workerResult[v])
            <=> r = workerResult[w]
    BY <1>1, <1>4
  <2>3. sent = CHOOSE r \in Results : r = workerResult[w]
    BY <2>2
  <2>4. sent = workerResult[w]
    BY <2>3, <1>2
  <2>5. QED
    BY <2>1, <2>4, <1>4 DEF Progress
<1>5. QED
  BY <1>2, <1>3, <1>4 DEF Busy

\* A job is somewhere.
LEMMA Somewhere ==
    ASSUME IInv, NEW j \in Job
    PROVE  \/ j \notin Registered
           \/ j \in queue
           \/ channel[j] # "empty"
           \/ \E w \in Workers : Holds(w, j)
BY DEF IInv, Placed, Holds

\* The status of a job, read off its place.
PlaceTells ==
    /\ \A j \in Job \ Registered : Status(j) = "absent"
    /\ \A j \in queue : j \in Registered /\ Status(j) = "pending"
    /\ \A j \in Job : channel[j] # "empty" => j \in Registered /\ Status(j) = HandleReads(j)
    /\ \A w \in Workers, j \in Job :
          Holds(w, j) => j \in Registered /\ Status(j) = Progress(workerPc[w], workerResult[w])

LEMMA PlaceTellsNow == IInv => PlaceTells
<1>. SUFFICES ASSUME IInv PROVE PlaceTells
  OBVIOUS
<1>1. \A w \in Workers, j \in Job :
          Holds(w, j) => j \in Registered /\ Status(j) = Progress(workerPc[w], workerResult[w])
  BY HolderIsAlone, HeldStatus
<1>2. QED
  BY <1>1, AbsentStatus, QueuedStatus, AnsweredStatus DEF PlaceTells

LEMMA PlaceTellsNext == IInv' => PlaceTells'
BY PlaceTellsNow, PTL

LEMMA KnownStatus ==
    ASSUME IInv, NEW j \in Registered
    PROVE  j \in Job /\ Status(j) # "absent"
<1>0. PlaceTells /\ j \in Job
  BY PlaceTellsNow DEF Registered
<1>1. CASE j \in queue
  BY <1>0, <1>1 DEF PlaceTells
<1>2. CASE channel[j] # "empty"
  BY <1>0, <1>2 DEF PlaceTells, HandleReads, IInv, TypeOK, Results
<1>3. ASSUME NEW w \in Workers, Holds(w, j)
      PROVE  Status(j) # "absent"
  BY <1>0, <1>3 DEF PlaceTells, Progress, Holds, Busy, IInv, TypeOK, Results
<1>4. QED
  BY <1>0, <1>1, <1>2, <1>3, Somewhere

\* A job that stays where it is keeps its status.
Unmoved(j) ==
    /\ j \in Registered' <=> j \in Registered
    /\ j \in queue => j \in queue'
    /\ channel'[j] = channel[j]
    /\ \A w \in Workers : Holds(w, j) =>
          UNCHANGED <<workerPc[w], workerJob[w], workerResult[w]>>

LEMMA UnmovedStatus ==
    ASSUME IInv, IInv', NEW j \in Job, Unmoved(j)
    PROVE  Status(j)' = Status(j)
<1>0. PlaceTells /\ PlaceTells'
  BY PlaceTellsNow, PlaceTellsNext
<1>1. CASE j \notin Registered
  BY <1>0, <1>1 DEF Unmoved, PlaceTells
<1>2. CASE j \in queue
  BY <1>0, <1>2 DEF Unmoved, PlaceTells
<1>3. CASE channel[j] # "empty"
  BY <1>0, <1>3 DEF Unmoved, PlaceTells, HandleReads
<1>4. ASSUME NEW w \in Workers, Holds(w, j)
      PROVE  Status(j)' = Status(j)
  <2>1. Holds(w, j)' /\ UNCHANGED <<workerPc[w], workerResult[w]>>
    BY <1>4 DEF Unmoved, Holds
  <2>2. QED
    BY <1>0, <1>4, <2>1 DEF PlaceTells, Progress
<1>5. QED
  BY <1>1, <1>2, <1>3, <1>4, Somewhere

-----------------------------------------------------------------------------
(* The steps, seen from the promise.                                       *)

\* No job's life goes on, and nobody cancels or closes.
Resting ==
    /\ \A j \in Job : Status(j)' = Status(j)
    /\ \A j \in Registered : request'[j] = request[j]
    /\ Registered' = Registered
    /\ UNCHANGED <<cancelled, stopped>>

LEMMA RestingStutters == Resting => UNCHANGED Promise!promiseVars
BY DEF Resting, Promise!promiseVars, Registered

\* One job's life goes on.
Advances(j, from, to) ==
    /\ j \in Job
    /\ Status(j) = from
    /\ Status(j)' = to
    /\ \A i \in Job \ {j} : Status(i)' = Status(i)
    /\ UNCHANGED <<request, stopped, cancelled>>
    /\ Registered' = Registered

LEMMA AdvancesResolves ==
    ASSUME NEW j, NEW from, NEW to, Advances(j, from, to)
    PROVE  j \in Job /\ Promise!Resolve(j, from, to)
BY DEF Advances, Promise!Resolve

LEMMA AllocateRests ==
    ASSUME NEW c \in Submitters, NEW p \in Priorities, NEW k \in Keys \cup {NoKey},
           IInv, IInv', AllocateId(c, p, k)
    PROVE  Resting
<1> USE MaxJobsAssumption
<1>1. Registered' = Registered /\ \A j \in Registered : request'[j] = request[j]
  BY DEF AllocateId, Registered, IInv, TypeOK, Job
<1>2. \A j \in Job : Unmoved(j)
  BY <1>1 DEF AllocateId, Unmoved, schedulerVars, workerVars
<1>3. QED
  BY <1>1, <1>2, UnmovedStatus DEF Resting, AllocateId, schedulerVars

LEMMA NotifyRests ==
    ASSUME NEW c \in Submitters, IInv, IInv', NotifyOne(c)
    PROVE  Resting
<1>1. Registered' = Registered
  BY DEF NotifyOne, Registered, IInv, TypeOK
<1>2. \A w \in Workers : workerPc[w] \in Busy => workerPc'[w] = workerPc[w]
  BY DEF NotifyOne, IInv, TypeOK, Busy
<1>3. \A j \in Job : Unmoved(j)
  BY <1>1, <1>2 DEF NotifyOne, Unmoved, Holds, schedulerVars
<1>4. QED
  BY <1>1, <1>3, UnmovedStatus DEF Resting, NotifyOne, schedulerVars

LEMMA IdleRests ==
    ASSUME NEW w \in Workers, IInv, IInv', Wait(w) \/ SpuriousWakeup(w) \/ Exit(w)
    PROVE  Resting
<1>1. /\ UNCHANGED <<submitterVars, schedulerVars, cancelled, channel, workerJob, workerResult>>
      /\ \A v \in Workers : workerPc[v] \in Busy => workerPc'[v] = workerPc[v]
  BY DEF Wait, SpuriousWakeup, Exit, Goto, Busy, IInv, TypeOK
<1>2. Registered' = Registered
  BY <1>1 DEF Registered, submitterVars
<1>3. \A j \in Job : Unmoved(j)
  BY <1>1, <1>2 DEF Unmoved, Holds, schedulerVars
<1>4. QED
  BY <1>1, <1>2, <1>3, UnmovedStatus DEF Resting, schedulerVars, submitterVars

\* The jobs a step of a worker does not touch.
LEMMA OthersUnmoved ==
    ASSUME NEW w \in Workers, NEW j \in Job, IInv, IInv',
           \A v \in Workers \ {w} : UNCHANGED <<workerPc[v], workerJob[v], workerResult[v]>>,
           ~Holds(w, j), j \in queue => j \in queue', channel'[j] = channel[j],
           Registered' = Registered
    PROVE  Status(j)' = Status(j)
<1>1. Unmoved(j)
  BY DEF Unmoved
<1>2. QED
  BY <1>1, UnmovedStatus

\* Taking a job out of the heap does not show: it is pending before and after.
LEMMA PopRests ==
    ASSUME NEW w \in Workers, IInv, IInv', Pop(w)
    PROVE  Resting
<1>0. PlaceTells /\ PlaceTells'
  BY PlaceTellsNow, PlaceTellsNext
<1>1. PICK j \in queue : /\ queue' = queue \ {j}
                         /\ workerJob' = [workerJob EXCEPT ![w] = j]
  BY DEF Pop
<1>2. /\ workerPc[w] = "idle" /\ workerPc' = [workerPc EXCEPT ![w] = "checking"]
      /\ UNCHANGED <<submitterVars, superseded, stopped, cancelled, channel, workerResult>>
  BY DEF Pop, Goto
<1>3. j \in Job /\ Registered' = Registered
  BY <1>2 DEF Registered, submitterVars, IInv, TypeOK
<1>4. Status(j) = "pending"
  BY <1>0 DEF PlaceTells
<1>5. Holds(w, j)' /\ workerPc'[w] = "checking"
  BY <1>1, <1>2 DEF Holds, Busy, IInv, TypeOK
<1>6. Status(j)' = "pending"
  BY <1>0, <1>3, <1>5 DEF PlaceTells, Progress
<1>7. \A v \in Workers \ {w} : UNCHANGED <<workerPc[v], workerJob[v], workerResult[v]>>
  BY <1>1, <1>2 DEF IInv, TypeOK
<1>8. \A i \in Job \ {j} : Status(i)' = Status(i)
  <2>. SUFFICES ASSUME NEW i \in Job \ {j} PROVE Status(i)' = Status(i)
    OBVIOUS
  <2>1. ~Holds(w, i)
    BY <1>2 DEF Holds, Busy
  <2>2. QED
    BY <1>1, <1>2, <1>3, <1>7, <2>1, OthersUnmoved
<1>9. QED
  BY <1>2, <1>3, <1>4, <1>6, <1>8 DEF Resting, submitterVars

\* A busy worker that keeps its job takes it from one stage to the next.
LEMMA WorkAdvances ==
    ASSUME NEW w \in Workers, NEW j \in Job, workerJob[w] = j, IInv, IInv',
           NEW from \in Busy, NEW to \in Busy, NEW result,
           workerPc[w] = from, workerPc' = [workerPc EXCEPT ![w] = to],
           workerResult' = [workerResult EXCEPT ![w] = result],
           UNCHANGED <<submitterVars, schedulerVars, cancelled, channel, workerJob>>
    PROVE  Advances(j, Progress(from, workerResult[w]), Progress(to, result))
<1>0. PlaceTells /\ PlaceTells'
  BY PlaceTellsNow, PlaceTellsNext
<1>1. /\ Holds(w, j) /\ Holds(w, j)'
      /\ workerPc'[w] = to /\ workerResult'[w] = result
  BY DEF Holds, IInv, TypeOK
<1>2. Status(j) = Progress(from, workerResult[w])
  BY <1>0, <1>1 DEF PlaceTells
<1>3. Status(j)' = Progress(to, result)
  BY <1>0, <1>1 DEF PlaceTells, Progress
<1>4. Registered' = Registered
  BY DEF Registered, submitterVars
<1>5. \A i \in Job \ {j} : Status(i)' = Status(i)
  <2>. SUFFICES ASSUME NEW i \in Job \ {j} PROVE Status(i)' = Status(i)
    OBVIOUS
  <2>1. ~Holds(w, i)
    BY DEF Holds
  <2>2. \A v \in Workers \ {w} : UNCHANGED <<workerPc[v], workerJob[v], workerResult[v]>>
    BY DEF IInv, TypeOK
  <2>3. QED
    BY <1>4, <2>1, <2>2, OthersUnmoved DEF schedulerVars
<1>6. QED
  BY <1>1, <1>2, <1>3, <1>4, <1>5 DEF Advances, schedulerVars, submitterVars

LEMMA WorkKeepsThePromise ==
    ASSUME NEW w \in Workers, IInv, IInv',
           \/ SkipCancelled(w) \/ StartOperation(w) \/ OperationReturns(w)
           \/ OperationPanics(w) \/ FinalCheck(w)
    PROVE  [Promise!PromiseNext]_(Promise!promiseVars)
<1>. DEFINE r == workerResult[w]
<1>. SUFFICES ASSUME NEW j \in Job, workerJob[w] = j
              PROVE  [Promise!PromiseNext]_(Promise!promiseVars)
  BY DEF SkipCancelled, StartOperation, OperationReturns, OperationPanics, FinalCheck,
     Busy, IInv, TypeOK
<1>0. /\ workerPc \in [Workers -> Busy \cup {"idle", "waiting", "exited"}]
      /\ workerResult \in [Workers -> Results]
      /\ workerResult = [workerResult EXCEPT ![w] = r]
      /\ {"checking", "running", "returned", "sending"} \subseteq Busy
  BY DEF IInv, TypeOK, Busy
<1>1. CASE SkipCancelled(w)
  <2>0. /\ workerPc[w] = "checking" /\ workerPc' = [workerPc EXCEPT ![w] = "sending"]
        /\ workerResult' = [workerResult EXCEPT ![w] = "cancelled"]
        /\ UNCHANGED <<submitterVars, schedulerVars, cancelled, channel, workerJob>>
    BY <1>0, <1>1 DEF SkipCancelled, Goto
  <2>1. Advances(j, Progress("checking", r), Progress("sending", "cancelled"))
    BY <1>0, <2>0, WorkAdvances
  <2>2. Advances(j, "pending", "cancelled") /\ j \in cancelled
    BY <1>1, <2>1 DEF Progress, SkipCancelled, Skips
  <2>3. j \in Job /\ Promise!Refuse(j)
    BY <2>2, AdvancesResolves DEF Promise!Refuse
  <2>4. QED
    BY <2>3 DEF Promise!PromiseNext
<1>2. CASE StartOperation(w)
  <2>0. /\ workerPc[w] = "checking" /\ workerPc' = [workerPc EXCEPT ![w] = "running"]
        /\ workerResult' = [workerResult EXCEPT ![w] = r]
        /\ UNCHANGED <<submitterVars, schedulerVars, cancelled, channel, workerJob>>
    BY <1>0, <1>2 DEF StartOperation, Goto
  <2>1. Advances(j, Progress("checking", r), Progress("running", r))
    BY <1>0, <2>0, WorkAdvances
  <2>2. Advances(j, "pending", "executing") /\ j \notin cancelled
    BY <1>2, <2>1 DEF Progress, StartOperation, Skips
  <2>3. j \in Job /\ Promise!Execute(j)
    BY <2>2, AdvancesResolves DEF Promise!Execute
  <2>4. QED
    BY <2>3 DEF Promise!PromiseNext
<1>3. CASE OperationReturns(w)
  <2>0. /\ workerPc[w] = "running" /\ workerPc' = [workerPc EXCEPT ![w] = "returned"]
        /\ workerResult' = [workerResult EXCEPT ![w] = r]
        /\ UNCHANGED <<submitterVars, schedulerVars, cancelled, channel, workerJob>>
    BY <1>0, <1>3 DEF OperationReturns, Goto
  <2>1. Advances(j, Progress("running", r), Progress("returned", r))
    BY <1>0, <2>0, WorkAdvances
  <2>2. Advances(j, "executing", "executing")
    BY <2>1 DEF Progress
  <2>3. Resting
    BY <2>2 DEF Advances, Resting
  <2>4. QED
    BY <2>3, RestingStutters
<1>4. CASE OperationPanics(w)
  <2>0. /\ workerPc[w] = "running" /\ workerPc' = [workerPc EXCEPT ![w] = "sending"]
        /\ workerResult' = [workerResult EXCEPT ![w] = "panicked"]
        /\ UNCHANGED <<submitterVars, schedulerVars, cancelled, channel, workerJob>>
    BY <1>0, <1>4 DEF OperationPanics, Goto
  <2>1. Advances(j, Progress("running", r), Progress("sending", "panicked"))
    BY <1>0, <2>0, WorkAdvances
  <2>2. Advances(j, "executing", "panicked")
    BY <2>1 DEF Progress
  <2>3. j \in Job /\ Promise!Contain(j)
    BY <2>2, AdvancesResolves DEF Promise!Contain
  <2>4. QED
    BY <2>3 DEF Promise!PromiseNext
<1>5. CASE FinalCheck(w)
  <2>0. /\ workerPc[w] = "returned" /\ workerPc' = [workerPc EXCEPT ![w] = "sending"]
        /\ workerResult' = [workerResult EXCEPT ![w] = Verdict(j)]
        /\ UNCHANGED <<submitterVars, schedulerVars, cancelled, channel, workerJob>>
    BY <1>0, <1>5 DEF FinalCheck, Goto
  <2>1. Advances(j, Progress("returned", r), Progress("sending", Verdict(j)))
    BY <1>0, <2>0, WorkAdvances
  <2>2. Advances(j, "executing", Verdict(j))
    BY <2>1 DEF Progress
  <2>3. j \in Job /\ (Promise!Publish(j) \/ Promise!Withhold(j))
    BY <2>2, AdvancesResolves DEF Verdict, Promise!Publish, Promise!Withhold
  <2>4. QED
    BY <2>3 DEF Promise!PromiseNext
<1>6. QED
  BY <1>1, <1>2, <1>3, <1>4, <1>5

\* What a worker sends is what it had decided on.
LEMMA SendRests ==
    ASSUME NEW w \in Workers, IInv, IInv', Send(w)
    PROVE  Resting
<1>. SUFFICES ASSUME NEW j, workerJob[w] = j
              PROVE  Resting
  OBVIOUS
<1>0. PlaceTells /\ PlaceTells'
  BY PlaceTellsNow, PlaceTellsNext
<1>1. /\ workerPc[w] = "sending" /\ workerPc' = [workerPc EXCEPT ![w] = "idle"]
      /\ workerJob' = [workerJob EXCEPT ![w] = NoJob]
      /\ workerResult' = [workerResult EXCEPT ![w] = "ok"]
      /\ channel' = [channel EXCEPT ![j] = workerResult[w]]
      /\ UNCHANGED <<submitterVars, schedulerVars, cancelled>>
  BY DEF Send, Goto
<1>2. j \in Job /\ Holds(w, j) /\ workerResult[w] \in Results
  BY <1>1 DEF Holds, Busy, IInv, TypeOK
<1>3. Status(j) = workerResult[w]
  BY <1>0, <1>1, <1>2 DEF PlaceTells, Progress
<1>4. channel'[j] = workerResult[w]
  BY <1>1, <1>2 DEF IInv, TypeOK
<1>5. Status(j)' = workerResult[w]
  <2>1. channel'[j] # "empty" /\ HandleReads(j)' = workerResult[w]
    BY <1>2, <1>4 DEF HandleReads, Results
  <2>2. QED
    BY <1>0, <1>2, <2>1 DEF PlaceTells
<1>6. Registered' = Registered
  BY <1>1 DEF Registered, submitterVars
<1>7. \A i \in Job \ {j} : Status(i)' = Status(i)
  <2>. SUFFICES ASSUME NEW i \in Job \ {j} PROVE Status(i)' = Status(i)
    OBVIOUS
  <2>1. ~Holds(w, i) /\ channel'[i] = channel[i]
    BY <1>1 DEF Holds, IInv, TypeOK
  <2>2. \A v \in Workers \ {w} : UNCHANGED <<workerPc[v], workerJob[v], workerResult[v]>>
    BY <1>1 DEF IInv, TypeOK
  <2>3. QED
    BY <1>1, <1>6, <2>1, <2>2, OthersUnmoved DEF schedulerVars
<1>8. \A i \in Job : Status(i)' = Status(i)
  BY <1>3, <1>5, <1>7
<1>9. QED
  BY <1>1, <1>6, <1>8 DEF Resting, schedulerVars, submitterVars

\* The map names only the last job of a key, yet all of them are cancelled.
LEMMA RegisterAccepts ==
    ASSUME NEW c \in Submitters, IInv, IInv', Register(c)
    PROVE  [Promise!PromiseNext]_(Promise!promiseVars)
<1>. SUFFICES ASSUME NEW j, submitterJob[c] = j, NEW k, request[j].key = k
              PROVE  [Promise!PromiseNext]_(Promise!promiseVars)
  OBVIOUS
<1>0. PlaceTells /\ PlaceTells'
  BY PlaceTellsNow, PlaceTellsNext
<1>1. /\ j \in Job /\ k \in Keys \cup {NoKey} /\ ~stopped
      /\ submitterPc[c] = "allocated"
      /\ submitterPc' = [submitterPc EXCEPT ![c] = "pushed"]
      /\ UNCHANGED <<sequence, request, stopped, channel, submitterJob,
                     workerPc, workerJob, workerResult>>
      /\ queue' = queue \cup {j}
      /\ cancelled' = cancelled \cup Replaced(k)
  BY DEF Register, IInv, TypeOK, Request, SubmittersApart, Stopping, workerVars
<1>2. j \notin Registered
  BY <1>1 DEF Registered
<1>3. Registered' = Registered \cup {j}
  BY <1>1 DEF Registered, IInv, SubmittersApart, TypeOK
<1>4. Status(j) = "absent" /\ Status(j)' = "pending"
  BY <1>0, <1>1, <1>2 DEF PlaceTells
<1>5. \A i \in Job \ {j} : Status(i)' = Status(i)
  BY <1>1, <1>3, UnmovedStatus DEF Unmoved
<1>6. \A i \in Job : Status(i) # "absent" => i \in Registered
  BY <1>0 DEF PlaceTells
<1>7. \A i \in Registered : i \in Job /\ Status(i) # "absent"
  BY KnownStatus
<1>8. cancelled' = cancelled \cup {i \in Registered : request[i].key = k /\ k # NoKey}
  <2>1. CASE k = NoKey
    BY <1>1, <2>1, KeysAssumption DEF Replaced
  <2>2. CASE k \in Keys
    <3>1. Replaced(k) = {superseded[k]} \ {NoJob} /\ k # NoKey
      BY <2>2, KeysAssumption DEF Replaced
    <3>2. superseded[k] # NoJob => superseded[k] \in Registered /\ request[superseded[k]].key = k
      BY <2>2 DEF IInv, Keyed
    <3>3. \A i \in Registered : request[i].key = k /\ i \notin cancelled =>
              superseded[k] = i /\ i # NoJob
      BY <3>1, NoJobAssumption DEF IInv, Keyed, OneSurvivorPerKey, Registered
    <3>4. QED
      BY <1>1, <3>1, <3>2, <3>3
  <2>3. QED
    BY <1>1, <2>1, <2>2
<1>9. Promise!Accept(j, k)
  <2>. DEFINE status == [i \in Job |-> Status(i)]
              key == [i \in Job |-> IF i \in Registered THEN request[i].key ELSE NoKey]
  <2>1. status' = [status EXCEPT ![j] = "pending"]
    BY <1>1, <1>4, <1>5
  <2>2. key' = [key EXCEPT ![j] = k]
    BY <1>1, <1>3
  <2>3. {i \in Job : status[i] # "absent"} = Registered
    BY <1>6, <1>7
  <2>4. \A i \in Registered : key[i] = request[i].key
    BY <1>7
  <2>5. cancelled' = cancelled \cup
            {i \in {l \in Job : status[l] # "absent"} : key[i] = k /\ k # NoKey}
    BY <1>8, <2>3, <2>4
  <2>6. status[j] = "absent"
    BY <1>1, <1>4
  <2>7. QED
    BY <1>1, <2>1, <2>2, <2>5, <2>6 DEF Promise!Accept, Promise!Known
<1>10. \E i \in Job, l \in Keys \cup {NoKey} : Promise!Accept(i, l)
  BY <1>1, <1>9
<1>11. QED
  BY <1>10 DEF Promise!PromiseNext

LEMMA CancelKeepsThePromise ==
    ASSUME NEW j \in Job, IInv, IInv', Cancel(j)
    PROVE  [Promise!PromiseNext]_(Promise!promiseVars)
<1>1. /\ UNCHANGED <<submitterVars, schedulerVars, channel, workerVars>>
      /\ cancelled' = cancelled \cup {j} /\ j \in Registered
  BY DEF Cancel, Held
<1>2. Registered' = Registered
  BY <1>1 DEF Registered, submitterVars
<1>3. \A i \in Job : Status(i)' = Status(i)
  <2>1. \A i \in Job : Unmoved(i)
    BY <1>1, <1>2 DEF Unmoved, schedulerVars, workerVars
  <2>2. QED
    BY <2>1, UnmovedStatus
<1>4. Status(j) # "absent"
  BY <1>1, KnownStatus
<1>5. Promise!CancelOne(j)
  BY <1>1, <1>2, <1>3, <1>4 DEF Promise!CancelOne, Promise!Known, submitterVars, schedulerVars
<1>6. QED
  BY <1>5 DEF Promise!PromiseNext

\* Drop walks the map, and cancels every keyed job that was not cancelled.
LEMMA DropCloses ==
    ASSUME IInv, IInv', DropStop
    PROVE  [Promise!PromiseNext]_(Promise!promiseVars)
<1>0. PlaceTells /\ PlaceTells'
  BY PlaceTellsNow, PlaceTellsNext
<1>1. /\ UNCHANGED <<submitterVars, workerVars>>
      /\ cancelled' = cancelled \cup CurrentTokens
      /\ channel' = [j \in Job |-> ClosedByClear(j)]
      /\ ~stopped /\ stopped' /\ stopped \in BOOLEAN /\ stopped' \in BOOLEAN
  BY DEF DropStop, IInv, Stopping, TypeOK
<1>2. Registered' = Registered
  BY <1>1 DEF Registered, submitterVars
<1>3. \A j \in queue : j \in Job /\ Status(j) = "pending" /\ Status(j)' = "stopped"
  <2>. SUFFICES ASSUME NEW j \in queue
                PROVE  j \in Job /\ Status(j) = "pending" /\ Status(j)' = "stopped"
    OBVIOUS
  <2>1. j \in Job /\ channel'[j] = "closed"
    BY <1>1 DEF ClosedByClear, IInv, TypeOK
  <2>2. HandleReads(j)' = "stopped"
    BY <2>1 DEF HandleReads
  <2>3. QED
    BY <1>0, <2>1, <2>2 DEF PlaceTells
<1>4. \A j \in Job \ queue : Status(j)' = Status(j)
  <2>1. \A j \in Job \ queue : Unmoved(j)
    BY <1>1, <1>2 DEF Unmoved, ClosedByClear, workerVars
  <2>2. QED
    BY <2>1, UnmovedStatus
<1>5. \A j \in Job : Status(j) # "absent" <=> j \in Registered
  BY <1>0, KnownStatus DEF PlaceTells
<1>6. cancelled' = cancelled \cup {j \in Registered : request[j].key # NoKey}
  <2>1. \A k \in Keys : superseded[k] # NoJob =>
            superseded[k] \in Registered /\ request[superseded[k]].key = k /\ k # NoKey
    BY KeysAssumption DEF IInv, Keyed
  <2>2. \A j \in Registered : request[j].key # NoKey /\ j \notin cancelled =>
            request[j].key \in Keys /\ superseded[request[j].key] = j /\ j # NoJob
    BY NoJobAssumption DEF IInv, Keyed, OneSurvivorPerKey, Registered, TypeOK, Request
  <2>3. QED
    BY <1>1, <2>1, <2>2 DEF CurrentTokens
<1>7. Promise!Close
  <2>1. queue \in SUBSET {j \in Job : Status(j) = "pending"}
    BY <1>3
  <2>2. [j \in Job |-> Status(j)]' = [j \in Job |-> IF j \in queue THEN "stopped" ELSE Status(j)]
    BY <1>3, <1>4
  <2>. DEFINE status == [j \in Job |-> Status(j)]
              key == [j \in Job |-> IF j \in Registered THEN request[j].key ELSE NoKey]
  <2>3. key' = key
    BY <1>1, <1>2 DEF submitterVars
  <2>4. {j \in Job : status[j] # "absent"} = Registered
    BY <1>5 DEF Registered
  <2>5. \A j \in Registered : key[j] = request[j].key
    BY DEF Registered
  <2>6. cancelled' = cancelled \cup
            {j \in {l \in Job : status[l] # "absent"} : key[j] # NoKey}
    BY <1>6, <2>4, <2>5
  <2>7. \E dropped \in SUBSET {j \in Job : status[j] = "pending"} :
            status' = [j \in Job |-> IF j \in dropped THEN "stopped" ELSE status[j]]
    BY <2>1, <2>2
  <2>8. QED
    BY <1>1, <2>3, <2>6, <2>7 DEF Promise!Close, Promise!Known
<1>8. QED
  BY <1>7 DEF Promise!PromiseNext

LEMMA JoinRests ==
    ASSUME IInv, IInv', DropNotifyAll \/ DropJoin \/ UNCHANGED vars
    PROVE  Resting
<1>1. /\ UNCHANGED <<submitterVars, schedulerVars, cancelled, channel, workerJob, workerResult>>
      /\ \A w \in Workers : workerPc[w] \in Busy => workerPc'[w] = workerPc[w]
  BY DEF DropNotifyAll, DropJoin, vars, workerVars, Busy, IInv, TypeOK
<1>2. Registered' = Registered
  BY <1>1 DEF Registered, submitterVars
<1>3. \A j \in Job : Unmoved(j)
  BY <1>1, <1>2 DEF Unmoved, Holds, schedulerVars
<1>4. QED
  BY <1>1, <1>2, <1>3, UnmovedStatus DEF Resting, schedulerVars, submitterVars

LEMMA NextKeepsThePromise ==
    IInv /\ IInv' /\ [Next]_vars => [Promise!PromiseNext]_(Promise!promiseVars)
<1>. SUFFICES ASSUME IInv, IInv', [Next]_vars
              PROVE  [Promise!PromiseNext]_(Promise!promiseVars)
  OBVIOUS
<1>1. ASSUME NEW c \in Submitters, Submit(c)
      PROVE  [Promise!PromiseNext]_(Promise!promiseVars)
  BY <1>1, AllocateRests, NotifyRests, RegisterAccepts, RestingStutters DEF Submit
<1>2. ASSUME NEW w \in Workers, WorkerStep(w) \/ SpuriousWakeup(w)
      PROVE  [Promise!PromiseNext]_(Promise!promiseVars)
  BY <1>2, IdleRests, PopRests, SendRests, WorkKeepsThePromise, RestingStutters DEF WorkerStep
<1>3. CASE Drop \/ UNCHANGED vars
  BY <1>3, DropCloses, JoinRests, RestingStutters DEF Drop
<1>4. QED
  BY <1>1, <1>2, <1>3, CancelKeepsThePromise DEF Next, Ended

LEMMA InitKeepsThePromise == Init => Promise!PromiseInit
<1>. SUFFICES ASSUME Init PROVE Promise!PromiseInit
  OBVIOUS
<1>1. Registered = {}
  BY DEF Init, Registered, Job
<1>2. \A j \in Job : Status(j) = "absent"
  BY <1>1, InitInv, AbsentStatus
<1>3. QED
  BY <1>1, <1>2 DEF Init, Promise!PromiseInit

\* The threads, the heap, the map and the channels implement the promise: a
\* registration cancels every earlier job of its key, Drop every keyed job,
\* no operation is entered after its cancellation, no value is published
\* after it, and a result is never revised.
THEOREM SchedulerKeepsItsPromise == Spec => KeepsItsPromise
<1>1. Spec => [][Promise!PromiseNext]_(Promise!promiseVars)
  BY InvIsInvariant, NextKeepsThePromise, PTL DEF Spec
<1>2. QED
  BY <1>1, InitKeepsThePromise, PTL DEF Spec, KeepsItsPromise, Promise!PromiseSpec
=============================================================================
