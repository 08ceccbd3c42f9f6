----------------------------- MODULE JobPromise -----------------------------
(***************************************************************************)
(* What a job scheduler promises the holder of a job handle, with no       *)
(* threads, no heap, no lock and no channel: the life of each job, from    *)
(* the moment submit registers it to the result its handle will read.      *)
(* JobScheduler is shown to implement it (JobScheduler!Promise).           *)
(***************************************************************************)
EXTENDS Naturals

CONSTANTS
    Job,    \* the jobs
    Keys,   \* the supersede keys
    NoKey   \* a job without one

VARIABLES
    status,     \* the life of each job
    key,        \* the key it was registered under
    cancelled,  \* the jobs somebody has cancelled
    closed      \* the scheduler is being dropped

promiseVars == <<status, key, cancelled, closed>>

Unresolved == {"pending", "executing"}
Resolved == {"ok", "cancelled", "panicked", "stopped"}

PromiseInit ==
    /\ status = [j \in Job |-> "absent"]
    /\ key = [j \in Job |-> NoKey]
    /\ cancelled = {}
    /\ closed = FALSE

Known == {j \in Job : status[j] # "absent"}

Resolve(j, from, to) ==
    /\ status[j] = from
    /\ status' = [status EXCEPT ![j] = to]
    /\ UNCHANGED <<key, cancelled, closed>>

\* Registering under a key cancels every job known under that key.
Accept(j, k) ==
    /\ ~closed
    /\ status[j] = "absent"
    /\ status' = [status EXCEPT ![j] = "pending"]
    /\ key' = [key EXCEPT ![j] = k]
    /\ cancelled' = cancelled \cup {i \in Known : key[i] = k /\ k # NoKey}
    /\ UNCHANGED closed

CancelOne(j) ==
    /\ j \in Known
    /\ cancelled' = cancelled \cup {j}
    /\ UNCHANGED <<status, key, closed>>

\* A job is executed at most once, and only if nobody has cancelled it.
Execute(j) == j \notin cancelled /\ Resolve(j, "pending", "executing")
Refuse(j) == j \in cancelled /\ Resolve(j, "pending", "cancelled")

\* Its value is published only if nobody has cancelled it meanwhile.
Publish(j) == j \notin cancelled /\ Resolve(j, "executing", "ok")
Withhold(j) == j \in cancelled /\ Resolve(j, "executing", "cancelled")
Contain(j) == Resolve(j, "executing", "panicked")

\* Closing drops pending jobs, except those a worker has in its hands, and
\* cancels every job that has a key.
Close ==
    /\ ~closed
    /\ closed' = TRUE
    /\ cancelled' = cancelled \cup {j \in Known : key[j] # NoKey}
    /\ \E dropped \in SUBSET {j \in Job : status[j] = "pending"} :
           status' = [j \in Job |-> IF j \in dropped THEN "stopped" ELSE status[j]]
    /\ UNCHANGED key

PromiseNext ==
    \/ \E j \in Job, k \in Keys \cup {NoKey} : Accept(j, k)
    \/ \E j \in Job :
        \/ CancelOne(j) \/ Execute(j) \/ Refuse(j)
        \/ Publish(j) \/ Withhold(j) \/ Contain(j)
    \/ Close

PromiseSpec == PromiseInit /\ [][PromiseNext]_promiseVars
=============================================================================
