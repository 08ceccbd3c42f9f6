---------------------------- MODULE UpdateService ---------------------------
(***************************************************************************)
(* The updater of the workbench (apps/workbench/src/update.rs): a status   *)
(* the About card draws, fed over one channel by a thread per check, a     *)
(* thread per download and a thread that forwards the download's progress. *)
(* Every tab has an updater of its own, and only the tab in front draws.   *)
(* The feed and the package on disk belong to an external library: the     *)
(* feed may publish between two checks, and any call of it may fail.       *)
(***************************************************************************)
EXTENDS Naturals, Sequences

CONSTANTS
  Tabs,        \* the updaters
  MaxVersion,  \* bound: the newest version ever published; 0 is the one that runs
  MaxSteps,    \* bound: progress reports of one download
  MaxAttempts  \* bound: downloads and asked-for checks of one updater

ASSUME UpdateAssumption ==
  MaxVersion \in Nat /\ MaxSteps \in Nat /\ MaxAttempts \in Nat

VARIABLES
  feed,       \* the newest release of the feed
  front,      \* the tab in front
  status,     \* [Tabs -> what the card draws]
  pending,    \* [Tabs -> the release found last, 0 when none]
  started,    \* [Tabs -> checked_at_startup]
  attempts,   \* [Tabs -> threads asked for by a click; numbers the downloads]
  threads,    \* the check and download threads that have not answered
  forwards,   \* the progress reports on their way to a channel
  events,     \* [Tabs -> the channel]
  fetched     \* [Tabs -> the releases it downloaded]

updateVars == <<feed, front, status, pending, started, attempts, threads, forwards,
                events, fetched>>

Versions == 0..MaxVersion
Plain(kind) == [kind |-> kind, version |-> 0, percent |-> 0]
UpdateStatus == [kind : {"idle", "checking", "up to date", "available", "downloading", "ready",
                   "failed"},
           version : Versions, percent : 0..MaxSteps]
Message(kind, version, percent) == [kind |-> kind, version |-> version, percent |-> percent]
Answers == {"found", "none", "refused", "downloaded"}

UpdateTypeOK ==
  /\ feed \in Versions /\ front \in Tabs
  /\ status \in [Tabs -> UpdateStatus]
  /\ pending \in [Tabs -> Versions] /\ started \in [Tabs -> BOOLEAN]
  /\ attempts \in [Tabs -> 0..MaxAttempts]
  /\ threads \subseteq [tab : Tabs, does : {"check", "download"}, version : Versions,
                        attempt : 0..MaxAttempts, percent : 0..MaxSteps]
  /\ forwards \subseteq [tab : Tabs, attempt : 0..MaxAttempts, percent : 1..MaxSteps]
  /\ \A t \in Tabs : \A i \in DOMAIN events[t] :
       events[t][i].kind \in Answers \cup {"progress"}
  /\ fetched \in [Tabs -> SUBSET Versions]

UpdateInit ==
  /\ feed \in Versions /\ front \in Tabs
  /\ status = [t \in Tabs |-> Plain("idle")]
  /\ pending = [t \in Tabs |-> 0] /\ started = [t \in Tabs |-> FALSE]
  /\ attempts = [t \in Tabs |-> 0]
  /\ threads = {} /\ forwards = {} /\ events = [t \in Tabs |-> << >>]
  /\ fetched = [t \in Tabs |-> {}]

Working(s) == s.kind \in {"checking", "downloading"}
Thread(t, does, version, attempt) ==
  [tab |-> t, does |-> does, version |-> version, attempt |-> attempt, percent |-> 0]

-----------------------------------------------------------------------------
(* The UI thread.                                                          *)

\* Mutant: progress always draws the download state.
AfterLateProgress(s, e) == [s EXCEPT !.kind = "downloading", !.percent = e.percent]

\* Progress that arrives after the download's answer draws nothing.
AfterProgress(s, e) ==
  IF s.kind = "downloading" THEN [s EXCEPT !.percent = e.percent] ELSE s

\* What one message makes of the status and of the pending release.
After(state, e) ==
  CASE e.kind = "found" -> [status |-> [Plain("available") EXCEPT !.version = e.version],
                            pending |-> e.version]
    [] e.kind = "none" -> [status |-> Plain("up to date"), pending |-> 0]
    [] e.kind = "refused" -> [state EXCEPT !.status = Plain("failed")]
    [] e.kind = "progress" -> [state EXCEPT !.status = AfterProgress(@, e)]
    [] e.kind = "downloaded" ->
         [state EXCEPT !.status = [Plain("ready") EXCEPT !.version = state.pending]]

\* poll: what the messages of the channel make of it, one after another.
Drained(first, messages) ==
  LET after[n \in 0..Len(messages)] ==
        IF n = 0 THEN first ELSE After(after[n-1], messages[n])
  IN  after[Len(messages)]

\* One frame of the tab in front: the first one checks, all drain the channel.
Poll(t) ==
  /\ front = t
  /\ ~started[t] \/ events[t] # << >>
  /\ LET checks == ~started[t] /\ ~Working(status[t])
         last == Drained([status |-> IF checks THEN Plain("checking") ELSE status[t],
                          pending |-> pending[t]], events[t])
     IN  /\ status' = [status EXCEPT ![t] = last.status]
         /\ pending' = [pending EXCEPT ![t] = last.pending]
         /\ threads' = IF checks THEN threads \cup {Thread(t, "check", 0, 0)} ELSE threads
  /\ started' = [started EXCEPT ![t] = TRUE]
  /\ events' = [events EXCEPT ![t] = << >>]
  /\ UNCHANGED <<feed, front, attempts, forwards, fetched>>

\* A click on the card of the tab in front.
Click(t, kinds, thread, drawn) ==
  /\ front = t /\ started[t] /\ attempts[t] < MaxAttempts
  /\ status[t].kind \in kinds
  /\ attempts' = [attempts EXCEPT ![t] = @ + 1]
  /\ status' = [status EXCEPT ![t] = drawn]
  /\ threads' = threads \cup {thread}
  /\ UNCHANGED <<feed, front, pending, started, forwards, events, fetched>>

\* Mutant: a check may be asked for while a download is under way.
StartCheckAnyTime(t) ==
  Click(t, {"idle", "up to date", "failed", "downloading"},
        Thread(t, "check", 0, attempts[t] + 1), Plain("checking"))

StartCheck(t) ==
  Click(t, {"idle", "up to date", "failed"}, Thread(t, "check", 0, attempts[t] + 1),
        Plain("checking"))

StartDownload(t) ==
  /\ pending[t] # 0
  /\ Click(t, {"available"}, Thread(t, "download", pending[t], attempts[t] + 1),
           [Plain("downloading") EXCEPT !.version = pending[t]])

\* Another tab comes to the front.
Activate(t) ==
  /\ front # t /\ front' = t
  /\ UNCHANGED <<feed, status, pending, started, attempts, threads, forwards, events, fetched>>

-----------------------------------------------------------------------------
(* The threads.                                                            *)

Post(t, e) == events' = [events EXCEPT ![t] = Append(@, e)]

CheckEnds(k) ==
  /\ k.does = "check"
  /\ threads' = threads \ {k}
  /\ Post(k.tab, IF feed > 0 THEN Message("found", feed, 0) ELSE Message("none", 0, 0))
       \/ Post(k.tab, Message("refused", 0, 0))
  /\ UNCHANGED <<feed, front, status, pending, started, attempts, forwards, fetched>>

\* The download reports to its forwarding thread.
Report(k) ==
  /\ k.does = "download" /\ k.percent < MaxSteps
  /\ threads' = (threads \ {k}) \cup {[k EXCEPT !.percent = @ + 1]}
  /\ forwards' = forwards \cup {[tab |-> k.tab, attempt |-> k.attempt, percent |-> k.percent + 1]}
  /\ UNCHANGED <<feed, front, status, pending, started, attempts, events, fetched>>

\* Reports are forwarded in order, by a thread that may lag behind.
Forward(r) ==
  /\ \A q \in forwards : q.tab = r.tab /\ q.attempt = r.attempt => r.percent <= q.percent
  /\ forwards' = forwards \ {r}
  /\ Post(r.tab, Message("progress", 0, r.percent))
  /\ UNCHANGED <<feed, front, status, pending, started, attempts, threads, fetched>>

\* Mutant: a download that fails tells nobody.
DownloadEndsQuietly(k) ==
  /\ k.does = "download"
  /\ threads' = threads \ {k}
  /\ \/ /\ fetched' = [fetched EXCEPT ![k.tab] = @ \cup {k.version}]
        /\ Post(k.tab, Message("downloaded", 0, 0))
     \/ UNCHANGED <<fetched, events>>
  /\ UNCHANGED <<feed, front, status, pending, started, attempts, forwards>>

DownloadEnds(k) ==
  /\ k.does = "download"
  /\ threads' = threads \ {k}
  /\ \/ /\ fetched' = [fetched EXCEPT ![k.tab] = @ \cup {k.version}]
        /\ Post(k.tab, Message("downloaded", 0, 0))
     \/ /\ UNCHANGED fetched
        /\ Post(k.tab, Message("refused", 0, 0))
  /\ UNCHANGED <<feed, front, status, pending, started, attempts, forwards>>

\* The feed publishes a release.
Publish ==
  /\ feed < MaxVersion /\ feed' = feed + 1
  /\ UNCHANGED <<front, status, pending, started, attempts, threads, forwards, events, fetched>>

\* apply: a release that cannot be installed leaves the failure drawn; one
\* that can ends the process, and with it the behaviour.
ApplyFails(t) ==
  /\ front = t /\ status[t].kind = "ready" /\ pending[t] # 0
  /\ status' = [status EXCEPT ![t] = Plain("failed")]
  /\ UNCHANGED <<feed, front, pending, started, attempts, threads, forwards, events, fetched>>

ThreadStep(k) == CheckEnds(k) \/ Report(k) \/ DownloadEnds(k)

UpdateNext ==
  \/ \E t \in Tabs : Poll(t) \/ StartCheck(t) \/ StartDownload(t) \/ Activate(t) \/ ApplyFails(t)
  \/ \E k \in threads : ThreadStep(k)
  \/ \E r \in forwards : Forward(r)
  \/ Publish

\* Calls of the library return, and the tab in front draws a frame when it
\* is asked to (request_repaint).
UpdateFairness ==
  /\ WF_updateVars(\E k \in threads : CheckEnds(k) \/ DownloadEnds(k))
  /\ \A t \in Tabs : WF_updateVars(Poll(t))

UpdateSpec == UpdateInit /\ [][UpdateNext]_updateVars /\ UpdateFairness

-----------------------------------------------------------------------------
(* Properties.                                                             *)

\* What an updater waits for: its threads that have not answered and the
\* answers that wait in its channel.
AnswersOf(t) == {i \in DOMAIN events[t] : events[t][i].kind \in Answers}
ThreadsOf(t) == {k \in threads : k.tab = t}

\* The card shows a check or a download exactly while one answer is under
\* way: late progress brings no finished download back, a second click
\* starts no second thread, and no answer is awaited that nobody will give.
BusyIffAwaiting ==
  \A t \in Tabs :
    IF Working(status[t])
    THEN \/ AnswersOf(t) = {} /\ \E k \in threads : ThreadsOf(t) = {k}
         \/ ThreadsOf(t) = {} /\ \E i \in DOMAIN events[t] : AnswersOf(t) = {i}
    ELSE AnswersOf(t) = {} /\ ThreadsOf(t) = {}

\* What the card offers to install was downloaded by this updater, whatever
\* the feed published and other tabs downloaded since.
ReadyWasFetched ==
  \A t \in Tabs :
    status[t].kind = "ready" => status[t].version = pending[t] /\ pending[t] \in fetched[t]

\* What the card of every tab shows and offers is so, and is a state that it
\* can draw: a percentage, a version that is there.
CardTellsTheTruth == UpdateTypeOK /\ BusyIffAwaiting /\ ReadyWasFetched

\* A check or a download that was started ends in a state the card can go on
\* from, in a tab that stays in front.
BusyEnds == \A t \in Tabs : Working(status[t]) ~> (~Working(status[t]) \/ front # t)
=============================================================================
