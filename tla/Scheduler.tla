----------------------------- MODULE Scheduler -----------------------------
(***************************************************************************)
(* The monitoring scheduler of one server process: start, stop, the loop   *)
(* they create and cancel, and the manual run of an administrator.         *)
(*                                                                         *)
(* Everything below _run_all is synchronous, although it is declared       *)
(* async, so that a round is never interleaved with other code of the      *)
(* process.  A coroutine gives up the event loop in two places only: the   *)
(* loop in asyncio.sleep and stop() where it awaits the task it cancelled. *)
(* An action is what happens between two of them.                          *)
(***************************************************************************)
EXTENDS Naturals, FiniteSets

CONSTANTS
    Loops,        \* the asyncio tasks that start() creates
    NoLoop,       \* self._task is None
    Callers,      \* coroutines that call stop()
    MaxErrors     \* bound on the database errors of a behaviour

ASSUME SchedulerAssumption == NoLoop \notin Loops /\ MaxErrors \in Nat

VARIABLES
    running,      \* self._running
    task,         \* self._task
    loop,         \* where each task is
    stopping,     \* the task that each caller of stop() awaits
    runs,         \* the newest row of scheduler_runs for each job
    beat,         \* toggles with every round a loop completes
    errors,       \* database errors so far
    latest,       \* history: the task start() created last
    overlapped    \* history: was there a start() inside a stop()?

schedulerVars == <<running, task, loop, stopping, runs, beat, errors, latest, overlapped>>

-----------------------------------------------------------------------------
Jobs == {"monitor_checks", "trend_tracker"}
Live == {"new", "sleeping"}              \* will look at self._running again
LoopStates == {"none", "cancelled", "ended", "crashed"} \cup Live
Results == {"success", "failed", "escaped"}

SchedulerTypeOK ==
    /\ running \in BOOLEAN /\ overlapped \in BOOLEAN
    /\ task \in Loops \cup {NoLoop} /\ latest \in Loops \cup {NoLoop}
    /\ loop \in [Loops -> LoopStates]
    /\ stopping \in [Callers -> Loops \cup {NoLoop}]
    /\ runs \in [Jobs -> {"none", "success", "failed"}]
    /\ beat \in 0..1
    /\ errors \in 0..MaxErrors

SchedulerInit ==
    /\ running = FALSE /\ overlapped = FALSE
    /\ task = NoLoop /\ latest = NoLoop
    /\ loop = [l \in Loops |-> "none"]
    /\ stopping = [c \in Callers |-> NoLoop]
    /\ runs = [j \in Jobs |-> "none"]
    /\ beat = 0
    /\ errors = 0

-----------------------------------------------------------------------------
\* A job commits its row, or commits the row "failed" from its except block; an
\* error of either commit leaves the job as an exception.
Records(row, result) == IF result = "escaped" THEN row ELSE result

\* _run_all: the second job runs only when the first returned.
RunAll(results) ==
    runs' = [j \in Jobs |->
                IF j = "trend_tracker" /\ results["monitor_checks"] = "escaped"
                THEN runs[j]
                ELSE Records(runs[j], results[j])]

Escapes(results) == \E j \in Jobs : results[j] = "escaped"

\* The jobs that did not succeed each met one error.
Faulted(results) ==
    LET bad == {j \in Jobs : results[j] # "success"}
    IN  /\ errors + Cardinality(bad) <= MaxErrors
        /\ errors' = errors + Cardinality(bad)

\* One pass of the loop after it is resumed: self._running is read again, then
\* a round, which ends in the sleep or ends the task with its exception.
Round(l) ==
    /\ loop[l] \in Live
    /\ running
    /\ \E results \in [Jobs -> Results] :
          /\ RunAll(results)
          /\ Faulted(results)
          /\ IF Escapes(results)
             THEN /\ loop' = [loop EXCEPT ![l] = "crashed"]
                  /\ beat' = beat
             ELSE /\ loop' = [loop EXCEPT ![l] = "sleeping"]
                  /\ beat' = 1 - beat
    /\ UNCHANGED <<running, task, stopping, latest, overlapped>>

\* Mutant: while True.
LoopForever(l) ==
    /\ loop[l] \in Live
    /\ ~running
    /\ UNCHANGED schedulerVars

LeaveLoop(l) ==
    /\ loop[l] \in Live
    /\ ~running
    /\ loop' = [loop EXCEPT ![l] = "ended"]
    /\ UNCHANGED <<running, task, stopping, runs, beat, errors, latest, overlapped>>

\* The cancellation reaches the task in its sleep, or before its first step.
TakeCancellation(l) ==
    /\ loop[l] = "cancelled"
    /\ loop' = [loop EXCEPT ![l] = "ended"]
    /\ UNCHANGED <<running, task, stopping, runs, beat, errors, latest, overlapped>>

\* POST /admin/scheduler/run: a round in a task of its own; its exception is lost.
ManualRun ==
    /\ \E results \in [Jobs -> Results] : RunAll(results) /\ Faulted(results)
    /\ UNCHANGED <<running, task, loop, stopping, beat, latest, overlapped>>

-----------------------------------------------------------------------------
StartAlways(l) == TRUE                \* Mutant: start() does not look whether it runs
StartAllowed(l) == ~running

\* Mutant: a task that is still referenced is taken for the new one.
StartKeepsTask(l) ==
    /\ loop' = [loop EXCEPT ![l] = IF task = NoLoop THEN "new" ELSE @]
    /\ task' = IF task = NoLoop THEN l ELSE task
StartCreates(l) ==
    /\ loop' = [loop EXCEPT ![l] = "new"]
    /\ task' = l

Start(l) ==
    /\ loop[l] = "none"
    /\ StartAllowed(l)
    /\ running' = TRUE
    /\ StartCreates(l)
    /\ latest' = l
    /\ overlapped' = (overlapped \/ \E c \in Callers : stopping[c] # NoLoop)
    /\ UNCHANGED <<stopping, runs, beat, errors>>

\* stop() up to its await.  A task that ended is awaited without suspending; one
\* that crashed raises its exception out of stop(), which then forgets to reset
\* self._task.
Stop(c) ==
    /\ stopping[c] = NoLoop
    /\ running' = FALSE
    /\ CASE task = NoLoop -> UNCHANGED <<task, loop, stopping>>
         [] task # NoLoop /\ loop[task] = "crashed" -> UNCHANGED <<task, loop, stopping>>
         [] task # NoLoop /\ loop[task] = "ended" ->
              task' = NoLoop /\ UNCHANGED <<loop, stopping>>
         [] OTHER ->
              /\ loop' = [loop EXCEPT ![task] = "cancelled"]
              /\ stopping' = [stopping EXCEPT ![c] = task]
              /\ task' = task
    /\ UNCHANGED <<runs, beat, errors, latest, overlapped>>

\* The rest of stop(), whatever self._task is by now.
StopReturns(c) ==
    /\ stopping[c] # NoLoop
    /\ loop[stopping[c]] = "ended"
    /\ stopping' = [stopping EXCEPT ![c] = NoLoop]
    /\ task' = NoLoop
    /\ UNCHANGED <<running, loop, runs, beat, errors, latest, overlapped>>

-----------------------------------------------------------------------------
LoopStep(l) == Round(l) \/ LeaveLoop(l) \/ TakeCancellation(l)

SchedulerNext ==
    \/ ManualRun
    \/ \E l \in Loops : Start(l)
    \/ \E l \in Loops : Round(l)
    \/ \E l \in Loops : LeaveLoop(l)
    \/ \E l \in Loops : TakeCancellation(l)
    \/ \E c \in Callers : Stop(c)
    \/ \E c \in Callers : StopReturns(c)

SchedulerSpec == SchedulerInit /\ [][SchedulerNext]_schedulerVars

\* The sleep ends after the interval, and the event loop resumes what is ready.
\* Nobody has to call start() or stop().
SchedulerFairness ==
    /\ \A l \in Loops : WF_schedulerVars(LoopStep(l))
    /\ \A c \in Callers : WF_schedulerVars(StopReturns(c))

FairSchedulerSpec == SchedulerSpec /\ SchedulerFairness

-----------------------------------------------------------------------------
\* A scheduler that says it runs has the task of its last start(), and that task
\* was not cancelled: it goes on, unless an exception of a round ended it.  This
\* holds although a stop() that is still waiting resets self._task under a start()
\* (scheduler.py:81-100).
RunningHasLoop ==
    running => /\ latest # NoLoop
               /\ loop[latest] \in Live \cup {"crashed"}

\* If every caller waits for stop() before the next start(), at most one loop is
\* alive, and it is the one self._task refers to, so that stop() reaches it
\* (scheduler.py:85-100).
SoleLoop ==
    ~overlapped => \A l \in Loops : loop[l] \in Live => running /\ l = task

\* A scheduler that is stopped and not started again comes to rest: every loop ends,
\* the ones self._task lost included, and every stop() returns.
StoppedComesToRest ==
    ~running ~> \/ running
                \/ /\ \A l \in Loops : loop[l] \in {"none", "ended", "crashed"}
                   /\ \A c \in Callers : stopping[c] = NoLoop

\* A scheduler that keeps running and meets no error that escapes completes rounds
\* forever, whichever starts and stops came before.
RunningKeepsBeating ==
    <>[](running /\ loop[latest] # "crashed") => []<>(beat = 0) /\ []<>(beat = 1)
=============================================================================
