----------------------------- MODULE AuditTasks -----------------------------
(***************************************************************************)
(* The in-process audit engine of the API server: POST /audit writes an    *)
(* Audit row and a TaskQueue row and starts a coroutine that runs the      *)
(* audit; clients cancel the task and delete the audit while it runs.      *)
(*                                                                         *)
(* The server is a set of Workers (uvicorn processes).  A worker is one    *)
(* event loop: code between two awaits is never interleaved with other     *)
(* code of the SAME worker, but every database statement of one worker may *)
(* interleave with those of another.  An action is therefore the stretch   *)
(* from one database statement whose answer matters to the next, and a     *)
(* coroutine in the middle of such a stretch holds its worker's loop.      *)
(* The rows are the shared state; an absent row has the status "absent".   *)
(***************************************************************************)
EXTENDS Naturals, FiniteSets

CONSTANTS
    Audits,          \* audit ids; the task created with audit a is task a
    Workers,         \* uvicorn worker processes
    Clients,         \* HTTP requests that can be in flight at once
    NoWorker, NoAudit,
    ForeignKeys,     \* does the database enforce task_queue.audit_id?
    MaxRestarts, MaxDbErrors   \* bounds on the faults of a behaviour

ASSUME AuditTasksAssumption ==
    /\ NoWorker \notin Workers
    /\ NoAudit \notin Audits
    /\ ForeignKeys \in BOOLEAN
    /\ MaxRestarts \in Nat /\ MaxDbErrors \in Nat

VARIABLES
    audits,    \* table audits
    tasks,     \* table task_queue
    runner,    \* the coroutine _run_audit_task of each audit
    client,    \* the cancel and delete handlers in progress
    events,    \* webhook deliveries enqueued by the coroutines
    restarts, dbErrors

vars == <<audits, tasks, runner, client, events, restarts, dbErrors>>
faults == <<restarts, dbErrors>>

-----------------------------------------------------------------------------
AuditStatus == {"absent", "queued", "completed", "failed"}
AuditRow == [status: AuditStatus, completed_at: BOOLEAN, webhook_url: BOOLEAN]
NoAuditRow == [status |-> "absent", completed_at |-> FALSE, webhook_url |-> FALSE]

Terminal == {"completed", "failed", "cancelled"}
TaskStatus == {"absent", "pending", "running", "cancelling"} \cup Terminal
TaskRow == [status: TaskStatus, cancellation_token: BOOLEAN,
            started_at: BOOLEAN, finished_at: BOOLEAN, error: BOOLEAN]
NoTaskRow == [status |-> "absent", cancellation_token |-> FALSE,
              started_at |-> FALSE, finished_at |-> FALSE, error |-> FALSE]

\* The rows as POST /audit inserts them: the audit row is built without the
\* webhook_url of the request.
NewAuditDefaultStatus == [NoAuditRow EXCEPT !.status = "pending"]  \* mutant: column default
NewAudit == [NoAuditRow EXCEPT !.status = "queued"]
NewTask == [NoTaskRow EXCEPT !.status = "pending"]

\* The coroutine's assignments to its task and its audit.
StartedClearsToken(t) ==       \* mutant: a token that is already there is discarded
    [t EXCEPT !.status = "running", !.started_at = TRUE, !.cancellation_token = FALSE]
Started(t) == [t EXCEPT !.status = "running", !.started_at = TRUE]
CancelledSilently(t) == t      \* mutant: the early return records nothing
Cancelled(t) == [t EXCEPT !.status = "cancelled", !.finished_at = TRUE]
SucceededForgotten(t) == t     \* mutant: the report is committed on the audit alone
Succeeded(t) == [t EXCEPT !.status = "completed", !.finished_at = TRUE]
FailedUnstamped(t) ==          \* mutant: no finished_at
    [t EXCEPT !.status = "failed", !.error = TRUE]
FailedForgotten(t) == t        \* mutant: the except block marks the audit only
Failed(t) == [t EXCEPT !.status = "failed", !.finished_at = TRUE, !.error = TRUE]
AuditCompleted(r) == [r EXCEPT !.status = "completed", !.completed_at = TRUE]
AuditFailed(r) == [r EXCEPT !.status = "failed", !.completed_at = TRUE]

\* The cancel handler's, which writes only what differs from the status it read.
CancelRequested(t, seen) ==
    [t EXCEPT !.cancellation_token = TRUE,
              !.status = IF seen = "cancelling" THEN @ ELSE "cancelling"]

\* Where a coroutine is: inside the try block, inside its except block, ended.
TryPC == {"spawned", "started", "loaded", "awaiting", "committed"}
HandlerPC == {"failing", "reread", "recorded"}
\* It returned, died of an exception its handler raised, or was lost with its worker.
EndedPC == {"returned", "escaped", "lost"}
Runner == [pc: {"none"} \cup TryPC \cup HandlerPC \cup EndedPC,
           worker: Workers \cup {NoWorker},
           sawAudit: BOOLEAN]     \* did the handler's own query find the audit?
NoRunner == [pc |-> "none", worker |-> NoWorker, sawAudit |-> FALSE]

Client == [pc: {"idle", "cancel", "delete"}, worker: Workers \cup {NoWorker},
           audit: Audits \cup {NoAudit},
           seen: TaskStatus]      \* the task status the cancel handler read
Idle == [pc |-> "idle", worker |-> NoWorker, audit |-> NoAudit, seen |-> "absent"]

Event == [audit: Audits, event: {"audit.completed", "audit.failed"}]

Live(a) == runner[a].pc \in TryPC \cup HandlerPC
Created(a) == tasks[a].status # "absent"
AuditExists(a) == audits[a].status # "absent"

\* Suspended coroutines leave the loop to the others.
LoopFree(w) ==
    /\ \A a \in Audits : /\ Live(a)
                         /\ runner[a].worker = w
                         => runner[a].pc \in {"spawned", "awaiting"}
    /\ \A c \in Clients : client[c].worker # w

At(r, pc) == [r EXCEPT !.pc = pc]
Goto(a, pc) == runner' = [runner EXCEPT ![a] = At(@, pc)]

-----------------------------------------------------------------------------
Init ==
    /\ audits = [a \in Audits |-> NoAuditRow]
    /\ tasks = [a \in Audits |-> NoTaskRow]
    /\ runner = [a \in Audits |-> NoRunner]
    /\ client = [c \in Clients |-> Idle]
    /\ events = {}
    /\ restarts = 0 /\ dbErrors = 0

\* POST /audit: both rows in one commit, then the coroutine.  The audit row is
\* built without a webhook_url, whatever the request body carries.
CreateAudit(a, w) ==
    /\ ~Created(a)
    /\ LoopFree(w)
    /\ audits' = [audits EXCEPT ![a] = NewAudit]
    /\ tasks' = [tasks EXCEPT ![a] = NewTask]
    /\ runner' = [runner EXCEPT ![a] = [pc |-> "spawned", worker |-> w, sawAudit |-> FALSE]]
    /\ UNCHANGED <<client, events, faults>>

-----------------------------------------------------------------------------
(* The coroutine.  *)

\* The status is overwritten whatever it was; a token already there stays.
StartTask(a) ==
    /\ runner[a].pc = "spawned"
    /\ LoopFree(runner[a].worker)
    /\ tasks' = [tasks EXCEPT ![a] = Started(@)]
    /\ Goto(a, "started")
    /\ UNCHANGED <<audits, client, events, faults>>

\* No audit row: log and return.  A bad framework, adapter or inspector raises.
LoadAudit(a) ==
    /\ runner[a].pc = "started"
    /\ IF AuditExists(a) THEN \E pc \in {"loaded", "failing"} : Goto(a, pc)
                         ELSE Goto(a, "returned")
    /\ UNCHANGED <<audits, tasks, client, events, faults>>

\* The commit of StartTask expired the task, so this reads the current token.
CheckCancellation(a) ==
    /\ runner[a].pc = "loaded"
    /\ IF tasks[a].cancellation_token
         THEN /\ tasks' = [tasks EXCEPT ![a] = Cancelled(@)]
              /\ Goto(a, "returned")
         ELSE /\ Goto(a, "awaiting")
              /\ UNCHANGED tasks
    /\ UNCHANGED <<audits, client, events, faults>>

\* Mutant: the result is merged, so that a deleted audit is inserted again.
CompleteAuditMerges(a) ==
    /\ runner[a].pc = "awaiting"
    /\ LoopFree(runner[a].worker)
    /\ audits' = [audits EXCEPT ![a] = AuditCompleted(@)]
    /\ tasks' = [tasks EXCEPT ![a] = Succeeded(@)]
    /\ Goto(a, "committed")
    /\ UNCHANGED <<client, events, faults>>

\* The report arrived.  The audit object was loaded before the await: if its row
\* has been deleted since, the UPDATE matches nothing and the commit raises.
CompleteAudit(a) ==
    /\ runner[a].pc = "awaiting"
    /\ LoopFree(runner[a].worker)
    /\ IF AuditExists(a)
         THEN /\ audits' = [audits EXCEPT ![a] = AuditCompleted(@)]
              /\ tasks' = [tasks EXCEPT ![a] = Succeeded(@)]
              /\ Goto(a, "committed")
         ELSE /\ Goto(a, "failing")
              /\ UNCHANGED <<audits, tasks>>
    /\ UNCHANGED <<client, events, faults>>

\* The inspector raised, or wait_for gave up after 300 s.
AuditRaises(a) ==
    /\ runner[a].pc = "awaiting"
    /\ LoopFree(runner[a].worker)
    /\ Goto(a, "failing")
    /\ UNCHANGED <<audits, tasks, client, events, faults>>

\* Enqueue for a webhook_url the row carries, in a commit of its own.
Enqueue(a, name) ==
    events' = IF audits[a].webhook_url
                THEN events \cup {[audit |-> a, event |-> name]}
                ELSE events

\* audit.webhook_url expired with the commit: reading it reloads the row, and
\* raises if the row has been deleted.
NotifyCompletion(a) ==
    /\ runner[a].pc = "committed"
    /\ IF AuditExists(a) THEN /\ Enqueue(a, "audit.completed")
                              /\ Goto(a, "returned")
                         ELSE /\ Goto(a, "failing")
                              /\ UNCHANGED events
    /\ UNCHANGED <<audits, tasks, client, faults>>

\* The except block: roll back and look both rows up again ...
RereadRows(a) ==
    /\ runner[a].pc = "failing"
    /\ runner' = [runner EXCEPT ![a] = [@ EXCEPT !.pc = "reread", !.sawAudit = AuditExists(a)]]
    /\ UNCHANGED <<audits, tasks, client, events, faults>>

\* Mutant: a failed coroutine starts over, without counting attempts.
RecordFailureRetries(a) ==
    /\ runner[a].pc = "reread"
    /\ Goto(a, "spawned")
    /\ UNCHANGED <<audits, tasks, client, events, faults>>

\* ... and mark them failed in one commit, which raises out of the handler if
\* the audit it saw has been deleted meanwhile.
RecordFailure(a) ==
    /\ runner[a].pc = "reread"
    /\ IF runner[a].sawAudit /\ ~AuditExists(a)
         THEN /\ Goto(a, "escaped")
              /\ UNCHANGED <<audits, tasks>>
         ELSE /\ audits' = IF runner[a].sawAudit
                             THEN [audits EXCEPT ![a] = AuditFailed(@)]
                             ELSE audits
              /\ tasks' = [tasks EXCEPT ![a] = Failed(@)]
              /\ Goto(a, "recorded")
    /\ UNCHANGED <<client, events, faults>>

NotifyFailure(a) ==
    /\ runner[a].pc = "recorded"
    /\ Enqueue(a, "audit.failed")
    /\ Goto(a, "returned")
    /\ UNCHANGED <<audits, tasks, client, faults>>

-----------------------------------------------------------------------------
(* The handlers that act on a task or an audit: a query, checks, a commit. *)

\* Mutant: the handler cancels whatever the task's status is.
CancelTaskUnchecked(c, a, w) ==
    /\ client[c] = Idle
    /\ LoopFree(w)
    /\ Created(a)
    /\ client' = [client EXCEPT ![c] = [pc |-> "cancel", worker |-> w, audit |-> a,
                                        seen |-> tasks[a].status]]
    /\ UNCHANGED <<audits, tasks, runner, events, faults>>

\* POST /tasks/{id}/cancel answers 404 or 400 unless the task is still open.
CancelTask(c, a, w) ==
    /\ client[c] = Idle
    /\ LoopFree(w)
    /\ Created(a) /\ tasks[a].status \notin Terminal
    /\ client' = [client EXCEPT ![c] = [pc |-> "cancel", worker |-> w, audit |-> a,
                                        seen |-> tasks[a].status]]
    /\ UNCHANGED <<audits, tasks, runner, events, faults>>

\* Mutant: the cancel handler also gives the audit a result.
CancelCommitFailsAudit(c) ==
    LET a == client[c].audit IN
    /\ client[c].pc = "cancel"
    /\ tasks' = [tasks EXCEPT ![a] = CancelRequested(@, "running")]
    /\ audits' = IF AuditExists(a)
                    THEN [audits EXCEPT ![a] = AuditFailed(@)]
                    ELSE audits
    /\ client' = [client EXCEPT ![c] = Idle]
    /\ UNCHANGED <<runner, events, faults>>

\* Only attributes that changed are written: a handler that read "cancelling"
\* writes a fresh token and leaves the status alone.
CancelCommit(c) ==
    LET a == client[c].audit
        seen == client[c].seen IN
    /\ client[c].pc = "cancel"
    /\ tasks' = [tasks EXCEPT ![a] = CancelRequested(@, seen)]
    /\ client' = [client EXCEPT ![c] = Idle]
    /\ UNCHANGED <<audits, runner, events, faults>>

\* DELETE /audits/{id}.
DeleteAudit(c, a, w) ==
    /\ client[c] = Idle
    /\ LoopFree(w)
    /\ AuditExists(a)
    /\ client' = [client EXCEPT ![c] = [pc |-> "delete", worker |-> w, audit |-> a,
                                        seen |-> "absent"]]
    /\ UNCHANGED <<audits, tasks, runner, events, faults>>

\* Mutant: the database lets the row go though the task refers to it.
DeleteCommitUnconstrained(c) ==
    /\ client[c].pc = "delete"
    /\ audits' = [audits EXCEPT ![client[c].audit] = NoAuditRow]
    /\ client' = [client EXCEPT ![c] = Idle]
    /\ UNCHANGED <<tasks, runner, events, faults>>

\* The task row is not deleted: with foreign keys it makes the commit fail.
DeleteCommit(c) ==
    LET a == client[c].audit IN
    /\ client[c].pc = "delete"
    /\ audits' = IF ForeignKeys /\ Created(a) THEN audits
                                              ELSE [audits EXCEPT ![a] = NoAuditRow]
    /\ client' = [client EXCEPT ![c] = Idle]
    /\ UNCHANGED <<tasks, runner, events, faults>>

-----------------------------------------------------------------------------
(* Faults. *)

\* A statement of the coroutine raises (a locked or unreachable database).
DbError(a) ==
    /\ dbErrors < MaxDbErrors
    /\ dbErrors' = dbErrors + 1
    /\ Live(a)
    /\ runner[a].pc \in {"spawned", "awaiting"} => LoopFree(runner[a].worker)
    /\ Goto(a, IF runner[a].pc \in TryPC THEN "failing" ELSE "escaped")
    /\ UNCHANGED <<audits, tasks, client, events, restarts>>

\* A worker dies and is started again: its coroutines and handlers are gone, and
\* start-up looks at no queued or running task.
Restart(w) ==
    /\ restarts < MaxRestarts
    /\ restarts' = restarts + 1
    /\ runner' = [a \in Audits |-> IF Live(a) /\ runner[a].worker = w
                                     THEN At(runner[a], "lost")
                                     ELSE runner[a]]
    /\ client' = [c \in Clients |-> IF client[c].worker = w THEN Idle ELSE client[c]]
    /\ UNCHANGED <<audits, tasks, events, dbErrors>>

-----------------------------------------------------------------------------
RunnerStep(a) ==
    \/ StartTask(a) \/ LoadAudit(a) \/ CheckCancellation(a)
    \/ CompleteAudit(a) \/ AuditRaises(a) \/ NotifyCompletion(a)
    \/ RereadRows(a) \/ RecordFailure(a) \/ NotifyFailure(a)

ClientStep(c) == CancelCommit(c) \/ DeleteCommit(c)

Next ==
    \/ \E a \in Audits : RunnerStep(a) \/ DbError(a)
    \/ \E c \in Clients : ClientStep(c)
    \/ \E w \in Workers : Restart(w)
    \/ \E w \in Workers, a \in Audits :
         \/ CreateAudit(a, w)
         \/ \E c \in Clients : CancelTask(c, a, w) \/ DeleteAudit(c, a, w)

Spec == Init /\ [][Next]_vars

\* The loop's ready queue is FIFO, so a coroutine that is ready again and again
\* runs (strong fairness); wait_for bounds the only await; a handler that holds
\* the loop goes on.  Nobody is obliged to send a request, and faults just happen.
Fairness ==
    /\ \A a \in Audits : SF_vars(RunnerStep(a))
    /\ \A c \in Clients : WF_vars(ClientStep(c))

FairSpec == Spec /\ Fairness

-----------------------------------------------------------------------------
(* Properties. *)

\* Type invariant: the rows, coroutines and handlers are of the kinds the code builds.
TypeOK ==
    /\ audits \in [Audits -> AuditRow]
    /\ tasks \in [Audits -> TaskRow]
    /\ runner \in [Audits -> Runner]
    /\ client \in [Clients -> Client]
    /\ events \subseteq Event
    /\ restarts \in 0..MaxRestarts /\ dbErrors \in 0..MaxDbErrors

\* The two rows of an audit, written by different handlers and commits, never
\* contradict each other: a result on the audit is the task's result unless a
\* cancel overwrote the task's status, and a cancelled or unfinished task has
\* no result on its audit.
RowsAgree ==
    \A a \in Audits :
        /\ audits[a].status = "completed" => tasks[a].status \in {"completed", "cancelling"}
        /\ audits[a].status = "failed" => tasks[a].status \in {"failed", "cancelling"}
        /\ audits[a].status = "queued" =>
              tasks[a].status \in {"pending", "running", "cancelling", "cancelled"}

\* The time stamps tell what happened even when a late cancel rewrote the
\* status: finished_at is set on every terminal task and on no other except one
\* that was cancelled after it ended; completed_at goes with a result.
StampsTell ==
    \A a \in Audits :
        /\ tasks[a].status \in Terminal => tasks[a].finished_at
        /\ tasks[a].finished_at => tasks[a].status \in Terminal \cup {"cancelling"}
        /\ tasks[a].error => tasks[a].finished_at
        /\ audits[a].completed_at <=> audits[a].status \in {"completed", "failed"}

\* A coroutine that returns has settled its task, with one exception: the audit
\* was deleted under it.  Every early return and except path counts.
EndedRunnerSettles ==
    \A a \in Audits :
        runner[a].pc = "returned" => tasks[a].finished_at \/ ~AuditExists(a)

\* What a coroutine and a handler may rely on between two statements: before its
\* result an audit has none and its task is unfinished, after the commit the task
\* is finished, and what the except block read of the audit still holds.
CoroutineInv ==
    /\ \A a \in Audits :
         /\ runner[a].pc = "none" <=> ~Created(a)
         /\ runner[a].pc \in {"spawned", "started", "loaded", "awaiting"}
              => audits[a].status \in {"absent", "queued"} /\ ~tasks[a].finished_at
         /\ runner[a].pc \in {"committed", "recorded"} => tasks[a].finished_at
         /\ runner[a].pc = "reread" /\ ~runner[a].sawAudit => ~AuditExists(a)
    /\ \A c \in Clients :
         client[c].pc # "idle" => client[c].audit \in Audits /\ Created(client[c].audit)

\* A deleted audit stays deleted: no coroutine that loaded it before the
\* deletion writes it back.
DeletedStaysDeleted ==
    [][\A a \in Audits : Created(a) /\ ~AuditExists(a) => ~AuditExists(a)']_vars

\* A task that ended keeps its status: "Task already completed" is final.
SettledIsFinal ==
    [][\A a \in Audits : tasks[a].status \in Terminal =>
                             tasks'[a].status = tasks[a].status]_vars

\* A cancel that is committed before the coroutine first runs is honoured: the
\* task never completes, though the coroutine overwrites its status.
EarlyCancelHonoured ==
    \A a \in Audits :
        [](runner[a].pc = "spawned" /\ tasks[a].cancellation_token
             => [](tasks[a].status # "completed" /\ runner[a].pc # "awaiting"))

\* Every open task is eventually completed, failed or cancelled, unless its
\* audit is deleted.
EveryTaskSettles ==
    \A a \in Audits :
        Created(a) ~> (tasks[a].status \in Terminal \/ ~AuditExists(a))

\* With foreign keys no audit of the API can be deleted, and every task is
\* eventually finished, whatever is cancelled or deleted meanwhile.
EveryTaskFinishes == \A a \in Audits : Created(a) ~> tasks[a].finished_at

\* Refinement: the client's view of an audit follows AuditLifecycle.
Outcome(a) ==
    IF AuditExists(a) THEN audits[a].status
    ELSE IF Created(a) THEN "removed" ELSE "none"

Lifecycle == INSTANCE AuditLifecycle
               WITH outcome <- [a \in Audits |-> Outcome(a)],
                    live <- {a \in Audits : Live(a)}

\* The audit engine implements its contract (safety).
ImplementsLifecycle == Lifecycle!Spec

\* The audit engine implements its contract, every job ending included.
ImplementsFairLifecycle == Lifecycle!FairSpec
=============================================================================
