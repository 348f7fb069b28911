---------------------------- MODULE CeleryRunner ----------------------------
(***************************************************************************)
(* The second runner of an audit: the Celery task run_audit_task, with its *)
(* retries, beside the cancel and delete handlers of the API.              *)
(*                                                                         *)
(* The Celery process shares nothing with the API but the database, so     *)
(* that every statement interleaves with every statement of a handler.     *)
(* Inspector.audit is a coroutine function; the task does not await it,    *)
(* and report.__dict__ raises on the coroutine it gets: no attempt gets    *)
(* past that line, and the code after it is not part of the model.         *)
(* The broker acknowledges a message before its task runs, so that a task  *)
(* that dies with its process is not delivered again.                      *)
(***************************************************************************)
EXTENDS Naturals

CONSTANTS
    Audits,        \* audit ids; the task of audit a is a, and so is its job
    Clients,       \* cancel and delete requests in flight
    NoAudit,
    MaxRetries,    \* max_retries of the task: 3 in the code
    MaxFaults      \* bound on database errors and deaths of the Celery process

ASSUME CeleryAssumption ==
    /\ NoAudit \notin Audits
    /\ MaxRetries \in Nat \ {0} /\ MaxFaults \in Nat

VARIABLES
    audits,    \* the status of each row of audits
    tasks,     \* the status of each row of task_queue
    job,       \* the Celery task of each audit
    client,    \* the handlers in progress
    faults

celeryVars == <<audits, tasks, job, client, faults>>

-----------------------------------------------------------------------------
AuditStatus == {"absent", "queued", "failed"}
TaskStatus == {"absent", "pending", "running", "cancelling", "failed"}
ActivePC == {"delivered", "begun", "failing", "reread"}
\* Ended: audit not found, retries used up, an exception out of the except block,
\* or the process died.
EndedPC == {"notfound", "exhausted", "escaped", "lost"}
Job == [pc: {"none"} \cup ActivePC \cup EndedPC,
        retries: 0..MaxRetries,         \* self.request.retries
        sawAudit: BOOLEAN,              \* did the except block find the audit?
        sawTask: TaskStatus]            \* and which status of the task?
NoJob == [pc |-> "none", retries |-> 0, sawAudit |-> FALSE, sawTask |-> "absent"]
Client == [pc: {"idle", "cancel", "delete"}, audit: Audits \cup {NoAudit}, seen: TaskStatus]
Idle == [pc |-> "idle", audit |-> NoAudit, seen |-> "absent"]

\* An UPDATE leaves out a column whose value is the one that was read.
Written(row, seen, new) == IF seen = new THEN row ELSE new

CeleryTypeOK ==
    /\ audits \in [Audits -> AuditStatus]
    /\ tasks \in [Audits -> TaskStatus]
    /\ job \in [Audits -> Job]
    /\ client \in [Clients -> Client]
    /\ faults \in 0..MaxFaults

CeleryInit ==
    /\ audits = [a \in Audits |-> "absent"]
    /\ tasks = [a \in Audits |-> "absent"]
    /\ job = [a \in Audits |-> NoJob]
    /\ client = [c \in Clients |-> Idle]
    /\ faults = 0

Active(a) == job[a].pc \in ActivePC
AuditExists(a) == audits[a] # "absent"
Goto(a, pc) == job' = [job EXCEPT ![a].pc = pc]

-----------------------------------------------------------------------------
\* The rows of POST /audit, handed to Celery instead of the event loop.
Dispatch(a) ==
    /\ tasks[a] = "absent"
    /\ audits' = [audits EXCEPT ![a] = "queued"]
    /\ tasks' = [tasks EXCEPT ![a] = "pending"]
    /\ Goto(a, "delivered")
    /\ UNCHANGED <<client, faults>>

\* An attempt begins: the task is running, whatever it was before.
Begin(a) ==
    /\ job[a].pc = "delivered"
    /\ tasks' = [tasks EXCEPT ![a] = "running"]
    /\ Goto(a, "begun")
    /\ UNCHANGED <<audits, client, faults>>

\* The audit is loaded; without it the task returns, and with it it raises.
FindAudit(a) ==
    /\ job[a].pc = "begun"
    /\ Goto(a, IF AuditExists(a) THEN "failing" ELSE "notfound")
    /\ UNCHANGED <<audits, tasks, client, faults>>

\* The except block, after its rollback: the rows are read again...
RereadRows(a) ==
    /\ job[a].pc = "failing"
    /\ job' = [job EXCEPT ![a].pc = "reread", ![a].sawAudit = AuditExists(a),
                          ![a].sawTask = tasks[a]]
    /\ UNCHANGED <<audits, tasks, client, faults>>

\* self.retry raises Retry, or the exception itself when the retries are used up.
Retried(j) == IF j.retries < MaxRetries
              THEN [NoJob EXCEPT !.pc = "delivered", !.retries = j.retries + 1]
              ELSE [NoJob EXCEPT !.pc = "exhausted", !.retries = j.retries]

\* Mutant: the row that was read is written back even if it was deleted.
RecordFailureRevives(a) ==
    /\ job[a].pc = "reread"
    /\ audits' = IF job[a].sawAudit THEN [audits EXCEPT ![a] = "failed"] ELSE audits
    /\ tasks' = [tasks EXCEPT ![a] = Written(@, job[a].sawTask, "failed")]
    /\ job' = [job EXCEPT ![a] = Retried(@)]
    /\ UNCHANGED <<client, faults>>

\* Mutant: the except block marks the audit and not the task.
RecordFailureForgetsTask(a) ==
    /\ job[a].pc = "reread"
    /\ job[a].sawAudit => AuditExists(a)
    /\ audits' = IF job[a].sawAudit THEN [audits EXCEPT ![a] = "failed"] ELSE audits
    /\ job' = [job EXCEPT ![a] = Retried(@)]
    /\ UNCHANGED <<tasks, client, faults>>

\* Mutant: retries are not counted.
RecordFailureForever(a) ==
    /\ job[a].pc = "reread"
    /\ job[a].sawAudit => AuditExists(a)
    /\ audits' = IF job[a].sawAudit THEN [audits EXCEPT ![a] = "failed"] ELSE audits
    /\ tasks' = [tasks EXCEPT ![a] = Written(@, job[a].sawTask, "failed")]
    /\ Goto(a, "delivered")
    /\ UNCHANGED <<client, faults>>

\* ...and both are marked in one commit, then the task asks to be retried.  The
\* commit raises if the audit was deleted meanwhile: nothing is written and
\* nothing is retried.
RecordFailure(a) ==
    /\ job[a].pc = "reread"
    /\ IF job[a].sawAudit /\ ~AuditExists(a)
       THEN /\ Goto(a, "escaped")
            /\ UNCHANGED <<audits, tasks>>
       ELSE /\ audits' = IF job[a].sawAudit THEN [audits EXCEPT ![a] = "failed"] ELSE audits
            /\ tasks' = [tasks EXCEPT ![a] = Written(@, job[a].sawTask, "failed")]
            /\ job' = [job EXCEPT ![a] = Retried(@)]
    /\ UNCHANGED <<client, faults>>

-----------------------------------------------------------------------------
(* The handlers of the API: a query and checks, then a commit. *)

CancelTask(c, a) ==
    /\ client[c] = Idle
    /\ tasks[a] \in {"pending", "running", "cancelling"}
    /\ client' = [client EXCEPT ![c] = [pc |-> "cancel", audit |-> a, seen |-> tasks[a]]]
    /\ UNCHANGED <<audits, tasks, job, faults>>

CancelCommit(c) ==
    /\ client[c].pc = "cancel"
    /\ tasks' = [tasks EXCEPT ![client[c].audit] = Written(@, client[c].seen, "cancelling")]
    /\ client' = [client EXCEPT ![c] = Idle]
    /\ UNCHANGED <<audits, job, faults>>

DeleteAudit(c, a) ==
    /\ client[c] = Idle
    /\ AuditExists(a)
    /\ client' = [client EXCEPT ![c] = [pc |-> "delete", audit |-> a, seen |-> "absent"]]
    /\ UNCHANGED <<audits, tasks, job, faults>>

\* On a database without foreign keys; with them no audit is ever deleted.
DeleteCommit(c) ==
    /\ client[c].pc = "delete"
    /\ audits' = [audits EXCEPT ![client[c].audit] = "absent"]
    /\ client' = [client EXCEPT ![c] = Idle]
    /\ UNCHANGED <<tasks, job, faults>>

-----------------------------------------------------------------------------
\* A statement raises: in the try block it is one more failure, in the except
\* block it ends the task.
DbError(a) ==
    /\ Active(a)
    /\ faults < MaxFaults
    /\ faults' = faults + 1
    /\ Goto(a, IF job[a].pc \in {"delivered", "begun"} THEN "failing" ELSE "escaped")
    /\ UNCHANGED <<audits, tasks, client>>

\* The Celery process dies; a retry that is scheduled is with the broker.
ProcessDies ==
    /\ faults < MaxFaults
    /\ faults' = faults + 1
    /\ job' = [a \in Audits |-> IF job[a].pc \in ActivePC \ {"delivered"}
                                THEN [job[a] EXCEPT !.pc = "lost"]
                                ELSE job[a]]
    /\ UNCHANGED <<audits, tasks, client>>

-----------------------------------------------------------------------------
JobStep(a) == Begin(a) \/ FindAudit(a) \/ RereadRows(a) \/ RecordFailure(a)

CeleryNext ==
    \/ ProcessDies
    \/ \E a \in Audits : Dispatch(a)
    \/ \E a \in Audits : Begin(a)
    \/ \E a \in Audits : FindAudit(a)
    \/ \E a \in Audits : RereadRows(a)
    \/ \E a \in Audits : RecordFailure(a)
    \/ \E a \in Audits : DbError(a)
    \/ \E c \in Clients, a \in Audits : CancelTask(c, a)
    \/ \E c \in Clients, a \in Audits : DeleteAudit(c, a)
    \/ \E c \in Clients : CancelCommit(c)
    \/ \E c \in Clients : DeleteCommit(c)

CelerySpec == CeleryInit /\ [][CeleryNext]_celeryVars

\* The Celery process works through what it was given; nobody has to ask for it.
CeleryFairness == \A a \in Audits : WF_celeryVars(JobStep(a))

FairCelerySpec == CelerySpec /\ CeleryFairness

-----------------------------------------------------------------------------
\* What a client reads of an audit whose job waits for a retry or used them all
\* up: both rows say failed, unless the audit was deleted or a cancel that had read
\* the open task wrote over the task (celery_worker.py:88-101).
RetriedJobTells ==
    \A a \in Audits :
        job[a].pc = "exhausted" \/ (job[a].pc = "delivered" /\ job[a].retries > 0)
          => /\ audits[a] \in {"failed", "absent"}
             /\ tasks[a] \in {"failed", "cancelling"}

\* Every job comes to an end, however often it is retried, cancelled or faulted,
\* and no more than MaxRetries + 1 attempts are made (celery_worker.py:36, :101).
EveryJobEnds == \A a \in Audits : (job[a].pc # "none") ~> (job[a].pc \in EndedPC)

\* Refinement: what a client sees of an audit follows the same lifecycle as with
\* the runner in the server, retries included.
Outcome(a) ==
    IF AuditExists(a) THEN audits[a]
    ELSE IF tasks[a] # "absent" THEN "removed" ELSE "none"

Lifecycle == INSTANCE AuditLifecycle
               WITH outcome <- [a \in Audits |-> Outcome(a)],
                    live <- {a \in Audits : Active(a)}

\* The Celery runner implements the contract of the audit engine: a failed audit
\* stays failed while it is tried again, and a deleted one never comes back.
CeleryImplementsLifecycle == Lifecycle!Spec
=============================================================================
