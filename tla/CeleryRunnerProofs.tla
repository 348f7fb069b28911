------------------------- MODULE CeleryRunnerProofs -------------------------
(***************************************************************************)
(* Proofs about the Celery runner, for any number of audits, clients,      *)
(* retries and faults: what a retried job tells, and that the runner       *)
(* implements AuditLifecycle.                                              *)
(***************************************************************************)
EXTENDS CeleryRunner, TLAPS

USE CeleryAssumption

\* A job exists only for a task row; from the first retry on the audit has failed or
\* is gone, and what the except block read is still true where it matters.
JobKnows(a) ==
    /\ tasks[a] = "absent" =>
         audits[a] = "absent" /\ job[a].pc = "none" /\ job[a].retries = 0
    /\ job[a].retries > 0 => audits[a] \in {"failed", "absent"}
    /\ job[a].pc = "reread" =>
         /\ ~job[a].sawAudit => audits[a] = "absent"
         /\ job[a].sawTask = "failed" => tasks[a] \in {"failed", "cancelling"}

\* A handler that has passed its checks holds an audit that has its task row.
ClientKnows(c) ==
    client[c].pc # "idle" =>
        client[c].audit \in Audits /\ tasks[client[c].audit] # "absent"

\* The inductive invariant: the property and what the job and the clients know.
IInv ==
    /\ CeleryTypeOK /\ RetriedJobTells
    /\ \A a \in Audits : JobKnows(a)
    /\ \A c \in Clients : ClientKnows(c)

\* The step leaves every audit but this one alone.
Only(a) == \A b \in Audits \ {a} : audits'[b] = audits[b] /\ tasks'[b] = tasks[b] /\ job'[b] = job[b]

-----------------------------------------------------------------------------
LEMMA JobMoves ==
    ASSUME job \in [Audits -> Job], NEW a \in Audits,
           NEW pc \in {"none"} \cup ActivePC \cup EndedPC, Goto(a, pc)
    PROVE  /\ job' \in [Audits -> Job] /\ job'[a].pc = pc
           /\ job'[a].retries = job[a].retries /\ job'[a].sawAudit = job[a].sawAudit
           /\ job'[a].sawTask = job[a].sawTask
           /\ \A b \in Audits \ {a} : job'[b] = job[b]
<1>. DEFINE new == [job[a] EXCEPT !.pc = pc]
<1>1. /\ new \in Job /\ new.pc = pc /\ new.retries = job[a].retries
      /\ new.sawAudit = job[a].sawAudit /\ new.sawTask = job[a].sawTask
  BY DEF Job
<1>2. job' = [job EXCEPT ![a] = new]
  BY DEF Goto
<1>. HIDE DEF new
<1>. QED
  BY <1>1, <1>2

LEMMA RetriedType ==
    ASSUME NEW j \in Job
    PROVE  /\ Retried(j) \in Job
           /\ \/ Retried(j).pc = "delivered" /\ Retried(j).retries > 0
              \/ Retried(j).pc = "exhausted" /\ j.retries > 0 /\ Retried(j).retries = j.retries
<1>1. NoJob = [pc |-> "none", retries |-> 0, sawAudit |-> FALSE, sawTask |-> "absent"]
  BY DEF NoJob
<1>2. j.retries \in 0..MaxRetries
  BY DEF Job
<1>3. CASE j.retries < MaxRetries
  <2>1. Retried(j) = [pc |-> "delivered", retries |-> j.retries + 1, sawAudit |-> FALSE,
                      sawTask |-> "absent"]
    BY <1>1, <1>3 DEF Retried
  <2>. QED
    BY <1>2, <1>3, <2>1 DEF Job, ActivePC, TaskStatus
<1>4. CASE j.retries = MaxRetries
  <2>1. Retried(j) = [pc |-> "exhausted", retries |-> j.retries, sawAudit |-> FALSE,
                      sawTask |-> "absent"]
    <3>1. ~(j.retries < MaxRetries)
      BY <1>4
    <3>. QED
      BY <1>1, <3>1 DEF Retried
  <2>2. Retried(j) \in Job
    BY <1>2, <2>1 DEF Job, EndedPC, TaskStatus
  <2>3. j.retries > 0
    BY <1>4
  <2>. QED
    BY <2>1, <2>2, <2>3
<1>. QED
  BY <1>2, <1>3, <1>4

LEMMA InitInv == CeleryInit => IInv
<1>. SUFFICES ASSUME CeleryInit PROVE IInv
  OBVIOUS
<1>1. NoJob \in Job /\ Idle \in Client /\ NoJob.pc = "none" /\ NoJob.retries = 0
  BY DEF NoJob, Job, Idle, Client, TaskStatus
<1>2. audits \in [Audits -> AuditStatus] /\ tasks \in [Audits -> TaskStatus]
  BY DEF CeleryInit, AuditStatus, TaskStatus
<1>3. job \in [Audits -> Job] /\ client \in [Clients -> Client] /\ faults \in 0..MaxFaults
  BY <1>1 DEF CeleryInit
<1>4. CeleryTypeOK
  BY <1>2, <1>3 DEF CeleryTypeOK
<1>5. RetriedJobTells /\ \A a \in Audits : JobKnows(a)
  BY <1>1 DEF CeleryInit, RetriedJobTells, JobKnows
<1>6. \A c \in Clients : ClientKnows(c)
  BY DEF CeleryInit, ClientKnows, Idle
<1>. QED
  BY <1>4, <1>5, <1>6 DEF IInv

\* What is left to show of a step that belongs to one audit.
LEMMA OwnStep ==
    ASSUME IInv, NEW a \in Audits, CeleryTypeOK', Only(a), JobKnows(a)', client' = client,
           tasks'[a] # "absent",
           job'[a].pc = "exhausted" \/ (job'[a].pc = "delivered" /\ job'[a].retries > 0)
             => audits'[a] \in {"failed", "absent"} /\ tasks'[a] \in {"failed", "cancelling"}
    PROVE  IInv'
<1>1. RetriedJobTells'
  BY DEF IInv, RetriedJobTells, Only
<1>2. \A b \in Audits : JobKnows(b)'
  BY DEF IInv, JobKnows, Only
<1>3. \A c \in Clients : ClientKnows(c)'
  BY DEF IInv, ClientKnows, Only
<1>. QED
  BY <1>1, <1>2, <1>3 DEF IInv

LEMMA DispatchInv == ASSUME IInv, NEW a \in Audits, Dispatch(a) PROVE IInv' /\ Only(a)
<1>1. /\ job' \in [Audits -> Job] /\ job'[a].pc = "delivered" /\ job'[a].retries = 0
      /\ \A b \in Audits \ {a} : job'[b] = job[b]
  BY JobMoves DEF IInv, CeleryTypeOK, Dispatch, JobKnows, ActivePC
<1>2. /\ audits' \in [Audits -> AuditStatus] /\ audits'[a] = "queued"
      /\ tasks' \in [Audits -> TaskStatus] /\ tasks'[a] = "pending"
      /\ \A b \in Audits \ {a} : audits'[b] = audits[b] /\ tasks'[b] = tasks[b]
  BY DEF IInv, CeleryTypeOK, Dispatch, AuditStatus, TaskStatus
<1>3. CeleryTypeOK' /\ Only(a) /\ client' = client
  BY <1>1, <1>2 DEF IInv, CeleryTypeOK, Dispatch, Only
<1>4. JobKnows(a)'
  BY <1>1, <1>2 DEF JobKnows
<1>. QED
  BY <1>1, <1>2, <1>3, <1>4, OwnStep

LEMMA BeginInv == ASSUME IInv, NEW a \in Audits, Begin(a) PROVE IInv' /\ Only(a)
<1>1. /\ job' \in [Audits -> Job] /\ job'[a].pc = "begun" /\ job'[a].retries = job[a].retries
      /\ \A b \in Audits \ {a} : job'[b] = job[b]
  BY JobMoves DEF IInv, CeleryTypeOK, Begin, ActivePC
<1>2. /\ tasks' \in [Audits -> TaskStatus] /\ tasks'[a] = "running"
      /\ \A b \in Audits \ {a} : tasks'[b] = tasks[b]
  BY DEF IInv, CeleryTypeOK, Begin, TaskStatus
<1>3. CeleryTypeOK' /\ Only(a) /\ client' = client
  BY <1>1, <1>2 DEF IInv, CeleryTypeOK, Begin, Only
<1>4. JobKnows(a)'
  BY <1>1, <1>2 DEF IInv, JobKnows, Begin
<1>. QED
  BY <1>1, <1>2, <1>3, <1>4, OwnStep

LEMMA FindAuditInv == ASSUME IInv, NEW a \in Audits, FindAudit(a) PROVE IInv' /\ Only(a)
<1>1. /\ job' \in [Audits -> Job] /\ job'[a].pc \in {"failing", "notfound"}
      /\ job'[a].retries = job[a].retries /\ \A b \in Audits \ {a} : job'[b] = job[b]
  BY JobMoves DEF IInv, CeleryTypeOK, FindAudit, ActivePC, EndedPC
<1>2. CeleryTypeOK' /\ Only(a) /\ client' = client /\ tasks'[a] # "absent"
  BY <1>1 DEF IInv, CeleryTypeOK, FindAudit, Only, JobKnows
<1>3. JobKnows(a)'
  BY <1>1, <1>2 DEF IInv, JobKnows, FindAudit
<1>. QED
  BY <1>1, <1>2, <1>3, OwnStep

LEMMA RereadRowsInv == ASSUME IInv, NEW a \in Audits, RereadRows(a) PROVE IInv' /\ Only(a)
<1>. DEFINE new == [job[a] EXCEPT !.pc = "reread", !.sawAudit = AuditExists(a),
                                  !.sawTask = tasks[a]]
<1>1. job \in [Audits -> Job] /\ tasks[a] \in TaskStatus /\ AuditExists(a) \in BOOLEAN
  BY DEF IInv, CeleryTypeOK, AuditExists
<1>2. /\ new \in Job /\ new.pc = "reread" /\ new.retries = job[a].retries
      /\ new.sawAudit = AuditExists(a) /\ new.sawTask = tasks[a]
  BY <1>1 DEF Job, ActivePC
<1>3. job' = [job EXCEPT ![a] = new]
  BY <1>1 DEF RereadRows
<1>0. UNCHANGED <<audits, tasks, client, faults>> /\ job[a].pc = "failing"
  BY DEF RereadRows
<1>. HIDE DEF new
<1>4. CeleryTypeOK' /\ Only(a) /\ client' = client /\ tasks'[a] # "absent"
  BY <1>1, <1>2, <1>3, <1>0 DEF IInv, CeleryTypeOK, Only, JobKnows
<1>5. job'[a] = new
  BY <1>1, <1>3
<1>6. JobKnows(a)'
  BY <1>2, <1>5, <1>0 DEF IInv, JobKnows, AuditExists
<1>. QED
  BY <1>2, <1>4, <1>5, <1>6, OwnStep

LEMMA RecordFailureInv == ASSUME IInv, NEW a \in Audits, RecordFailure(a) PROVE IInv' /\ Only(a)
<1>0. /\ job \in [Audits -> Job] /\ job[a] \in Job /\ job[a].sawAudit \in BOOLEAN
      /\ audits \in [Audits -> AuditStatus] /\ tasks \in [Audits -> TaskStatus]
      /\ tasks[a] # "absent" /\ job[a].pc = "reread"
  BY DEF IInv, CeleryTypeOK, JobKnows, RecordFailure, Job
<1>1. CASE job[a].sawAudit /\ ~AuditExists(a)
  <2>1. /\ job' \in [Audits -> Job] /\ job'[a].pc = "escaped"
        /\ job'[a].retries = job[a].retries /\ \A b \in Audits \ {a} : job'[b] = job[b]
    BY <1>0, <1>1, JobMoves DEF RecordFailure, EndedPC
  <2>2. CeleryTypeOK' /\ Only(a) /\ client' = client /\ UNCHANGED <<audits, tasks>>
    BY <1>1, <2>1 DEF IInv, CeleryTypeOK, RecordFailure, Only
  <2>3. JobKnows(a)'
    BY <1>0, <2>1, <2>2 DEF IInv, JobKnows
  <2>. QED
    BY <1>0, <2>1, <2>2, <2>3, OwnStep
<1>2. CASE ~(job[a].sawAudit /\ ~AuditExists(a))
  <2>1. /\ audits' = IF job[a].sawAudit THEN [audits EXCEPT ![a] = "failed"] ELSE audits
        /\ tasks' = [tasks EXCEPT ![a] = Written(tasks[a], job[a].sawTask, "failed")]
        /\ job' = [job EXCEPT ![a] = Retried(job[a])]
        /\ UNCHANGED <<client, faults>>
    BY <1>0, <1>2 DEF RecordFailure
  <2>2. /\ audits' \in [Audits -> AuditStatus] /\ audits'[a] \in {"failed", "absent"}
        /\ \A b \in Audits \ {a} : audits'[b] = audits[b]
    BY <1>0, <2>1 DEF IInv, JobKnows, AuditStatus
  <2>3. /\ tasks' \in [Audits -> TaskStatus] /\ tasks'[a] \in {"failed", "cancelling"}
        /\ \A b \in Audits \ {a} : tasks'[b] = tasks[b]
    BY <1>0, <2>1 DEF IInv, JobKnows, TaskStatus, Written
  <2>4. /\ job' \in [Audits -> Job] /\ job'[a].pc \in {"delivered", "exhausted"}
        /\ \A b \in Audits \ {a} : job'[b] = job[b]
    BY <1>0, <2>1, RetriedType
  <2>5. CeleryTypeOK' /\ Only(a) /\ client' = client
    BY <2>1, <2>2, <2>3, <2>4 DEF IInv, CeleryTypeOK, Only
  <2>6. JobKnows(a)'
    BY <2>2, <2>3, <2>4 DEF JobKnows
  <2>. QED
    BY <2>2, <2>3, <2>5, <2>6, OwnStep
<1>. QED
  BY <1>1, <1>2

LEMMA DbErrorInv == ASSUME IInv, NEW a \in Audits, DbError(a) PROVE IInv' /\ Only(a)
<1>1. /\ job' \in [Audits -> Job] /\ job'[a].pc \in {"failing", "escaped"}
      /\ job'[a].retries = job[a].retries /\ \A b \in Audits \ {a} : job'[b] = job[b]
  BY JobMoves DEF IInv, CeleryTypeOK, DbError, ActivePC, EndedPC
<1>2. faults' \in 0..MaxFaults
  BY DEF IInv, CeleryTypeOK, DbError
<1>3. CeleryTypeOK' /\ Only(a) /\ client' = client /\ tasks'[a] # "absent"
  BY <1>1, <1>2 DEF IInv, CeleryTypeOK, DbError, Only, JobKnows, Active, ActivePC
<1>4. JobKnows(a)'
  BY <1>1, <1>3 DEF IInv, JobKnows, DbError
<1>. QED
  BY <1>1, <1>3, <1>4, OwnStep

\* The process dies: what it was doing is lost, in every job at once.
LEMMA ProcessDiesInv == ASSUME IInv, ProcessDies PROVE IInv'
<1>1. \A a \in Audits :
        /\ job'[a] \in Job
        /\ job'[a] = job[a]
             \/ (job'[a].pc = "lost" /\ job'[a].retries = job[a].retries /\ job[a].pc \in ActivePC)
  <2>. TAKE a \in Audits
  <2>. DEFINE new == [job[a] EXCEPT !.pc = "lost"]
  <2>1. new \in Job /\ new.pc = "lost" /\ new.retries = job[a].retries /\ job[a] \in Job
    BY DEF IInv, CeleryTypeOK, Job, EndedPC
  <2>2. job'[a] = IF job[a].pc \in ActivePC \ {"delivered"} THEN new ELSE job[a]
    BY DEF ProcessDies
  <2>. HIDE DEF new
  <2>. QED
    BY <2>1, <2>2
<1>2. job' \in [Audits -> Job]
  BY <1>1 DEF ProcessDies
<1>3. faults' \in 0..MaxFaults /\ UNCHANGED <<audits, tasks, client>>
  BY DEF IInv, CeleryTypeOK, ProcessDies
<1>4. CeleryTypeOK'
  BY <1>2, <1>3 DEF IInv, CeleryTypeOK
<1>5. RetriedJobTells'
  BY <1>1, <1>3 DEF IInv, RetriedJobTells
<1>6. \A a \in Audits : JobKnows(a)'
  BY <1>1, <1>3 DEF IInv, JobKnows, ActivePC
<1>7. \A c \in Clients : ClientKnows(c)'
  BY <1>3 DEF IInv, ClientKnows
<1>. QED
  BY <1>4, <1>5, <1>6, <1>7 DEF IInv

\* A handler reads, and holds what it read.
LEMMA RequestInv ==
    ASSUME IInv, NEW c \in Clients, NEW a \in Audits, CancelTask(c, a) \/ DeleteAudit(c, a)
    PROVE  IInv'
<1>1. PICK new \in Client : new.audit = a /\ client' = [client EXCEPT ![c] = new]
  <2>1. [pc |-> "cancel", audit |-> a, seen |-> tasks[a]] \in Client
    BY DEF IInv, CeleryTypeOK, Client
  <2>2. [pc |-> "delete", audit |-> a, seen |-> "absent"] \in Client
    BY DEF Client, TaskStatus
  <2>. QED
    BY <2>1, <2>2 DEF CancelTask, DeleteAudit
<1>2. tasks[a] # "absent" /\ UNCHANGED <<audits, tasks, job, faults>>
  BY DEF IInv, JobKnows, CancelTask, DeleteAudit, AuditExists
<1>3. CeleryTypeOK'
  BY <1>1, <1>2 DEF IInv, CeleryTypeOK
<1>4. RetriedJobTells' /\ \A b \in Audits : JobKnows(b)'
  BY <1>2 DEF IInv, RetriedJobTells, JobKnows
<1>5. \A d \in Clients : ClientKnows(d)'
  BY <1>1, <1>2 DEF IInv, CeleryTypeOK, ClientKnows
<1>. QED
  BY <1>3, <1>4, <1>5 DEF IInv

LEMMA IdleType == Idle \in Client /\ Idle.pc = "idle"
BY DEF Idle, Client, TaskStatus

LEMMA CancelCommitInv == ASSUME IInv, NEW c \in Clients, CancelCommit(c) PROVE IInv'
<1>. DEFINE a == client[c].audit
<1>0. a \in Audits /\ tasks[a] # "absent"
  BY DEF IInv, ClientKnows, CancelCommit
<1>1. /\ tasks' \in [Audits -> TaskStatus]
      /\ tasks'[a] = tasks[a] \/ tasks'[a] = "cancelling"
      /\ \A b \in Audits \ {a} : tasks'[b] = tasks[b]
  BY <1>0 DEF IInv, CeleryTypeOK, CancelCommit, Written, TaskStatus
<1>2. client' = [client EXCEPT ![c] = Idle] /\ UNCHANGED <<audits, job, faults>>
  BY DEF CancelCommit
<1>3. CeleryTypeOK'
  BY <1>1, <1>2, IdleType DEF IInv, CeleryTypeOK
<1>4. RetriedJobTells'
  BY <1>1, <1>2 DEF IInv, RetriedJobTells
<1>5. \A b \in Audits : JobKnows(b)'
  BY <1>0, <1>1, <1>2 DEF IInv, JobKnows
<1>6. \A d \in Clients : ClientKnows(d)'
  BY <1>0, <1>1, <1>2, IdleType DEF IInv, CeleryTypeOK, ClientKnows
<1>. QED
  BY <1>3, <1>4, <1>5, <1>6 DEF IInv

LEMMA DeleteCommitInv == ASSUME IInv, NEW c \in Clients, DeleteCommit(c) PROVE IInv'
<1>. DEFINE a == client[c].audit
<1>0. a \in Audits
  BY DEF IInv, ClientKnows, DeleteCommit
<1>1. /\ audits' \in [Audits -> AuditStatus] /\ audits'[a] = "absent"
      /\ \A b \in Audits \ {a} : audits'[b] = audits[b]
  BY <1>0 DEF IInv, CeleryTypeOK, DeleteCommit, AuditStatus
<1>2. client' = [client EXCEPT ![c] = Idle] /\ UNCHANGED <<tasks, job, faults>>
  BY DEF DeleteCommit
<1>3. CeleryTypeOK'
  BY <1>1, <1>2, IdleType DEF IInv, CeleryTypeOK
<1>4. RetriedJobTells' /\ \A b \in Audits : JobKnows(b)'
  BY <1>1, <1>2 DEF IInv, RetriedJobTells, JobKnows
<1>5. \A d \in Clients : ClientKnows(d)'
  BY <1>2, IdleType DEF IInv, CeleryTypeOK, ClientKnows
<1>. QED
  BY <1>3, <1>4, <1>5 DEF IInv

LEMMA StepInv == ASSUME IInv, [CeleryNext]_celeryVars PROVE IInv'
<1>1. CASE UNCHANGED celeryVars
  BY <1>1 DEF IInv, CeleryTypeOK, RetriedJobTells, JobKnows, ClientKnows, celeryVars
<1>2. CASE \E a \in Audits : \/ Dispatch(a) \/ Begin(a) \/ FindAudit(a) \/ RereadRows(a)
                             \/ RecordFailure(a) \/ DbError(a)
  BY <1>2, DispatchInv, BeginInv, FindAuditInv, RereadRowsInv, RecordFailureInv, DbErrorInv
<1>3. CASE ProcessDies
  BY <1>3, ProcessDiesInv
<1>4. CASE \E c \in Clients : \/ \E a \in Audits : CancelTask(c, a) \/ DeleteAudit(c, a)
                              \/ CancelCommit(c) \/ DeleteCommit(c)
  BY <1>4, RequestInv, CancelCommitInv, DeleteCommitInv
<1>. QED
  BY <1>1, <1>2, <1>3, <1>4 DEF CeleryNext

LEMMA Invariance == CelerySpec => []IInv
<1>. QED
  BY InitInv, StepInv, PTL DEF CelerySpec

\* Rows, jobs and handlers stay of their types.
THEOREM CeleryTypeCorrect == CelerySpec => []CeleryTypeOK
<1>1. IInv => CeleryTypeOK
  BY DEF IInv
<1>. QED
  BY <1>1, Invariance, PTL

\* A job that waits for its retry, or that has none left, has said so in both rows.
THEOREM RetriedJobsTell == CelerySpec => []RetriedJobTells
<1>1. IInv => RetriedJobTells
  BY DEF IInv
<1>. QED
  BY <1>1, Invariance, PTL

-----------------------------------------------------------------------------
\* Jobs go forward.

\* The steps a job has taken at least: four for each attempt, and one to end.
StepsOfAll == 4 * (MaxRetries + 1)
Taken(j) ==
    CASE j.pc = "none" -> 0
      [] j.pc = "delivered" -> 4 * j.retries + 1
      [] j.pc = "begun" -> 4 * j.retries + 2
      [] j.pc = "failing" -> 4 * j.retries + 3
      [] j.pc = "reread" -> 4 * j.retries + 4
      [] OTHER -> StepsOfAll + 1

\* The count of every position, and its bounds.
LEMMA TakenCounts ==
    ASSUME NEW j \in Job
    PROVE  /\ j.retries \in Nat /\ j.retries <= MaxRetries /\ Taken(j) \in 0..(StepsOfAll + 1)
           /\ j.pc = "none" => Taken(j) = 0
           /\ j.pc = "delivered" => Taken(j) = 4 * j.retries + 1
           /\ j.pc = "begun" => Taken(j) = 4 * j.retries + 2
           /\ j.pc = "failing" => Taken(j) = 4 * j.retries + 3
           /\ j.pc = "reread" => Taken(j) = 4 * j.retries + 4
           /\ j.pc \in ActivePC \cup {"none"} => Taken(j) < StepsOfAll + 1
           /\ j.pc \in EndedPC => Taken(j) = StepsOfAll + 1
<1>1. j.retries \in Nat /\ j.retries <= MaxRetries /\ MaxRetries \in Nat
  BY DEF Job
<1>2. j.pc \in {"none", "delivered", "begun", "failing", "reread"} \cup EndedPC
  BY DEF Job, ActivePC
<1>. QED
  BY <1>1, <1>2 DEF Taken, StepsOfAll, ActivePC, EndedPC

\* Every step of the system takes a job forward or leaves it alone.
LEMMA JobForward ==
    ASSUME IInv, CeleryTypeOK', [CeleryNext]_celeryVars, NEW b \in Audits
    PROVE  job'[b] = job[b] \/ Taken(job[b]) < Taken(job'[b])
<1>0. job \in [Audits -> Job] /\ job[b] \in Job /\ job'[b] \in Job
  BY DEF IInv, CeleryTypeOK
<1>c. ASSUME NEW j \in Job, NEW k \in Job, j.retries = k.retries,
             \/ j.pc = "none" /\ k.pc = "delivered"
             \/ j.pc = "delivered" /\ k.pc \in {"begun", "failing"}
             \/ j.pc = "begun" /\ k.pc = "failing"
             \/ j.pc = "failing" /\ k.pc = "reread"
             \/ j.pc \in ActivePC /\ k.pc \in EndedPC
      PROVE  Taken(j) < Taken(k)
  <2>1. j.retries \in Nat /\ MaxRetries \in Nat
    BY TakenCounts
  <2>2. j.pc \in ActivePC => Taken(j) < StepsOfAll + 1
    BY TakenCounts
  <2>3. k.pc \in EndedPC => Taken(k) = StepsOfAll + 1
    BY TakenCounts
  <2>4. CASE j.pc \in ActivePC /\ k.pc \in EndedPC
    BY <2>2, <2>3, <2>4
  <2>5. CASE ~(j.pc \in ActivePC /\ k.pc \in EndedPC)
    BY <1>c, <2>1, <2>5, TakenCounts
  <2>. QED
    BY <2>4, <2>5
<1>1. CASE UNCHANGED job
  BY <1>1
<1>2. ASSUME NEW a \in Audits, \/ Dispatch(a) \/ Begin(a) \/ FindAudit(a)
                               \/ RereadRows(a) \/ DbError(a)
      PROVE  job'[b] = job[b] \/ Taken(job[b]) < Taken(job'[b])
  <2>1. CASE b # a
    BY <1>0, <1>2, <2>1 DEF Dispatch, Begin, FindAudit, RereadRows, DbError, Goto
  <2>2. CASE b = a /\ RereadRows(a)
    <3>1. job[a].pc = "failing" /\ job'[a].pc = "reread" /\ job'[a].retries = job[a].retries
      BY <1>0, <2>2 DEF RereadRows, Job
    <3>. QED
      BY <1>0, <1>c, <2>2, <3>1
  <2>3. CASE b = a /\ ~RereadRows(a)
    <3>1. \E pc \in {"none"} \cup ActivePC \cup EndedPC :
            /\ Goto(a, pc)
            /\ \/ job[a].pc = "none" /\ pc = "delivered"
               \/ job[a].pc = "delivered" /\ pc \in {"begun", "failing"}
               \/ job[a].pc = "begun" /\ pc = "failing"
               \/ job[a].pc \in ActivePC /\ pc \in EndedPC
      BY <1>2, <2>3
      DEF Dispatch, Begin, FindAudit, DbError, IInv, JobKnows, Active, ActivePC, EndedPC
    <3>2. PICK pc \in {"none"} \cup ActivePC \cup EndedPC :
            /\ Goto(a, pc)
            /\ \/ job[a].pc = "none" /\ pc = "delivered"
               \/ job[a].pc = "delivered" /\ pc \in {"begun", "failing"}
               \/ job[a].pc = "begun" /\ pc = "failing"
               \/ job[a].pc \in ActivePC /\ pc \in EndedPC
      BY <3>1
    <3>3. job'[a].pc = pc /\ job'[a].retries = job[a].retries
      BY <1>0, <3>2, JobMoves
    <3>. QED
      BY <1>0, <1>c, <2>3, <3>2, <3>3
  <2>. QED
    BY <2>1, <2>2, <2>3
<1>3. ASSUME NEW a \in Audits, RecordFailure(a)
      PROVE  job'[b] = job[b] \/ Taken(job[b]) < Taken(job'[b])
  <2>1. CASE b # a
    BY <1>0, <1>3, <2>1 DEF RecordFailure, Goto
  <2>2. CASE b = a /\ Goto(a, "escaped")
    <3>1. job'[a].pc = "escaped" /\ job'[a].retries = job[a].retries /\ job[a].pc = "reread"
      BY <1>0, <1>3, <2>2, JobMoves DEF RecordFailure, EndedPC
    <3>. QED
      BY <1>0, <1>c, <2>2, <3>1 DEF ActivePC, EndedPC
  <2>3. CASE b = a /\ ~Goto(a, "escaped")
    <3>1. job'[a] = Retried(job[a]) /\ job[a].pc = "reread"
      BY <1>0, <1>3, <2>3 DEF RecordFailure
    <3>2. CASE job[a].retries < MaxRetries
      <4>1. Retried(job[a]).pc = "delivered" /\ Retried(job[a]).retries = job[a].retries + 1
        BY <3>2 DEF Retried, NoJob
      <4>. QED
        BY <1>0, <2>3, <3>1, <4>1, TakenCounts
    <3>3. CASE ~(job[a].retries < MaxRetries)
      <4>1. Retried(job[a]).pc \in EndedPC
        BY <3>3 DEF Retried, NoJob, EndedPC
      <4>2. Taken(job'[a]) = StepsOfAll + 1
        BY <1>0, <2>3, <3>1, <4>1, TakenCounts
      <4>3. Taken(job[a]) < StepsOfAll + 1
        BY <1>0, <2>3, <3>1, TakenCounts DEF ActivePC
      <4>. QED
        BY <2>3, <4>2, <4>3
    <3>. QED
      BY <3>2, <3>3
  <2>. QED
    BY <2>1, <2>2, <2>3
<1>4. CASE ProcessDies
  <2>. DEFINE new == [job[b] EXCEPT !.pc = "lost"]
  <2>1. job'[b] = IF job[b].pc \in ActivePC \ {"delivered"} THEN new ELSE job[b]
    BY <1>4 DEF ProcessDies
  <2>2. new.pc = "lost" /\ new.retries = job[b].retries
    BY <1>0 DEF Job
  <2>. HIDE DEF new
  <2>. QED
    BY <1>0, <1>c, <2>1, <2>2 DEF EndedPC
<1>5. \/ UNCHANGED job
      \/ ProcessDies
      \/ \E a \in Audits : \/ Dispatch(a) \/ Begin(a) \/ FindAudit(a) \/ RereadRows(a)
                           \/ DbError(a)
      \/ \E a \in Audits : RecordFailure(a)
  BY DEF CeleryNext, celeryVars, CancelTask, DeleteAudit, CancelCommit, DeleteCommit
<1>. QED
  BY <1>1, <1>2, <1>3, <1>4, <1>5

\* Every step of a job, its retries and the errors of the database included, brings it
\* nearer to its end, and MaxRetries + 1 attempts of four steps are all there are.  This
\* is the part of EveryJobEnds that needs no fairness.
THEOREM JobsGoForward ==
    CelerySpec => /\ [](\A a \in Audits : Taken(job[a]) \in 0..(StepsOfAll + 1))
                  /\ [][\A a \in Audits : \/ job'[a] = job[a]
                                          \/ Taken(job[a]) < Taken(job'[a])]_celeryVars
<1>1. ASSUME IInv
      PROVE  \A a \in Audits : Taken(job[a]) \in 0..(StepsOfAll + 1)
  <2>. TAKE a \in Audits
  <2>1. job[a] \in Job
    BY <1>1 DEF IInv, CeleryTypeOK
  <2>. QED
    BY <2>1, TakenCounts
<1>2. ASSUME IInv, [CeleryNext]_celeryVars
      PROVE  \A a \in Audits : \/ job'[a] = job[a]
                               \/ Taken(job[a]) < Taken(job'[a])
  BY <1>2, StepInv, JobForward DEF IInv
<1>. QED
  BY Invariance, <1>1, <1>2, PTL DEF CelerySpec

-----------------------------------------------------------------------------
\* The lifecycle that a client sees.
OutcomeBar == [a \in Audits |-> Outcome(a)]
LiveBar == {a \in Audits : Active(a)}
Created(a) == tasks[a] # "absent"

LEMMA LifecycleInit == CeleryInit => Lifecycle!Init
BY DEF CeleryInit, Lifecycle!Init, Outcome, AuditExists, Active, ActivePC, NoJob

\* A step that writes no audit ends jobs, or shows nothing at all.
LEMMA Ending ==
    ASSUME audits' = audits, \A b \in Audits : Created(b)' <=> Created(b),
           \A b \in Audits : Active(b)' => Active(b)
    PROVE  [Lifecycle!Next]_(Lifecycle!vars)
<1>. DEFINE ended == LiveBar \ LiveBar'
<1>1. OutcomeBar' = OutcomeBar
  BY DEF OutcomeBar, Outcome, AuditExists, Created
<1>2. LiveBar' = LiveBar \ ended /\ ended \subseteq LiveBar
  BY DEF LiveBar
<1>3. CASE ended = {}
  BY <1>1, <1>2, <1>3 DEF Lifecycle!vars, OutcomeBar, LiveBar
<1>4. CASE ended # {}
  <2>1. Lifecycle!Retire(ended)
    BY <1>1, <1>2, <1>4 DEF Lifecycle!Retire, OutcomeBar, LiveBar
  <2>. QED
    BY <1>2, <2>1 DEF Lifecycle!Next, LiveBar
<1>. QED
  BY <1>3, <1>4

LEMMA DispatchLifecycle == ASSUME IInv, NEW a \in Audits, Dispatch(a) PROVE Lifecycle!Next
<1>1. /\ audits'[a] = "queued" /\ tasks'[a] = "pending" /\ job'[a].pc = "delivered"
      /\ audits[a] = "absent" /\ tasks[a] = "absent" /\ ~Active(a)
  BY JobMoves DEF IInv, CeleryTypeOK, JobKnows, Dispatch, Active, ActivePC
<1>2. \A b \in Audits \ {a} : audits'[b] = audits[b] /\ tasks'[b] = tasks[b] /\ job'[b] = job[b]
  BY DispatchInv DEF Only
<1>3. OutcomeBar[a] = "none" /\ OutcomeBar' = [OutcomeBar EXCEPT ![a] = "queued"]
  BY <1>1, <1>2 DEF OutcomeBar, Outcome, AuditExists
<1>4. LiveBar' = LiveBar \cup {a}
  BY <1>1, <1>2 DEF LiveBar, Active, ActivePC
<1>5. Lifecycle!Submit(a)
  BY <1>3, <1>4 DEF Lifecycle!Submit, OutcomeBar, LiveBar
<1>. QED
  BY <1>5 DEF Lifecycle!Next

\* The one step that writes an audit: the first failure is the result, and every
\* later one finds it there.
LEMMA RecordLifecycle ==
    ASSUME IInv, NEW a \in Audits, RecordFailure(a), audits' # audits
    PROVE  Lifecycle!Next
<1>0. /\ job \in [Audits -> Job] /\ job[a] \in Job /\ audits \in [Audits -> AuditStatus]
      /\ Active(a) /\ Created(a) /\ job[a].retries \in 0..MaxRetries
  BY DEF IInv, CeleryTypeOK, JobKnows, RecordFailure, Active, ActivePC, Created, Job
<1>1. /\ audits' = [audits EXCEPT ![a] = "failed"] /\ AuditExists(a)
      /\ job' = [job EXCEPT ![a] = Retried(job[a])]
  BY DEF RecordFailure
<1>2. audits[a] = "queued"
  BY <1>0, <1>1 DEF AuditStatus, AuditExists
<1>3. job[a].retries = 0
  BY <1>0, <1>2 DEF IInv, JobKnows
<1>4. job'[a].pc = "delivered"
  BY <1>0, <1>1, <1>3, RetriedType
<1>5. \A b \in Audits \ {a} : audits'[b] = audits[b] /\ tasks'[b] = tasks[b] /\ job'[b] = job[b]
  BY RecordFailureInv DEF Only
<1>6. Created(a)'
  BY <1>0, RecordFailureInv DEF IInv, JobKnows, Created, RecordFailure, Written
<1>7. OutcomeBar[a] = "queued" /\ OutcomeBar' = [OutcomeBar EXCEPT ![a] = "failed"]
  BY <1>0, <1>1, <1>2, <1>5, <1>6 DEF OutcomeBar, Outcome, AuditExists, Created
<1>8. LiveBar' = LiveBar /\ a \in LiveBar
  BY <1>0, <1>4, <1>5 DEF LiveBar, Active, ActivePC
<1>9. Lifecycle!Settle(a, "failed")
  BY <1>7, <1>8 DEF Lifecycle!Settle, OutcomeBar, LiveBar
<1>. QED
  BY <1>9 DEF Lifecycle!Next

LEMMA JobLifecycle ==
    ASSUME IInv, NEW a \in Audits,
           Begin(a) \/ FindAudit(a) \/ RereadRows(a) \/ RecordFailure(a) \/ DbError(a)
    PROVE  [Lifecycle!Next]_(Lifecycle!vars)
<1>1. CASE audits' # audits
  BY <1>1, RecordLifecycle DEF Begin, FindAudit, RereadRows, DbError
<1>2. CASE audits' = audits
  <2>1. Active(a) /\ Created(a)
    BY DEF IInv, JobKnows, Created, Active, ActivePC, Begin, FindAudit, RereadRows,
           RecordFailure, DbError
  <2>2. IInv' /\ Only(a)
    BY BeginInv, FindAuditInv, RereadRowsInv, RecordFailureInv, DbErrorInv
  <2>3. Created(a)'
    <3>1. CASE tasks' = tasks
      BY <2>1, <3>1 DEF Created
    <3>2. CASE Begin(a) \/ RecordFailure(a)
      BY <2>1, <3>2 DEF IInv, CeleryTypeOK, Created, Begin, RecordFailure, Written
    <3>. QED
      BY <3>1, <3>2 DEF FindAudit, RereadRows, DbError
  <2>4. \A b \in Audits : (Created(b)' <=> Created(b)) /\ (Active(b)' => Active(b))
    BY <2>1, <2>2, <2>3 DEF Only, Created, Active
  <2>. QED
    BY <1>2, <2>4, Ending
<1>. QED
  BY <1>1, <1>2

LEMMA CancelLifecycle ==
    ASSUME IInv, NEW c \in Clients, CancelCommit(c)
    PROVE  [Lifecycle!Next]_(Lifecycle!vars)
<1>1. \A b \in Audits : Created(b)' <=> Created(b)
  BY DEF IInv, CeleryTypeOK, ClientKnows, CancelCommit, Written, Created
<1>. QED
  BY <1>1, Ending DEF CancelCommit, Active

LEMMA DeleteLifecycle ==
    ASSUME IInv, NEW c \in Clients, DeleteCommit(c)
    PROVE  [Lifecycle!Next]_(Lifecycle!vars)
<1>. DEFINE a == client[c].audit
<1>0. a \in Audits /\ Created(a) /\ audits \in [Audits -> AuditStatus]
  BY DEF IInv, CeleryTypeOK, ClientKnows, DeleteCommit, Created
<1>1. audits' = [audits EXCEPT ![a] = "absent"] /\ tasks' = tasks /\ job' = job
  BY DEF DeleteCommit
<1>2. CASE ~AuditExists(a)
  <2>1. audits' = audits
    BY <1>0, <1>1, <1>2 DEF AuditExists
  <2>. QED
    BY <1>1, <2>1, Ending DEF Created, Active
<1>3. CASE AuditExists(a)
  <2>1. OutcomeBar[a] \in {"queued", "completed", "failed"}
    BY <1>0, <1>3 DEF OutcomeBar, Outcome, AuditStatus, AuditExists
  <2>2. OutcomeBar' = [OutcomeBar EXCEPT ![a] = "removed"] /\ LiveBar' = LiveBar
    BY <1>0, <1>1 DEF OutcomeBar, LiveBar, Outcome, AuditExists, Created, Active
  <2>3. Lifecycle!Remove(a)
    BY <2>1, <2>2 DEF Lifecycle!Remove, OutcomeBar, LiveBar
  <2>. QED
    BY <1>0, <2>3 DEF Lifecycle!Next
<1>. QED
  BY <1>2, <1>3

LEMMA StepLifecycle ==
    ASSUME IInv, [CeleryNext]_celeryVars PROVE [Lifecycle!Next]_(Lifecycle!vars)
<1>1. CASE UNCHANGED celeryVars
  BY <1>1, Ending DEF celeryVars, Created, Active
<1>2. CASE \E a \in Audits : Dispatch(a)
  BY <1>2, DispatchLifecycle
<1>3. CASE \E a \in Audits : \/ Begin(a) \/ FindAudit(a) \/ RereadRows(a)
                             \/ RecordFailure(a) \/ DbError(a)
  BY <1>3, JobLifecycle
<1>4. CASE ProcessDies
  <2>1. \A b \in Audits : Active(b)' => Active(b)
    BY <1>4 DEF ProcessDies, Active
  <2>. QED
    BY <1>4, <2>1, Ending DEF ProcessDies, Created
<1>5. CASE \E c \in Clients, a \in Audits : CancelTask(c, a) \/ DeleteAudit(c, a)
  BY <1>5, Ending DEF CancelTask, DeleteAudit, Created, Active
<1>6. CASE \E c \in Clients : CancelCommit(c) \/ DeleteCommit(c)
  BY <1>6, CancelLifecycle, DeleteLifecycle
<1>. QED
  BY <1>1, <1>2, <1>3, <1>4, <1>5, <1>6 DEF CeleryNext

\* The Celery runner implements the contract of the audit engine, for any number of
\* retries and of faults: the result is written once, and a deletion is final.
THEOREM CeleryRunnerImplementsLifecycle == CelerySpec => CeleryImplementsLifecycle
<1>. QED
  BY LifecycleInit, StepLifecycle, Invariance, PTL
  DEF CelerySpec, CeleryImplementsLifecycle, Lifecycle!Spec
=============================================================================
