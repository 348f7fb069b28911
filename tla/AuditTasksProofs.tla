-------------------------- MODULE AuditTasksProofs --------------------------
(***************************************************************************)
(* Theorems about AuditTasks, for any sets of audits, workers and requests *)
(* and any bounds on the faults.  The inductive invariant is IInv: the     *)
(* three row invariants alone are not inductive, because whether a commit  *)
(* keeps them depends on what the coroutine and the handlers learned       *)
(* earlier, which is what CoroutineInv says.                               *)
(***************************************************************************)
EXTENDS AuditTasks, TLAPS

RowInv == RowsAgree /\ StampsTell /\ EndedRunnerSettles
IInv == TypeOK /\ CoroutineInv /\ RowInv

RunnerPC == {"none"} \cup TryPC \cup HandlerPC \cup EndedPC

-----------------------------------------------------------------------------
\* What the assignments to a task row do, field by field.
LEMMA TaskRows ==
  ASSUME NEW t \in TaskRow, NEW seen \in TaskStatus
  PROVE  /\ NoTaskRow \in TaskRow /\ NoTaskRow.status = "absent" /\ ~NoTaskRow.finished_at
         /\ NewTask \in TaskRow /\ NewTask.status = "pending"
         /\ ~NewTask.finished_at /\ ~NewTask.error
         /\ Started(t) \in TaskRow /\ Started(t).status = "running"
         /\ Started(t).finished_at = t.finished_at /\ Started(t).error = t.error
         /\ Cancelled(t) \in TaskRow /\ Cancelled(t).status = "cancelled"
         /\ Cancelled(t).finished_at
         /\ Succeeded(t) \in TaskRow /\ Succeeded(t).status = "completed"
         /\ Succeeded(t).finished_at
         /\ Failed(t) \in TaskRow /\ Failed(t).status = "failed" /\ Failed(t).finished_at
         /\ CancelRequested(t, seen) \in TaskRow
         /\ CancelRequested(t, seen).status \in {t.status, "cancelling"}
         /\ CancelRequested(t, seen).finished_at = t.finished_at
         /\ CancelRequested(t, seen).error = t.error
  BY DEF TaskRow, TaskStatus, Terminal, NoTaskRow, NewTask, Started, Cancelled, Succeeded,
         Failed, CancelRequested

\* What the assignments to an audit row do.
LEMMA AuditRows ==
  ASSUME NEW r \in AuditRow
  PROVE  /\ NoAuditRow \in AuditRow /\ NoAuditRow.status = "absent" /\ ~NoAuditRow.completed_at
         /\ NewAudit \in AuditRow /\ NewAudit.status = "queued" /\ ~NewAudit.completed_at
         /\ AuditCompleted(r) \in AuditRow /\ AuditCompleted(r).status = "completed"
         /\ AuditCompleted(r).completed_at
         /\ AuditFailed(r) \in AuditRow /\ AuditFailed(r).status = "failed"
         /\ AuditFailed(r).completed_at
  BY DEF AuditRow, AuditStatus, NoAuditRow, NewAudit, AuditCompleted, AuditFailed

\* Moving a coroutine changes its program counter and nothing else.
LEMMA Moves ==
  ASSUME NEW r \in Runner, NEW pc \in RunnerPC
  PROVE  /\ At(r, pc) \in Runner /\ At(r, pc).pc = pc
         /\ At(r, pc).worker = r.worker /\ At(r, pc).sawAudit = r.sawAudit
  BY DEF Runner, RunnerPC, At

\* Goto moves one coroutine and leaves the others where they are.
LEMMA GotoMoves ==
  ASSUME TypeOK, NEW a \in Audits, NEW pc \in RunnerPC, Goto(a, pc)
  PROVE  /\ runner' \in [Audits -> Runner]
         /\ runner'[a] = At(runner[a], pc) /\ runner'[a].pc = pc
         /\ \A b \in Audits \ {a} : runner'[b] = runner[b]
  BY Moves DEF TypeOK, Goto

-----------------------------------------------------------------------------
\* The type invariant.

\* The initial state is well typed.
LEMMA InitTypeOK == Init => TypeOK
<1> SUFFICES ASSUME Init PROVE TypeOK
  OBVIOUS
<1>1. NoTaskRow \in TaskRow /\ NoAuditRow \in AuditRow
  BY DEF NoTaskRow, TaskRow, TaskStatus, NoAuditRow, AuditRow, AuditStatus
<1>2. NoRunner \in Runner /\ Idle \in Client
  BY DEF NoRunner, Runner, Idle, Client, TaskStatus
<1> QED BY <1>1, <1>2, AuditTasksAssumption DEF Init, TypeOK

\* Every step of a coroutine keeps the rows and coroutines well typed.
LEMMA RunnerTypeOK == ASSUME TypeOK, NEW a \in Audits, RunnerStep(a) PROVE TypeOK'
<1>0. audits[a] \in AuditRow /\ tasks[a] \in TaskRow /\ runner[a] \in Runner
  BY DEF TypeOK
<1>a. "absent" \in TaskStatus
  BY DEF TaskStatus
<1> USE <1>0, <1>a, GotoMoves DEF TypeOK, RunnerPC, TryPC, HandlerPC, EndedPC, faults
<1>1. CASE StartTask(a) BY <1>1, TaskRows DEF StartTask
<1>2. CASE LoadAudit(a) BY <1>2 DEF LoadAudit
<1>3. CASE CheckCancellation(a)
  <2>1. CASE tasks[a].cancellation_token
    BY <1>3, <2>1, TaskRows DEF CheckCancellation
  <2>2. CASE ~tasks[a].cancellation_token
    BY <1>3, <2>2 DEF CheckCancellation
  <2>. QED
    BY <2>1, <2>2
<1>4. CASE CompleteAudit(a) BY <1>4, TaskRows, AuditRows DEF CompleteAudit
<1>5. CASE AuditRaises(a) BY <1>5 DEF AuditRaises
<1>6. CASE NotifyCompletion(a) BY <1>6 DEF NotifyCompletion, Enqueue, Event
<1>7. CASE RereadRows(a) BY <1>7 DEF RereadRows, AuditExists, Runner
<1>8. CASE RecordFailure(a) BY <1>8, TaskRows, AuditRows DEF RecordFailure
<1>9. CASE NotifyFailure(a) BY <1>9 DEF NotifyFailure, Enqueue, Event
<1> QED BY <1>1, <1>2, <1>3, <1>4, <1>5, <1>6, <1>7, <1>8, <1>9, RunnerStep(a) DEF RunnerStep

\* Creating an audit inserts well-typed rows and a well-typed coroutine.
LEMMA CreateTypeOK ==
  ASSUME TypeOK, NEW a \in Audits, NEW w \in Workers, CreateAudit(a, w)
  PROVE  TypeOK'
<1>1. audits[a] \in AuditRow /\ tasks[a] \in TaskRow /\ "absent" \in TaskStatus
  BY DEF TypeOK, TaskStatus
<1> QED BY <1>1, TaskRows, AuditRows DEF CreateAudit, TypeOK, Runner, TryPC, faults

\* A handler that starts to cancel or delete is well typed.
LEMMA RequestTypeOK ==
  ASSUME TypeOK, NEW a \in Audits, NEW c \in Clients, NEW w \in Workers,
         CancelTask(c, a, w) \/ DeleteAudit(c, a, w)
  PROVE  TypeOK'
<1>1. tasks[a].status \in TaskStatus /\ "absent" \in TaskStatus
  BY DEF TypeOK, TaskRow, TaskStatus
<1> QED BY <1>1 DEF CancelTask, DeleteAudit, TypeOK, Client, faults

\* What a cancel or a deletion commits is well typed.
LEMMA ClientTypeOK == ASSUME TypeOK, NEW c \in Clients, ClientStep(c) PROVE TypeOK'
<1>1. client[c].seen \in TaskStatus /\ client[c] \in Client /\ Idle \in Client
  BY DEF TypeOK, Client, Idle, TaskStatus
<1>2. NoAuditRow \in AuditRow
  BY DEF AuditRow, AuditStatus, NoAuditRow
<1>3. CASE CancelCommit(c)
  <2>1. tasks' \in [Audits -> TaskRow]
    BY <1>3, <1>1, TaskRows DEF CancelCommit, TypeOK
  <2> QED BY <1>1, <1>3, <2>1 DEF CancelCommit, TypeOK, faults
<1>4. CASE DeleteCommit(c) BY <1>1, <1>2, <1>4 DEF DeleteCommit, TypeOK, faults
<1> QED BY <1>3, <1>4, ClientStep(c) DEF ClientStep

\* A database error moves one coroutine and counts one fault.
LEMMA DbErrorTypeOK == ASSUME TypeOK, NEW a \in Audits, DbError(a) PROVE TypeOK'
<1>1. runner' \in [Audits -> Runner]
  BY GotoMoves DEF DbError, RunnerPC, HandlerPC, EndedPC
<1> QED BY <1>1, AuditTasksAssumption DEF DbError, TypeOK

\* A restart ends coroutines and handlers and counts one fault.
LEMMA RestartTypeOK == ASSUME TypeOK, NEW w \in Workers, Restart(w) PROVE TypeOK'
<1>1. Idle \in Client
  BY DEF Idle, Client, TaskStatus
<1>2. runner' \in [Audits -> Runner]
  BY Moves DEF Restart, TypeOK, RunnerPC, EndedPC
<1> QED BY <1>1, <1>2, AuditTasksAssumption DEF Restart, TypeOK

\* Every step keeps the state well typed.
LEMMA StepTypeOK == TypeOK /\ [Next]_vars => TypeOK'
<1> SUFFICES ASSUME TypeOK, [Next]_vars PROVE TypeOK'
  OBVIOUS
<1>1. CASE UNCHANGED vars BY <1>1 DEF vars, TypeOK
<1>2. CASE \E a \in Audits : RunnerStep(a) \/ DbError(a)
  BY <1>2, RunnerTypeOK, DbErrorTypeOK
<1>3. CASE \E c \in Clients : ClientStep(c)
  <2>1. PICK c \in Clients : ClientStep(c)
    BY <1>3
  <2> QED BY <2>1, ClientTypeOK
<1>4. CASE \E w \in Workers : Restart(w)
  BY <1>4, RestartTypeOK
<1>5. CASE \E w \in Workers, a \in Audits :
             \/ CreateAudit(a, w)
             \/ \E c \in Clients : CancelTask(c, a, w) \/ DeleteAudit(c, a, w)
  BY <1>5, CreateTypeOK, RequestTypeOK
<1> QED BY <1>1, <1>2, <1>3, <1>4, <1>5 DEF Next

\* Every reachable state is well typed, whatever the instance.
THEOREM TypeCorrect == Spec => []TypeOK
  BY InitTypeOK, StepTypeOK, PTL DEF Spec

-----------------------------------------------------------------------------
\* The inductive invariant.  One lemma per group of actions again; the rows of
\* the other audits do not change, so each action is about one audit.

\* The initial state, with no rows at all, satisfies the invariant.
LEMMA InitIInv == Init => IInv
<1> SUFFICES ASSUME Init PROVE IInv
  OBVIOUS
<1>1. TypeOK
  BY InitTypeOK
<1>2. CoroutineInv /\ RowInv
  BY DEF Init, CoroutineInv, RowInv, RowsAgree, StampsTell, EndedRunnerSettles, Terminal,
         NoTaskRow, NoAuditRow, NoRunner, Idle, Created, AuditExists
<1> QED BY <1>1, <1>2 DEF IInv

\* A coroutine that moves without touching a row keeps the invariant, provided
\* that what it then claims to have done is in the rows.
LEMMA MoveIInv ==
  ASSUME IInv, NEW a \in Audits, NEW pc \in RunnerPC, Goto(a, pc),
         UNCHANGED <<audits, tasks, client>>,
         runner[a].pc # "none", pc \notin {"none", "spawned", "started", "reread"},
         pc \in {"loaded", "awaiting"} => runner[a].pc \in {"started", "loaded"},
         pc \in {"committed", "recorded"} => tasks[a].finished_at,
         pc = "returned" => tasks[a].finished_at \/ ~AuditExists(a)
  PROVE  CoroutineInv' /\ RowInv'
<1>1. /\ runner'[a].pc = pc
      /\ \A b \in Audits \ {a} : runner'[b] = runner[b]
  BY GotoMoves DEF IInv
<1>2. CoroutineInv'
  BY <1>1 DEF IInv, CoroutineInv, Created, AuditExists
<1>3. RowInv'
  BY <1>1 DEF IInv, RowInv, RowsAgree, StampsTell, EndedRunnerSettles, AuditExists
<1> QED BY <1>2, <1>3

\* A coroutine that writes its rows and moves keeps the invariant, provided that
\* what it wrote agrees.
LEMMA WriteIInv ==
  ASSUME IInv, NEW a \in Audits, NEW pc \in RunnerPC, Goto(a, pc), client' = client,
         NEW t \in TaskRow, tasks' = [tasks EXCEPT ![a] = t],
         NEW r \in AuditRow, audits' = [audits EXCEPT ![a] = r],
         t.status \in {"running"} \cup Terminal,
         t.finished_at <=> t.status \in Terminal,
         t.error => t.finished_at,
         r.completed_at <=> r.status \in {"completed", "failed"},
         r.status = "completed" => t.status = "completed",
         r.status = "failed" => t.status = "failed",
         r.status = "queued" => t.status \in {"running", "cancelled"},
         pc \in {"started", "returned", "committed", "recorded"},
         pc = "started" => r.status \in {"absent", "queued"} /\ ~t.finished_at,
         pc # "started" => t.finished_at
  PROVE  CoroutineInv' /\ RowInv'
<1>0. tasks \in [Audits -> TaskRow] /\ audits \in [Audits -> AuditRow]
  BY DEF IInv, TypeOK
<1>1. /\ runner'[a].pc = pc /\ tasks'[a] = t /\ audits'[a] = r
      /\ \A b \in Audits \ {a} :
           runner'[b] = runner[b] /\ tasks'[b] = tasks[b] /\ audits'[b] = audits[b]
  BY <1>0, GotoMoves DEF IInv
<1>2. t.status # "absent"
  BY DEF Terminal
<1>3. CoroutineInv'
  <2>1. \A c \in Clients : client[c].pc # "idle" => client[c].audit \in Audits /\ Created(client[c].audit)'
    BY <1>1, <1>2 DEF IInv, CoroutineInv, Created
  <2>2. \A b \in Audits :
          /\ runner'[b].pc = "none" <=> ~Created(b)'
          /\ runner'[b].pc \in {"spawned", "started", "loaded", "awaiting"}
               => audits'[b].status \in {"absent", "queued"} /\ ~tasks'[b].finished_at
          /\ runner'[b].pc \in {"committed", "recorded"} => tasks'[b].finished_at
          /\ runner'[b].pc = "reread" /\ ~runner'[b].sawAudit => ~AuditExists(b)'
    BY <1>1, <1>2 DEF IInv, CoroutineInv, Created, AuditExists
  <2> QED BY <2>1, <2>2 DEF CoroutineInv
<1>4. RowsAgree'
  BY <1>1 DEF IInv, RowInv, RowsAgree, Terminal
<1>5. StampsTell'
  BY <1>1, <1>2 DEF IInv, RowInv, StampsTell, Terminal
<1>6. EndedRunnerSettles'
  BY <1>1 DEF IInv, RowInv, EndedRunnerSettles, AuditExists
<1> QED BY <1>3, <1>4, <1>5, <1>6 DEF RowInv

\* The same for a coroutine that writes its task row only, its audit being
\* without a result or deleted.
LEMMA WriteTaskIInv ==
  ASSUME IInv, NEW a \in Audits, NEW pc \in RunnerPC, Goto(a, pc), client' = client,
         NEW t \in TaskRow, tasks' = [tasks EXCEPT ![a] = t], audits' = audits,
         t.status \in {"running"} \cup Terminal,
         t.finished_at <=> t.status \in Terminal,
         t.error => t.finished_at,
         audits[a].status \in {"absent", "queued"},
         audits[a].status = "queued" => t.status \in {"running", "cancelled"},
         pc \in {"started", "returned", "recorded"},
         pc = "started" <=> ~t.finished_at
  PROVE  CoroutineInv' /\ RowInv'
<1>1. audits[a] \in AuditRow /\ audits' = [audits EXCEPT ![a] = audits[a]]
  BY DEF IInv, TypeOK
<1>2. audits[a].completed_at <=> audits[a].status \in {"completed", "failed"}
  BY DEF IInv, RowInv, StampsTell
<1>3. /\ audits[a].status = "completed" => t.status = "completed"
      /\ audits[a].status = "failed" => t.status = "failed"
  OBVIOUS
<1>. HIDE DEF IInv, CoroutineInv, RowInv
<1> QED BY <1>1, <1>2, <1>3, WriteIInv

\* Every step of a coroutine, its early returns and its except block included.
LEMMA RunnerIInv ==
  ASSUME IInv, NEW a \in Audits, RunnerStep(a)
  PROVE  CoroutineInv' /\ RowInv'
<1>0. /\ audits[a] \in AuditRow /\ tasks[a] \in TaskRow /\ runner[a] \in Runner
      /\ "absent" \in TaskStatus
      /\ audits \in [Audits -> AuditRow] /\ tasks \in [Audits -> TaskRow]
  BY DEF IInv, TypeOK, TaskStatus
<1>p. RunnerPC = {"none", "spawned", "started", "loaded", "awaiting", "committed", "failing",
                  "reread", "recorded", "returned", "escaped", "lost"}
  BY DEF RunnerPC, TryPC, HandlerPC, EndedPC
<1>r. /\ runner[a].pc \in {"spawned", "started", "loaded", "awaiting"}
           => /\ audits[a].status \in {"absent", "queued"} /\ ~tasks[a].finished_at
              /\ ~tasks[a].error /\ ~audits[a].completed_at
      /\ runner[a].pc \in {"committed", "recorded"} => tasks[a].finished_at
      /\ audits[a].completed_at <=> audits[a].status \in {"completed", "failed"}
      /\ runner[a].pc = "reread" /\ ~runner[a].sawAudit => audits[a].status = "absent"
  BY DEF IInv, CoroutineInv, RowInv, StampsTell, AuditExists
<1>1. CASE StartTask(a)
  <2>1. /\ runner[a].pc = "spawned" /\ Goto(a, "started") /\ client' = client
        /\ tasks' = [tasks EXCEPT ![a] = Started(tasks[a])]
        /\ audits' = audits
    BY <1>1 DEF StartTask
  <2>3. /\ Started(tasks[a]) \in TaskRow /\ Started(tasks[a]).status = "running"
        /\ ~Started(tasks[a]).finished_at /\ ~Started(tasks[a]).error
    BY <1>0, <1>r, <2>1, TaskRows
  <2> QED BY <1>p, <1>r, <2>1, <2>3, WriteTaskIInv DEF Terminal
<1>2. CASE LoadAudit(a)
  <2>1. /\ runner[a].pc = "started" /\ UNCHANGED <<audits, tasks, client>>
        /\ \/ Goto(a, "loaded") \/ Goto(a, "failing")
           \/ ~AuditExists(a) /\ Goto(a, "returned")
    BY <1>2 DEF LoadAudit
  <2> QED BY <1>p, <2>1, MoveIInv
<1>3. CASE CheckCancellation(a)
  <2>1. CASE tasks[a].cancellation_token
    <3>1. /\ runner[a].pc = "loaded" /\ Goto(a, "returned") /\ client' = client
          /\ tasks' = [tasks EXCEPT ![a] = Cancelled(tasks[a])]
          /\ audits' = audits
      BY <1>3, <2>1 DEF CheckCancellation
    <3>3. /\ Cancelled(tasks[a]) \in TaskRow /\ Cancelled(tasks[a]).status = "cancelled"
          /\ Cancelled(tasks[a]).finished_at
      BY <1>0, TaskRows
    <3> QED BY <1>p, <1>r, <3>1, <3>3, WriteTaskIInv DEF Terminal
  <2>2. CASE ~tasks[a].cancellation_token
    <3>1. /\ runner[a].pc = "loaded" /\ Goto(a, "awaiting")
          /\ UNCHANGED <<audits, tasks, client>>
      BY <1>3, <2>2 DEF CheckCancellation
    <3> QED BY <1>p, <3>1, MoveIInv
  <2> QED BY <2>1, <2>2
<1>4. CASE CompleteAudit(a)
  <2>1. CASE AuditExists(a)
    <3>1. /\ runner[a].pc = "awaiting" /\ Goto(a, "committed") /\ client' = client
          /\ tasks' = [tasks EXCEPT ![a] = Succeeded(tasks[a])]
          /\ audits' = [audits EXCEPT ![a] = AuditCompleted(audits[a])]
      BY <1>4, <2>1 DEF CompleteAudit
    <3>2. /\ Succeeded(tasks[a]) \in TaskRow /\ Succeeded(tasks[a]).status = "completed"
          /\ Succeeded(tasks[a]).finished_at
      BY <1>0, TaskRows
    <3>3. /\ AuditCompleted(audits[a]) \in AuditRow
          /\ AuditCompleted(audits[a]).status = "completed"
          /\ AuditCompleted(audits[a]).completed_at
      BY <1>0, AuditRows
    <3> QED BY <1>p, <3>1, <3>2, <3>3, WriteIInv DEF Terminal
  <2>2. CASE ~AuditExists(a)
    <3>1. /\ runner[a].pc = "awaiting" /\ Goto(a, "failing")
          /\ UNCHANGED <<audits, tasks, client>>
      BY <1>4, <2>2 DEF CompleteAudit
    <3> QED BY <1>p, <3>1, MoveIInv
  <2> QED BY <2>1, <2>2
<1>5. CASE AuditRaises(a)
  <2>1. runner[a].pc = "awaiting" /\ Goto(a, "failing") /\ UNCHANGED <<audits, tasks, client>>
    BY <1>5 DEF AuditRaises
  <2> QED BY <1>p, <2>1, MoveIInv
<1>6. CASE NotifyCompletion(a)
  <2>1. /\ runner[a].pc = "committed" /\ UNCHANGED <<audits, tasks, client>>
        /\ Goto(a, "returned") \/ Goto(a, "failing")
    BY <1>6 DEF NotifyCompletion
  <2> QED BY <1>p, <1>r, <2>1, MoveIInv
<1>7. CASE RereadRows(a)
  <2>1. /\ audits' = audits /\ tasks' = tasks /\ client' = client
        /\ runner[a].pc = "failing"
        /\ runner' = [runner EXCEPT ![a] = [@ EXCEPT !.pc = "reread", !.sawAudit = AuditExists(a)]]
    BY <1>7 DEF RereadRows
  <2>2. /\ runner'[a].pc = "reread" /\ (runner'[a].sawAudit <=> AuditExists(a))
        /\ \A b \in Audits \ {a} : runner'[b] = runner[b]
    BY <2>1 DEF IInv, TypeOK, Runner
  <2>3. CoroutineInv'
    BY <2>1, <2>2 DEF IInv, CoroutineInv, Created, AuditExists
  <2>4. RowInv'
    BY <2>1, <2>2 DEF IInv, RowInv, RowsAgree, StampsTell, EndedRunnerSettles, AuditExists
  <2> QED BY <2>3, <2>4
<1>8. CASE RecordFailure(a)
  <2>0. runner[a].pc = "reread" /\ client' = client
    BY <1>8 DEF RecordFailure
  <2>t. /\ Failed(tasks[a]) \in TaskRow /\ Failed(tasks[a]).status = "failed"
        /\ Failed(tasks[a]).finished_at
    BY <1>0, TaskRows
  <2>1. CASE runner[a].sawAudit /\ ~AuditExists(a)
    <3>1. Goto(a, "escaped") /\ UNCHANGED <<audits, tasks, client>>
      BY <1>8, <2>1 DEF RecordFailure
    <3> QED BY <1>p, <2>0, <3>1, MoveIInv
  <2>2. CASE runner[a].sawAudit /\ AuditExists(a)
    <3>1. /\ Goto(a, "recorded")
          /\ tasks' = [tasks EXCEPT ![a] = Failed(tasks[a])]
          /\ audits' = [audits EXCEPT ![a] = AuditFailed(audits[a])]
      BY <1>8, <2>2 DEF RecordFailure
    <3>2. /\ AuditFailed(audits[a]) \in AuditRow /\ AuditFailed(audits[a]).status = "failed"
          /\ AuditFailed(audits[a]).completed_at
      BY <1>0, AuditRows
    <3> QED BY <1>p, <2>0, <2>t, <3>1, <3>2, WriteIInv DEF Terminal
  <2>3. CASE ~runner[a].sawAudit
    <3>1. /\ Goto(a, "recorded") /\ audits' = audits
          /\ tasks' = [tasks EXCEPT ![a] = Failed(tasks[a])]
      BY <1>8, <2>3 DEF RecordFailure
    <3>2. audits[a].status = "absent"
      BY <1>r, <2>0, <2>3
    <3> QED BY <1>p, <2>0, <2>t, <3>1, <3>2, WriteTaskIInv DEF Terminal
  <2> QED BY <2>1, <2>2, <2>3
<1>9. CASE NotifyFailure(a)
  <2>1. runner[a].pc = "recorded" /\ Goto(a, "returned") /\ UNCHANGED <<audits, tasks, client>>
    BY <1>9 DEF NotifyFailure
  <2> QED BY <1>p, <1>r, <2>1, MoveIInv
<1> QED BY <1>1, <1>2, <1>3, <1>4, <1>5, <1>6, <1>7, <1>8, <1>9, RunnerStep(a) DEF RunnerStep

\* The two rows of a new audit agree, and its coroutine has done nothing.
LEMMA CreateIInv ==
  ASSUME IInv, NEW a \in Audits, NEW w \in Workers, CreateAudit(a, w)
  PROVE  CoroutineInv' /\ RowInv'
<1>0. /\ audits[a] \in AuditRow /\ tasks[a] \in TaskRow /\ "absent" \in TaskStatus
      /\ audits \in [Audits -> AuditRow] /\ tasks \in [Audits -> TaskRow]
      /\ runner \in [Audits -> Runner]
  BY DEF IInv, TypeOK, TaskStatus
<1>1. /\ audits'[a] = NewAudit /\ tasks'[a] = NewTask /\ client' = client
      /\ runner'[a].pc = "spawned"
      /\ \A b \in Audits \ {a} :
           audits'[b] = audits[b] /\ tasks'[b] = tasks[b] /\ runner'[b] = runner[b]
  BY <1>0 DEF CreateAudit
<1>2. /\ audits'[a].status = "queued" /\ ~audits'[a].completed_at
      /\ tasks'[a].status = "pending" /\ ~tasks'[a].finished_at /\ ~tasks'[a].error
  BY <1>0, <1>1, TaskRows, AuditRows
<1> QED
  BY <1>1, <1>2
  DEF IInv, CoroutineInv, RowInv, RowsAgree, StampsTell, EndedRunnerSettles, Terminal,
      Created, AuditExists

\* A handler that starts changes no row and holds an existing task.
LEMMA RequestIInv ==
  ASSUME IInv, NEW a \in Audits, NEW c \in Clients, NEW w \in Workers,
         CancelTask(c, a, w) \/ DeleteAudit(c, a, w)
  PROVE  CoroutineInv' /\ RowInv'
<1>0. client \in [Clients -> Client]
  BY DEF IInv, TypeOK
<1>1. audits' = audits /\ tasks' = tasks /\ runner' = runner
  BY DEF CancelTask, DeleteAudit
<1>2. Created(a)
  BY DEF CancelTask, DeleteAudit, AuditExists, Created, IInv, RowInv, RowsAgree, TypeOK,
         AuditRow, AuditStatus
<1>3. \A d \in Clients : client'[d].pc # "idle" =>
                            client'[d].audit \in Audits /\ tasks[client'[d].audit].status # "absent"
  BY <1>0, <1>2 DEF CancelTask, DeleteAudit, IInv, CoroutineInv, Created
<1> QED
  BY <1>1, <1>3
  DEF IInv, CoroutineInv, RowInv, RowsAgree, StampsTell, EndedRunnerSettles, Created, AuditExists

\* A late cancel and a deletion keep rows, stamps and coroutines in step.
LEMMA ClientIInv ==
  ASSUME IInv, NEW c \in Clients, ClientStep(c)
  PROVE  CoroutineInv' /\ RowInv'
<1> DEFINE a == client[c].audit
<1>0. /\ a \in Audits /\ Created(a) /\ client[c] \in Client /\ client[c].seen \in TaskStatus
      /\ audits[a] \in AuditRow /\ tasks[a] \in TaskRow /\ "absent" \in TaskStatus
      /\ audits \in [Audits -> AuditRow] /\ tasks \in [Audits -> TaskRow]
      /\ client \in [Clients -> Client]
  BY DEF IInv, CoroutineInv, TypeOK, TaskStatus, ClientStep, CancelCommit, DeleteCommit, Client
<1>i. Idle.pc = "idle"
  BY DEF Idle
<1>c. LET t == CancelRequested(tasks[a], client[c].seen) IN
      /\ t.status \in {tasks[a].status, "cancelling"}
      /\ t.finished_at = tasks[a].finished_at /\ t.error = tasks[a].error
  BY <1>0, TaskRows
<1> USE <1>0, <1>i
    DEF IInv, CoroutineInv, RowInv, RowsAgree, StampsTell, EndedRunnerSettles, Terminal,
        Created, AuditExists
<1>1. CASE CancelCommit(c)
  <2>1. /\ tasks'[a] = CancelRequested(tasks[a], client[c].seen)
        /\ \A b \in Audits \ {a} : tasks'[b] = tasks[b]
        /\ audits' = audits /\ runner' = runner
        /\ client' = [client EXCEPT ![c] = Idle]
    BY <1>1 DEF CancelCommit
  <2>2. /\ tasks'[a].status \in {tasks[a].status, "cancelling"}
        /\ tasks'[a].finished_at = tasks[a].finished_at /\ tasks'[a].error = tasks[a].error
    BY <2>1, <1>c
  <2>3. CoroutineInv'
    <3>1. \A b \in Audits : Created(b)' <=> Created(b)
      BY <2>1, <2>2
    <3>2. \A d \in Clients : client'[d].pc # "idle" => client'[d].audit \in Audits /\ Created(client'[d].audit)
      BY <2>1
    <3> QED BY <2>1, <2>2, <3>1, <3>2
  <2>4. RowsAgree' /\ EndedRunnerSettles' BY <2>1, <2>2
  <2>5. StampsTell' BY <2>1, <2>2
  <2> QED BY <2>3, <2>4, <2>5
<1>2. CASE DeleteCommit(c)
  <2>1. /\ tasks' = tasks /\ runner' = runner
        /\ client' = [client EXCEPT ![c] = Idle]
        /\ \/ audits' = audits
           \/ audits' = [audits EXCEPT ![a] = NoAuditRow]
    BY <1>2 DEF DeleteCommit
  <2>2. /\ \A b \in Audits \ {a} : audits'[b] = audits[b]
        /\ \/ audits'[a] = audits[a]
           \/ audits'[a].status = "absent" /\ ~audits'[a].completed_at
    BY <2>1, AuditRows
  <2>3. CoroutineInv' BY <2>1, <2>2
  <2>4. RowsAgree' /\ StampsTell' BY <2>1, <2>2
  <2>5. EndedRunnerSettles' BY <2>1, <2>2
  <2> QED BY <2>3, <2>4, <2>5
<1> QED BY <1>1, <1>2, ClientStep(c) DEF ClientStep

\* A coroutine that raises or dies out of its handler claims nothing.
LEMMA DbErrorIInv ==
  ASSUME IInv, NEW a \in Audits, DbError(a)
  PROVE  CoroutineInv' /\ RowInv'
<1>1. runner \in [Audits -> Runner] /\ TypeOK
  BY DEF IInv, TypeOK
<1> QED
  BY <1>1, GotoMoves
  DEF DbError, Live, IInv, CoroutineInv, RowInv, RowsAgree, StampsTell, EndedRunnerSettles,
      Created, AuditExists, RunnerPC, TryPC, HandlerPC, EndedPC

\* Lost coroutines and handlers claim nothing about the rows.
LEMMA RestartIInv ==
  ASSUME IInv, NEW w \in Workers, Restart(w)
  PROVE  CoroutineInv' /\ RowInv'
<1>1. \A a \in Audits : \/ runner'[a] = runner[a]
                        \/ runner'[a].pc = "lost" /\ runner[a].pc # "none"
  <2>1. SUFFICES ASSUME NEW a \in Audits
                 PROVE  \/ runner'[a] = runner[a]
                        \/ runner'[a].pc = "lost" /\ runner[a].pc # "none"
    OBVIOUS
  <2>2. At(runner[a], "lost").pc = "lost"
    BY Moves DEF IInv, TypeOK, RunnerPC, EndedPC
  <2> QED BY <2>2 DEF Restart, Live, TryPC, HandlerPC
<1>2. \A c \in Clients : client'[c] = client[c] \/ client'[c].pc = "idle"
  BY DEF Restart, Idle
<1> QED
  BY <1>1, <1>2
  DEF Restart, IInv, CoroutineInv, RowInv, RowsAgree, StampsTell, EndedRunnerSettles,
      Created, AuditExists

\* Every step keeps the inductive invariant.
LEMMA StepIInv == IInv /\ [Next]_vars => IInv'
<1> SUFFICES ASSUME IInv, [Next]_vars PROVE CoroutineInv' /\ RowInv'
  BY StepTypeOK DEF IInv
<1>1. CASE UNCHANGED vars
  BY <1>1 DEF vars, IInv, CoroutineInv, RowInv, RowsAgree, StampsTell, EndedRunnerSettles,
              Created, AuditExists
<1>2. CASE \E a \in Audits : RunnerStep(a) \/ DbError(a)
  BY <1>2, RunnerIInv, DbErrorIInv
<1>3. CASE \E c \in Clients : ClientStep(c)
  BY <1>3, ClientIInv
<1>4. CASE \E w \in Workers : Restart(w)
  BY <1>4, RestartIInv
<1>5. CASE \E w \in Workers, a \in Audits :
             \/ CreateAudit(a, w)
             \/ \E c \in Clients : CancelTask(c, a, w) \/ DeleteAudit(c, a, w)
  BY <1>5, CreateIInv, RequestIInv
<1> QED BY <1>1, <1>2, <1>3, <1>4, <1>5 DEF Next

\* Rows, coroutines and handlers are in step in every reachable state.
THEOREM InductiveInvariant == Spec => []IInv
  BY InitIInv, StepIInv, PTL DEF Spec

\* The audit row and the task row never contradict each other.
THEOREM RowsAlwaysAgree == Spec => []RowsAgree
<1>1. IInv => RowsAgree BY DEF IInv, RowInv
<1> QED BY <1>1, InductiveInvariant, PTL

\* The time stamps always tell whether a task ended and an audit has a result.
THEOREM StampsAlwaysTell == Spec => []StampsTell
<1>1. IInv => StampsTell BY DEF IInv, RowInv
<1> QED BY <1>1, InductiveInvariant, PTL

\* A coroutine that returned has settled its task or found its audit deleted.
THEOREM ReturnedRunnersSettle == Spec => []EndedRunnerSettles
<1>1. IInv => EndedRunnerSettles BY DEF IInv, RowInv
<1> QED BY <1>1, InductiveInvariant, PTL

-----------------------------------------------------------------------------
\* Deletion is final, and the contract of AuditLifecycle.

\* No step brings a deleted audit back.
LEMMA StepDeleted ==
  ASSUME IInv, Next, NEW b \in Audits, Created(b), ~AuditExists(b)
  PROVE  ~AuditExists(b)'
<1>0. audits \in [Audits -> AuditRow] /\ NoAuditRow.status = "absent"
  BY DEF IInv, TypeOK, NoAuditRow
<1> USE <1>0 DEF AuditExists
<1>1. CASE \E a \in Audits : RunnerStep(a) \/ DbError(a)
  <2>1. PICK a \in Audits : RunnerStep(a) \/ DbError(a)
    BY <1>1
  <2>2. CASE CompleteAudit(a) BY <2>2 DEF CompleteAudit
  <2>3. CASE RecordFailure(a) BY <2>3 DEF RecordFailure
  <2>4. CASE UNCHANGED audits BY <2>4
  <2> QED
    BY <2>1, <2>2, <2>3, <2>4
    DEF RunnerStep, DbError, StartTask, LoadAudit, CheckCancellation, AuditRaises,
        NotifyCompletion, RereadRows, NotifyFailure
<1>2. CASE \E c \in Clients : ClientStep(c)
  BY <1>2 DEF ClientStep, CancelCommit, DeleteCommit
<1>3. CASE \E w \in Workers : Restart(w)
  BY <1>3 DEF Restart
<1>4. CASE \E w \in Workers, a \in Audits :
             \/ CreateAudit(a, w)
             \/ \E c \in Clients : CancelTask(c, a, w) \/ DeleteAudit(c, a, w)
  BY <1>4 DEF CreateAudit, CancelTask, DeleteAudit
<1> QED BY <1>1, <1>2, <1>3, <1>4 DEF Next

\* A deleted audit is never written back by the coroutine that had loaded it.
THEOREM DeletionIsFinal == Spec => DeletedStaysDeleted
<1>1. IInv /\ [Next]_vars
        => [\A a \in Audits : Created(a) /\ ~AuditExists(a) => ~AuditExists(a)']_vars
  BY StepDeleted
<1> QED BY <1>1, InductiveInvariant, PTL DEF Spec, DeletedStaysDeleted

\* The client's view under the refinement mapping.
OutcomeBar == [a \in Audits |-> Outcome(a)]
LiveBar == {a \in Audits : Live(a)}

\* No audit exists and no job is live at first, as the life cycle begins.
LEMMA LifecycleInit == Init => Lifecycle!Init
  BY DEF Init, Lifecycle!Init, Outcome, AuditExists, Created, Live, NoAuditRow, NoTaskRow,
         NoRunner, TryPC, HandlerPC

\* A step that changes no row a client can tell and no coroutine's life stutters.
LEMMA Quiet ==
  ASSUME audits' = audits, \A b \in Audits : Created(b)' <=> Created(b),
         \A b \in Audits : Live(b)' <=> Live(b)
  PROVE  UNCHANGED Lifecycle!vars
<1>1. OutcomeBar' = OutcomeBar
  BY DEF OutcomeBar, Outcome, AuditExists
<1>2. LiveBar' = LiveBar
  BY DEF LiveBar
<1> QED BY <1>1, <1>2 DEF Lifecycle!vars, OutcomeBar, LiveBar

\* A step that ends some coroutines and changes no such row retires their jobs.
LEMMA Ending ==
  ASSUME audits' = audits, \A b \in Audits : Created(b)' <=> Created(b),
         \A b \in Audits : Live(b)' => Live(b)
  PROVE  [Lifecycle!Next]_(Lifecycle!vars)
<1> DEFINE ended == LiveBar \ LiveBar'
<1>1. OutcomeBar' = OutcomeBar
  BY DEF OutcomeBar, Outcome, AuditExists
<1>2. LiveBar' = LiveBar \ ended /\ ended \in SUBSET LiveBar
  BY DEF LiveBar
<1>3. CASE ended = {}
  BY <1>1, <1>2, <1>3 DEF Lifecycle!vars, OutcomeBar, LiveBar
<1>4. CASE ended # {}
  <2>1. Lifecycle!Retire(ended)
    BY <1>1, <1>2, <1>4 DEF Lifecycle!Retire, OutcomeBar, LiveBar
  <2> QED BY <1>2, <2>1 DEF Lifecycle!Next, LiveBar
<1> QED BY <1>3, <1>4

\* A live coroutine that writes a result settles its audit.
LEMMA Settling ==
  ASSUME NEW a \in Audits, NEW o \in {"completed", "failed"},
         Live(a), audits[a].status \in {"queued", "completed"}, audits[a].status # o,
         audits'[a].status = o, \A b \in Audits \ {a} : audits'[b] = audits[b],
         \A b \in Audits : Created(b)' <=> Created(b),
         \A b \in Audits : Live(b)' <=> Live(b)
  PROVE  Lifecycle!Next
<1>1. OutcomeBar' = [OutcomeBar EXCEPT ![a] = o]
  BY DEF OutcomeBar, Outcome, AuditExists
<1>2. OutcomeBar[a] = audits[a].status /\ a \in LiveBar /\ LiveBar' = LiveBar
  BY DEF OutcomeBar, Outcome, AuditExists, LiveBar
<1>3. Lifecycle!Settle(a, o)
  BY <1>1, <1>2 DEF Lifecycle!Settle, OutcomeBar, LiveBar
<1> QED BY <1>3 DEF Lifecycle!Next

\* A step of a coroutine is a life-cycle step: a result, an end, or nothing a client can tell.
LEMMA RunnerLifecycle ==
  ASSUME IInv, NEW a \in Audits, RunnerStep(a) \/ DbError(a)
  PROVE  [Lifecycle!Next]_(Lifecycle!vars)
<1>0. /\ audits[a] \in AuditRow /\ tasks[a] \in TaskRow /\ runner[a] \in Runner
      /\ audits \in [Audits -> AuditRow] /\ tasks \in [Audits -> TaskRow] /\ TypeOK
      /\ "absent" \in TaskStatus
  BY DEF IInv, TypeOK, TaskStatus
<1>1. Live(a)
  BY DEF RunnerStep, DbError, StartTask, LoadAudit, CheckCancellation, CompleteAudit, AuditRaises,
         NotifyCompletion, RereadRows, RecordFailure, NotifyFailure, Live, TryPC, HandlerPC
<1>2. \A b \in Audits : runner'[b] = runner[b] \/ b = a
  BY <1>0 DEF RunnerStep, DbError, StartTask, LoadAudit, CheckCancellation, CompleteAudit,
         AuditRaises, NotifyCompletion, RereadRows, RecordFailure, NotifyFailure, Goto, TypeOK
<1>3. \A b \in Audits : Live(b)' => Live(b)
  BY <1>1, <1>2 DEF Live
<1>4. Created(a)
  BY <1>1 DEF IInv, CoroutineInv, Live, TryPC, HandlerPC
<1>5. \A b \in Audits : Created(b)' <=> Created(b)
  <2>1. CASE UNCHANGED tasks BY <2>1 DEF Created
  <2>2. CASE StartTask(a) BY <1>0, <1>4, <2>2, TaskRows DEF StartTask, Created
  <2>3. CASE CheckCancellation(a) BY <1>0, <1>4, <2>3, TaskRows DEF CheckCancellation, Created
  <2>4. CASE CompleteAudit(a) BY <1>0, <1>4, <2>4, TaskRows DEF CompleteAudit, Created
  <2>5. CASE RecordFailure(a) BY <1>0, <1>4, <2>5, TaskRows DEF RecordFailure, Created
  <2> QED
    BY <2>1, <2>2, <2>3, <2>4, <2>5
    DEF RunnerStep, DbError, LoadAudit, AuditRaises, NotifyCompletion, RereadRows, NotifyFailure
<1>6. CASE UNCHANGED audits
  BY <1>3, <1>5, <1>6, Ending
<1>7. CASE CompleteAudit(a) /\ audits' # audits
  <2>1. /\ audits'[a].status = "completed" /\ runner'[a].pc = "committed"
        /\ \A b \in Audits \ {a} : audits'[b] = audits[b]
        /\ runner[a].pc = "awaiting" /\ audits[a].status # "absent"
    BY <1>0, <1>7, AuditRows, GotoMoves DEF CompleteAudit, AuditExists, RunnerPC, TryPC
  <2>2. audits[a].status = "queued"
    BY <2>1 DEF IInv, CoroutineInv
  <2>3. \A b \in Audits : Live(b)' <=> Live(b)
    BY <1>1, <1>2, <2>1 DEF Live, TryPC
  <2> QED BY <1>1, <1>5, <2>1, <2>2, <2>3, Settling
<1>8. CASE RecordFailure(a) /\ audits' # audits
  <2>1. /\ audits'[a].status = "failed" /\ runner'[a].pc = "recorded"
        /\ \A b \in Audits \ {a} : audits'[b] = audits[b]
        /\ audits[a].status # "absent"
    BY <1>0, <1>8, AuditRows, GotoMoves DEF RecordFailure, AuditExists, RunnerPC, HandlerPC
  <2>2. \A b \in Audits : Live(b)' <=> Live(b)
    BY <1>1, <1>2, <2>1 DEF Live, HandlerPC
  <2>3. CASE audits[a].status = "failed"
    <3>1. OutcomeBar' = OutcomeBar /\ LiveBar' = LiveBar
      BY <1>5, <2>1, <2>2, <2>3 DEF OutcomeBar, LiveBar, Outcome, AuditExists
    <3> QED BY <3>1 DEF Lifecycle!vars, OutcomeBar, LiveBar
  <2>4. CASE audits[a].status # "failed"
    BY <1>0, <1>1, <1>5, <2>1, <2>2, <2>4, Settling DEF AuditRow, AuditStatus
  <2> QED BY <2>3, <2>4
<1> QED
  BY <1>6, <1>7, <1>8
  DEF RunnerStep, DbError, StartTask, LoadAudit, CheckCancellation, AuditRaises,
      NotifyCompletion, RereadRows, NotifyFailure

\* Creating an audit is the life cycle's Submit.
LEMMA CreateLifecycle ==
  ASSUME IInv, NEW a \in Audits, NEW w \in Workers, CreateAudit(a, w)
  PROVE  Lifecycle!Next
<1>0. /\ audits \in [Audits -> AuditRow] /\ tasks \in [Audits -> TaskRow]
      /\ runner \in [Audits -> Runner]
      /\ tasks[a] \in TaskRow /\ audits[a] \in AuditRow /\ "absent" \in TaskStatus
  BY DEF IInv, TypeOK, TaskStatus
<1>1. audits[a].status = "absent"
  BY <1>0 DEF CreateAudit, Created, IInv, RowInv, RowsAgree, AuditRow, AuditStatus
<1>2. /\ audits'[a].status = "queued" /\ runner'[a].pc = "spawned" /\ Created(a)'
      /\ \A b \in Audits \ {a} :
           audits'[b] = audits[b] /\ tasks'[b] = tasks[b] /\ runner'[b] = runner[b]
  BY <1>0, TaskRows, AuditRows DEF CreateAudit, Created
<1>3. OutcomeBar[a] = "none"
  BY <1>1 DEF OutcomeBar, Outcome, AuditExists, CreateAudit
<1>4. OutcomeBar' = [OutcomeBar EXCEPT ![a] = "queued"]
  BY <1>2 DEF OutcomeBar, Outcome, AuditExists, Created
<1>5. LiveBar' = LiveBar \cup {a}
  BY <1>2 DEF LiveBar, Live, TryPC
<1>6. Lifecycle!Submit(a)
  BY <1>3, <1>4, <1>5 DEF Lifecycle!Submit, OutcomeBar, LiveBar
<1> QED BY <1>6 DEF Lifecycle!Next

\* A cancel is invisible to the life cycle, a deletion is its Remove or nothing.
LEMMA ClientLifecycle ==
  ASSUME IInv, NEW c \in Clients, ClientStep(c)
  PROVE  [Lifecycle!Next]_(Lifecycle!vars)
<1> DEFINE a == client[c].audit
<1>0. /\ a \in Audits /\ Created(a) /\ client[c].seen \in TaskStatus /\ tasks[a] \in TaskRow
      /\ audits \in [Audits -> AuditRow] /\ tasks \in [Audits -> TaskRow]
      /\ audits[a] \in AuditRow
  BY DEF IInv, CoroutineInv, TypeOK, ClientStep, CancelCommit, DeleteCommit, Client
<1>1. CASE CancelCommit(c)
  <2>1. \A b \in Audits : Created(b)' <=> Created(b)
    BY <1>0, <1>1, TaskRows DEF CancelCommit, Created
  <2>2. audits' = audits /\ \A b \in Audits : Live(b)' <=> Live(b)
    BY <1>1 DEF CancelCommit, Live
  <2> QED BY <2>1, <2>2, Quiet
<1>2. CASE DeleteCommit(c)
  <2>1. tasks' = tasks /\ runner' = runner
    BY <1>2 DEF DeleteCommit
  <2>2. CASE audits' = audits
    BY <2>1, <2>2, Quiet DEF Created, Live
  <2>3. CASE audits' # audits
    <3>1. /\ audits'[a].status = "absent" /\ \A b \in Audits \ {a} : audits'[b] = audits[b]
      BY <1>0, <1>2, <2>3, AuditRows DEF DeleteCommit
    <3>2. OutcomeBar' = [OutcomeBar EXCEPT ![a] = "removed"] /\ LiveBar' = LiveBar
      BY <1>0, <2>1, <3>1 DEF OutcomeBar, LiveBar, Outcome, AuditExists, Created, Live
    <3>3. CASE AuditExists(a)
      <4>1. OutcomeBar[a] \in {"queued", "completed", "failed"}
        BY <1>0, <3>3 DEF OutcomeBar, Outcome, AuditRow, AuditStatus, AuditExists
      <4>2. Lifecycle!Remove(a)
        BY <3>2, <4>1 DEF Lifecycle!Remove, OutcomeBar, LiveBar
      <4> QED BY <1>0, <4>2 DEF Lifecycle!Next
    <3>4. CASE ~AuditExists(a)
      <4>1. OutcomeBar' = OutcomeBar
        BY <1>0, <3>2, <3>4 DEF OutcomeBar, Outcome
      <4> QED BY <3>2, <4>1 DEF Lifecycle!vars, OutcomeBar, LiveBar
    <3> QED BY <3>3, <3>4
  <2> QED BY <2>2, <2>3
<1> QED BY <1>1, <1>2, ClientStep(c) DEF ClientStep

\* Every step of the engine is a step of the life cycle, or a stutter.
LEMMA StepLifecycle == IInv /\ [Next]_vars => [Lifecycle!Next]_(Lifecycle!vars)
<1> SUFFICES ASSUME IInv, [Next]_vars PROVE [Lifecycle!Next]_(Lifecycle!vars)
  OBVIOUS
<1>1. CASE UNCHANGED vars
  BY <1>1, Quiet DEF vars, Created, Live
<1>2. CASE \E a \in Audits : RunnerStep(a) \/ DbError(a)
  BY <1>2, RunnerLifecycle
<1>3. CASE \E c \in Clients : ClientStep(c)
  BY <1>3, ClientLifecycle
<1>4. CASE \E w \in Workers : Restart(w)
  <2>1. PICK w \in Workers : Restart(w)
    BY <1>4
  <2>2. \A b \in Audits : runner'[b] = runner[b] \/ Live(b)
    BY <2>1 DEF Restart
  <2>3. \A b \in Audits : Live(b)' => Live(b)
    BY <2>2 DEF Live
  <2> QED BY <2>1, <2>3, Ending DEF Restart, Created
<1>5. CASE \E w \in Workers, a \in Audits : CreateAudit(a, w)
  BY <1>5, CreateLifecycle
<1>6. CASE \E w \in Workers, a \in Audits, c \in Clients :
             CancelTask(c, a, w) \/ DeleteAudit(c, a, w)
  BY <1>6, Quiet DEF CancelTask, DeleteAudit, Created, Live
<1> QED BY <1>1, <1>2, <1>3, <1>4, <1>5, <1>6 DEF Next

\* The audit engine implements the contract AuditLifecycle states.
THEOREM EngineImplementsLifecycle == Spec => ImplementsLifecycle
  BY LifecycleInit, StepLifecycle, InductiveInvariant, PTL
  DEF Spec, ImplementsLifecycle, Lifecycle!Spec

-----------------------------------------------------------------------------
\* What one step does to one task and its coroutine.

\* A token is never taken back, and no assignment but Succeeded completes a task.
LEMMA TokenRows ==
  ASSUME NEW t \in TaskRow, t.cancellation_token, NEW seen \in TaskStatus
  PROVE  /\ Started(t).cancellation_token /\ Cancelled(t).cancellation_token
         /\ Failed(t).cancellation_token /\ CancelRequested(t, seen).cancellation_token
  BY DEF TaskRow, Started, Cancelled, Failed, CancelRequested

\* How a coroutine may move in one step; the faults are the last three lines.
Moved(b, pc, next) ==
  \/ next = pc
  \/ pc = "none" /\ next = "spawned" /\ ~Created(b)
  \/ pc = "spawned" /\ next = "started"
  \/ pc = "started" /\ next \in {"loaded", "failing"}
  \/ pc = "started" /\ next = "returned" /\ ~AuditExists(b)
  \/ pc = "loaded" /\ next = "returned" /\ tasks[b].cancellation_token
  \/ pc = "loaded" /\ next = "awaiting" /\ ~tasks[b].cancellation_token
  \/ pc = "awaiting" /\ next \in {"committed", "failing"}
  \/ pc = "committed" /\ next = "returned"
  \/ pc = "committed" /\ next = "failing" /\ ~AuditExists(b)
  \/ pc = "failing" /\ next = "reread"
  \/ pc = "reread" /\ next \in {"recorded", "escaped"}
  \/ pc = "recorded" /\ next = "returned"
  \/ pc \in TryPC /\ next = "failing" /\ dbErrors < MaxDbErrors
  \/ pc \in HandlerPC /\ next = "escaped"
  \/ pc \in TryPC \cup HandlerPC /\ next = "lost"

\* What may happen to a task in one step, and where its coroutine is then.
Rewritten(b, t) ==
  \/ t = tasks[b]
  \/ ~Created(b) /\ t = NewTask
  \/ runner[b].pc = "spawned" /\ t = Started(tasks[b])
  \/ runner[b].pc = "loaded" /\ t = Cancelled(tasks[b])
  \/ runner[b].pc = "awaiting" /\ t = Succeeded(tasks[b])
  \/ runner[b].pc = "reread" /\ t = Failed(tasks[b])
  \/ \E c \in Clients : /\ client[c].pc = "cancel" /\ client[c].audit = b
                        /\ t = CancelRequested(tasks[b], client[c].seen)

\* Every step moves a coroutine and rewrites a task in one of these ways.
LEMMA OneStep ==
  ASSUME IInv, [Next]_vars, NEW b \in Audits
  PROVE  Moved(b, runner[b].pc, runner'[b].pc) /\ Rewritten(b, tasks'[b])
<1>0. /\ audits \in [Audits -> AuditRow] /\ tasks \in [Audits -> TaskRow]
      /\ runner \in [Audits -> Runner] /\ TypeOK
  BY DEF IInv, TypeOK
<1>1. CASE UNCHANGED vars
  BY <1>1 DEF vars, Moved, Rewritten
<1>2. ASSUME NEW a \in Audits, RunnerStep(a) \/ DbError(a)
      PROVE  Moved(b, runner[b].pc, runner'[b].pc) /\ Rewritten(b, tasks'[b])
  <2>p. RunnerPC = {"none", "spawned", "started", "loaded", "awaiting", "committed", "failing",
                    "reread", "recorded", "returned", "escaped", "lost"}
    BY DEF RunnerPC, TryPC, HandlerPC, EndedPC
  <2>g. \A pc \in RunnerPC : Goto(a, pc) =>
          runner'[a].pc = pc /\ \A d \in Audits \ {a} : runner'[d] = runner[d]
    BY <1>0, GotoMoves
  <2>1. CASE b # a
    <3>1. runner'[b] = runner[b] /\ tasks'[b] = tasks[b]
      BY <1>0, <1>2, <2>1
      DEF RunnerStep, DbError, StartTask, LoadAudit, CheckCancellation, CompleteAudit, AuditRaises,
          NotifyCompletion, RereadRows, RecordFailure, NotifyFailure, Goto
    <3>. QED
      BY <3>1 DEF Moved, Rewritten
  <2>2. CASE b = a
    <3>1. CASE RereadRows(a) \/ DbError(a)
      <4>1. tasks' = tasks
        BY <3>1 DEF RereadRows, DbError
      <4>2. CASE RereadRows(a)
        BY <1>0, <4>1, <4>2 DEF RereadRows, Moved, Rewritten, Runner
      <4>3. CASE DbError(a)
        BY <2>p, <2>g, <4>1, <4>3 DEF DbError, Live, Moved, Rewritten, TryPC, HandlerPC
      <4>. QED
        BY <3>1, <4>2, <4>3
    <3>2. CASE StartTask(a)
      BY <1>0, <2>p, <2>g, <3>2 DEF StartTask, Moved, Rewritten
    <3>3. CASE LoadAudit(a) \/ AuditRaises(a) \/ NotifyCompletion(a) \/ NotifyFailure(a)
      BY <2>p, <2>g, <3>3
      DEF LoadAudit, AuditRaises, NotifyCompletion, NotifyFailure, Moved, Rewritten
    <3>4. CASE CheckCancellation(a)
      BY <1>0, <2>p, <2>g, <3>4 DEF CheckCancellation, Moved, Rewritten
    <3>5. CASE CompleteAudit(a)
      BY <1>0, <2>p, <2>g, <3>5 DEF CompleteAudit, Moved, Rewritten
    <3>6. CASE RecordFailure(a)
      BY <1>0, <2>p, <2>g, <3>6 DEF RecordFailure, Moved, Rewritten
    <3>. QED
      BY <1>2, <2>2, <3>1, <3>2, <3>3, <3>4, <3>5, <3>6 DEF RunnerStep
  <2>. QED
    BY <2>1, <2>2
<1>3. ASSUME NEW c \in Clients, ClientStep(c)
      PROVE  Moved(b, runner[b].pc, runner'[b].pc) /\ Rewritten(b, tasks'[b])
  <2>1. runner' = runner
    BY <1>3 DEF ClientStep, CancelCommit, DeleteCommit
  <2>2. Rewritten(b, tasks'[b])
    BY <1>0, <1>3 DEF ClientStep, CancelCommit, DeleteCommit, Rewritten
  <2>. QED
    BY <2>1, <2>2 DEF Moved
<1>4. ASSUME NEW w \in Workers, Restart(w)
      PROVE  Moved(b, runner[b].pc, runner'[b].pc) /\ Rewritten(b, tasks'[b])
  <2>1. At(runner[b], "lost").pc = "lost"
    BY <1>0, Moves DEF RunnerPC, EndedPC
  <2>. QED
    BY <1>4, <2>1 DEF Restart, Live, Moved, Rewritten
<1>5. ASSUME NEW w \in Workers, NEW a \in Audits, CreateAudit(a, w)
      PROVE  Moved(b, runner[b].pc, runner'[b].pc) /\ Rewritten(b, tasks'[b])
  <2>1. runner[a].pc = "none"
    BY <1>5 DEF CreateAudit, IInv, CoroutineInv
  <2>. QED
    BY <1>0, <1>5, <2>1 DEF CreateAudit, Moved, Rewritten
<1>6. ASSUME NEW w \in Workers, NEW a \in Audits, NEW c \in Clients,
             CancelTask(c, a, w) \/ DeleteAudit(c, a, w)
      PROVE  Moved(b, runner[b].pc, runner'[b].pc) /\ Rewritten(b, tasks'[b])
  BY <1>6 DEF CancelTask, DeleteAudit, Moved, Rewritten
<1>. QED
  BY <1>1, <1>2, <1>3, <1>4, <1>5, <1>6 DEF Next

-----------------------------------------------------------------------------
\* An early cancel is honoured.

\* The coroutine is before its check of the token, or will not reach the await.
Doomed(b) ==
  /\ tasks[b].cancellation_token /\ tasks[b].status # "completed"
  /\ runner[b].pc \notin {"none", "awaiting", "committed"}

\* From then on neither the coroutine nor another handler completes the task.
LEMMA StaysDoomed ==
  ASSUME IInv, [Next]_vars, NEW b \in Audits, Doomed(b)
  PROVE  Doomed(b)'
<1>0. tasks[b] \in TaskRow /\ Created(b) /\ client \in [Clients -> Client]
  BY DEF IInv, TypeOK, CoroutineInv, Doomed
<1>1. Moved(b, runner[b].pc, runner'[b].pc) /\ Rewritten(b, tasks'[b])
  BY OneStep
<1>2. runner'[b].pc \notin {"none", "awaiting", "committed"}
  BY <1>1 DEF Moved, Doomed, TryPC, HandlerPC
<1>3. "absent" \in TaskStatus
  BY DEF TaskStatus
<1>4. tasks'[b].cancellation_token /\ tasks'[b].status # "completed"
  <2>1. CASE tasks'[b] = tasks[b]
    BY <2>1 DEF Doomed
  <2>2. CASE tasks'[b] \in {Started(tasks[b]), Cancelled(tasks[b]), Failed(tasks[b])}
    BY <1>0, <1>3, <2>2, TaskRows, TokenRows DEF Doomed
  <2>3. ASSUME NEW c \in Clients, tasks'[b] = CancelRequested(tasks[b], client[c].seen)
        PROVE  tasks'[b].cancellation_token /\ tasks'[b].status # "completed"
    <3>1. client[c].seen \in TaskStatus
      BY <1>0 DEF Client
    <3>. QED
      BY <1>0, <2>3, <3>1, TaskRows, TokenRows DEF Doomed
  <2>. QED
    BY <1>0, <1>1, <2>1, <2>2, <2>3 DEF Rewritten, Doomed
<1>. QED
  BY <1>2, <1>4 DEF Doomed

\* The statement of EarlyCancelHonoured for one audit.
LEMMA EarlyCancelOfOne ==
  ASSUME NEW a \in Audits
  PROVE  Spec => [](runner[a].pc = "spawned" /\ tasks[a].cancellation_token
                      => [](tasks[a].status # "completed" /\ runner[a].pc # "awaiting"))
<1>1. IInv /\ runner[a].pc = "spawned" /\ tasks[a].cancellation_token => Doomed(a)
  BY DEF IInv, CoroutineInv, RowInv, StampsTell, Terminal, Doomed
<1>2. IInv /\ Doomed(a) /\ [Next]_vars => Doomed(a)'
  BY StaysDoomed
<1>3. Doomed(a) => tasks[a].status # "completed" /\ runner[a].pc # "awaiting"
  BY DEF Doomed
<1>. QED
  BY InductiveInvariant, <1>1, <1>2, <1>3, PTL DEF Spec

\* A cancel that is committed before the coroutine first runs is honoured, on any
\* number of workers and whatever fails, although the coroutine overwrites its status.
THEOREM EarlyCancelsHonoured == Spec => EarlyCancelHonoured
BY EarlyCancelOfOne DEF EarlyCancelHonoured

-----------------------------------------------------------------------------
\* Coroutines go forward.

\* How far a coroutine is.  Whoever finds an error goes on to the except block, and
\* the ends come after everything.
Travelled(pc) ==
  CASE pc = "none" -> 0
    [] pc = "spawned" -> 1
    [] pc = "started" -> 2
    [] pc = "loaded" -> 3
    [] pc = "awaiting" -> 4
    [] pc = "committed" -> 5
    [] pc = "failing" -> 6
    [] pc = "reread" -> 7
    [] pc = "recorded" -> 8
    [] OTHER -> 9

\* Every move allowed by Moved goes forward.
LEMMA MovedForward ==
  ASSUME NEW b, NEW pc \in RunnerPC, NEW next \in RunnerPC, Moved(b, pc, next)
  PROVE  next = pc \/ Travelled(pc) < Travelled(next)
<1>1. /\ Travelled("none") = 0 /\ Travelled("spawned") = 1 /\ Travelled("started") = 2
      /\ Travelled("loaded") = 3 /\ Travelled("awaiting") = 4 /\ Travelled("committed") = 5
      /\ Travelled("failing") = 6 /\ Travelled("reread") = 7 /\ Travelled("recorded") = 8
      /\ Travelled("returned") = 9 /\ Travelled("escaped") = 9 /\ Travelled("lost") = 9
  BY DEF Travelled
<1>. QED
  BY <1>1 DEF Moved, TryPC, HandlerPC

\* No coroutine passes a statement twice: the except block does not begin again, whatever
\* fails in it, and a lost coroutine is not resumed, so that none takes more than nine
\* steps.  This is the part of EveryTaskFinishes that needs no fairness.
THEOREM CoroutinesGoForward ==
  Spec => [][\A a \in Audits :
               \/ runner'[a].pc = runner[a].pc
               \/ Travelled(runner[a].pc) < Travelled(runner'[a].pc)]_vars
<1>1. ASSUME IInv, [Next]_vars
      PROVE  \A a \in Audits : \/ runner'[a].pc = runner[a].pc
                               \/ Travelled(runner[a].pc) < Travelled(runner'[a].pc)
  <2>. TAKE b \in Audits
  <2>1. Moved(b, runner[b].pc, runner'[b].pc)
    BY <1>1, OneStep
  <2>2. TypeOK /\ TypeOK'
    BY <1>1, StepTypeOK DEF IInv
  <2>3. runner[b].pc \in RunnerPC /\ runner'[b].pc \in RunnerPC
    BY <2>2 DEF TypeOK, Runner, RunnerPC
  <2>. QED
    BY <2>1, <2>3, MovedForward
<1>. QED
  BY InductiveInvariant, <1>1, PTL DEF Spec

-----------------------------------------------------------------------------
\* With one worker and no database error a settled task is final.

\* A coroutine that has begun a stretch of statements holds the loop of its worker.
Holds(a) == Live(a) /\ runner[a].pc \notin {"spawned", "awaiting"}

\* A worker does one thing at a time, whatever the number of workers.
OneAtATime ==
  /\ \A a \in Audits : Live(a) => runner[a].worker \in Workers
  /\ \A c \in Clients : client[c].pc # "idle" => client[c].worker \in Workers
  /\ \A a, b \in Audits :
       Holds(a) /\ Holds(b) /\ runner[a].worker = runner[b].worker => a = b
  /\ \A a \in Audits, c \in Clients :
       Holds(a) /\ client[c].pc # "idle" => client[c].worker # runner[a].worker
  /\ \A c, d \in Clients :
       client[c].pc # "idle" /\ client[d].pc # "idle" /\ client[c].worker = client[d].worker
         => c = d

\* What nobody can change behind the back of a coroutine or a handler that holds the
\* only loop: the audit just completed is still there, what failed has not settled, and
\* the task a cancel found open still is.
SoleInv ==
  /\ \A a \in Audits :
       /\ runner[a].pc = "committed" => AuditExists(a)
       /\ runner[a].pc \in {"failing", "reread"} => tasks[a].status \notin Terminal
  /\ \A c \in Clients :
       client[c].pc = "cancel" => tasks[client[c].audit].status \notin Terminal

\* Nothing holds a loop at first.
LEMMA InitSole == Init => OneAtATime /\ SoleInv
  BY DEF Init, OneAtATime, SoleInv, Holds, Live, NoRunner, Idle, TryPC, HandlerPC

\* A coroutine that takes a step found its loop free or holds it, and keeps its worker.
LEMMA RunnerLoop ==
  ASSUME IInv, NEW a \in Audits, RunnerStep(a) \/ DbError(a)
  PROVE  /\ Live(a) /\ client' = client
         /\ LoopFree(runner[a].worker) \/ Holds(a)
         /\ runner'[a].worker = runner[a].worker
         /\ \A b \in Audits \ {a} : runner'[b] = runner[b]
<1>0. runner[a] \in Runner /\ runner \in [Audits -> Runner]
  BY DEF IInv, TypeOK
<1>1. Live(a) /\ client' = client
  BY DEF RunnerStep, DbError, StartTask, LoadAudit, CheckCancellation, CompleteAudit, AuditRaises,
         NotifyCompletion, RereadRows, RecordFailure, NotifyFailure, Live, TryPC, HandlerPC
<1>2. LoopFree(runner[a].worker) \/ Holds(a)
  BY <1>1
  DEF RunnerStep, DbError, StartTask, LoadAudit, CheckCancellation, CompleteAudit, AuditRaises,
      NotifyCompletion, RereadRows, RecordFailure, NotifyFailure, Holds
<1>3. CASE RereadRows(a)
  BY <1>0, <1>1, <1>2, <1>3 DEF RereadRows, Runner
<1>4. CASE \E pc \in RunnerPC : Goto(a, pc)
  BY <1>0, <1>1, <1>2, <1>4, Moves DEF Goto
<1>5. \/ RereadRows(a)
      \/ \E pc \in RunnerPC : Goto(a, pc)
  <2>1. RunnerPC = {"none", "spawned", "started", "loaded", "awaiting", "committed", "failing",
                    "reread", "recorded", "returned", "escaped", "lost"}
    BY DEF RunnerPC, TryPC, HandlerPC, EndedPC
  <2>. QED
    BY <2>1
    DEF RunnerStep, DbError, StartTask, LoadAudit, CheckCancellation, CompleteAudit, AuditRaises,
        NotifyCompletion, RecordFailure, NotifyFailure
<1>. QED
  BY <1>3, <1>4, <1>5

\* Nobody else acts on a loop that is held.
LEMMA StepOneAtATime ==
  ASSUME IInv, OneAtATime, [Next]_vars
  PROVE  OneAtATime'
<1>0. client \in [Clients -> Client] /\ runner \in [Audits -> Runner]
  BY DEF IInv, TypeOK
<1>1. CASE UNCHANGED vars
  BY <1>1 DEF vars, OneAtATime, Holds, Live
<1>2. ASSUME NEW a \in Audits, RunnerStep(a) \/ DbError(a)
      PROVE  OneAtATime'
  <2>1. /\ Live(a) /\ client' = client /\ runner'[a].worker = runner[a].worker
        /\ LoopFree(runner[a].worker) \/ Holds(a)
        /\ \A b \in Audits \ {a} : runner'[b] = runner[b]
    BY <1>2, RunnerLoop
  <2>2. \A b \in Audits \ {a} : (Live(b)' <=> Live(b)) /\ (Holds(b)' <=> Holds(b))
    BY <2>1 DEF Live, Holds
  <2>3. \A b \in Audits \ {a} : Holds(b) => runner[b].worker # runner[a].worker
    BY <2>1 DEF OneAtATime, LoopFree, Holds
  <2>4. \A c \in Clients : client[c].pc # "idle" => client[c].worker # runner[a].worker
    BY <2>1 DEF OneAtATime, LoopFree
  <2>. QED
    BY <2>1, <2>2, <2>3, <2>4 DEF OneAtATime
<1>3. ASSUME NEW c \in Clients, ClientStep(c)
      PROVE  OneAtATime'
  <2>1. runner' = runner /\ client' = [client EXCEPT ![c] = Idle]
    BY <1>3 DEF ClientStep, CancelCommit, DeleteCommit
  <2>2. \A d \in Clients : client'[d] = client[d] \/ client'[d].pc = "idle"
    BY <1>0, <2>1 DEF Idle
  <2>. QED
    BY <2>1, <2>2 DEF OneAtATime, Holds, Live
<1>4. ASSUME NEW w \in Workers, Restart(w)
      PROVE  OneAtATime'
  <2>1. \A a \in Audits : runner'[a] = runner[a] \/ ~Live(a)'
    <3>. SUFFICES ASSUME NEW a \in Audits PROVE runner'[a] = runner[a] \/ ~Live(a)'
      OBVIOUS
    <3>1. At(runner[a], "lost").pc = "lost"
      BY <1>0, Moves DEF RunnerPC, EndedPC
    <3>. QED
      BY <1>4, <3>1 DEF Restart, Live, TryPC, HandlerPC
  <2>2. \A d \in Clients : client'[d] = client[d] \/ client'[d].pc = "idle"
    BY <1>4 DEF Restart, Idle
  <2>. QED
    BY <2>1, <2>2 DEF OneAtATime, Holds, Live
<1>5. ASSUME NEW w \in Workers, NEW a \in Audits, CreateAudit(a, w)
      PROVE  OneAtATime'
  <2>1. /\ client' = client /\ runner'[a].worker = w /\ runner'[a].pc = "spawned"
        /\ \A b \in Audits \ {a} : runner'[b] = runner[b]
    BY <1>0, <1>5 DEF CreateAudit
  <2>. QED
    BY <2>1 DEF OneAtATime, Holds, Live
<1>6. ASSUME NEW w \in Workers, NEW a \in Audits, NEW c \in Clients,
             CancelTask(c, a, w) \/ DeleteAudit(c, a, w)
      PROVE  OneAtATime'
  <2>1. /\ runner' = runner /\ client'[c].worker = w /\ LoopFree(w)
        /\ \A d \in Clients \ {c} : client'[d] = client[d]
    BY <1>0, <1>6 DEF CancelTask, DeleteAudit
  <2>2. \A b \in Audits : Holds(b) => runner[b].worker # w
    BY <2>1 DEF LoopFree, Holds
  <2>. QED
    BY <2>1, <2>2 DEF OneAtATime, LoopFree, Holds, Live
<1>. QED
  BY <1>1, <1>2, <1>3, <1>4, <1>5, <1>6 DEF Next

\* With one worker, whoever holds a loop is alone with the database.
LEMMA Alone ==
  ASSUME OneAtATime, \A v, w \in Workers : v = w, NEW a \in Audits, Live(a),
         LoopFree(runner[a].worker) \/ Holds(a)
  PROVE  \A c \in Clients : client[c].pc = "idle"
  BY DEF OneAtATime, LoopFree

\* What holds between two statements of the only worker.
LEMMA StepSole ==
  ASSUME IInv, OneAtATime, SoleInv, [Next]_vars,
         \A v, w \in Workers : v = w, MaxDbErrors = 0
  PROVE  SoleInv'
<1>0. /\ client \in [Clients -> Client] /\ runner \in [Audits -> Runner]
      /\ tasks \in [Audits -> TaskRow] /\ audits \in [Audits -> AuditRow]
      /\ ~(dbErrors < MaxDbErrors)
  BY DEF IInv, TypeOK
<1>1. CASE UNCHANGED vars
  BY <1>1 DEF vars, SoleInv, AuditExists
<1>2. ASSUME NEW a \in Audits, RunnerStep(a)
      PROVE  SoleInv'
  <2>1. /\ Live(a) /\ client' = client
        /\ LoopFree(runner[a].worker) \/ Holds(a)
        /\ \A b \in Audits \ {a} : runner'[b] = runner[b]
    BY <1>2, RunnerLoop
  <2>2. \A c \in Clients : client[c].pc = "idle"
    BY <2>1, Alone
  <2>3. \A b \in Audits \ {a} : tasks'[b] = tasks[b] /\ audits'[b] = audits[b]
    BY <1>0, <1>2
    DEF RunnerStep, StartTask, LoadAudit, CheckCancellation, CompleteAudit, AuditRaises,
        NotifyCompletion, RereadRows, RecordFailure, NotifyFailure
  <2>4. Moved(a, runner[a].pc, runner'[a].pc)
    BY <1>2, OneStep DEF Next
  <2>p. RunnerPC = {"none", "spawned", "started", "loaded", "awaiting", "committed", "failing",
                    "reread", "recorded", "returned", "escaped", "lost"}
    BY DEF RunnerPC, TryPC, HandlerPC, EndedPC
  <2>g. \A pc \in RunnerPC : Goto(a, pc) => runner'[a].pc = pc
    BY GotoMoves DEF IInv
  <2>5. runner'[a].pc = "committed" => AuditExists(a)'
    <3>1. CASE CompleteAudit(a)
      <4>1. CASE AuditExists(a)
        <5>1. AuditCompleted(audits[a]).status = "completed"
          BY <1>0, AuditRows
        <5>. QED
          BY <1>0, <3>1, <4>1, <5>1 DEF CompleteAudit, AuditExists
      <4>2. CASE ~AuditExists(a)
        <5>1. runner'[a].pc = "failing"
          BY <3>1, <4>2, GotoMoves DEF CompleteAudit, IInv, RunnerPC, HandlerPC
        <5>. QED
          BY <5>1
      <4>. QED
        BY <4>1, <4>2
    <3>2. CASE ~CompleteAudit(a)
      <4>1. runner[a].pc # "committed" => runner'[a].pc # "committed"
        <5>1. CASE RereadRows(a)
          BY <1>0, <5>1 DEF RereadRows, Runner
        <5>2. CASE ~RereadRows(a)
          BY <1>2, <2>g, <2>p, <3>2, <5>2
          DEF RunnerStep, StartTask, LoadAudit, CheckCancellation, AuditRaises,
              NotifyCompletion, RecordFailure, NotifyFailure
        <5>. QED
          BY <5>1, <5>2
      <4>2. runner[a].pc = "committed" => audits' = audits
        BY <1>2
        DEF RunnerStep, StartTask, LoadAudit, CheckCancellation, CompleteAudit, AuditRaises,
            NotifyCompletion, RereadRows, RecordFailure, NotifyFailure
      <4>. QED
        BY <4>1, <4>2 DEF SoleInv, AuditExists
    <3>. QED
      BY <3>1, <3>2
  <2>6. runner'[a].pc \in {"failing", "reread"} => tasks'[a].status \notin Terminal
    <3>1. SUFFICES ASSUME runner'[a].pc \in {"failing", "reread"}
                   PROVE  tasks'[a].status \notin Terminal
      OBVIOUS
    <3>2. runner[a].pc \in {"started", "awaiting", "committed", "failing", "reread"}
      BY <1>0, <2>4, <3>1 DEF Moved, HandlerPC, TryPC
    <3>3. runner[a].pc = "committed" => AuditExists(a)
      BY DEF SoleInv
    <3>4. tasks' = tasks
      BY <1>2, <2>g, <2>p, <3>1, <3>2
      DEF RunnerStep, StartTask, LoadAudit, CheckCancellation, CompleteAudit, AuditRaises,
          NotifyCompletion, RereadRows, RecordFailure, NotifyFailure
    <3>5. runner[a].pc # "committed"
      BY <1>0, <2>4, <3>1, <3>3 DEF Moved, HandlerPC, TryPC
    <3>. QED
      BY <3>2, <3>4, <3>5 DEF SoleInv, IInv, CoroutineInv, RowInv, StampsTell
  <2>. QED
    BY <2>1, <2>2, <2>3, <2>5, <2>6 DEF SoleInv, AuditExists
<1>3. ASSUME NEW c \in Clients, ClientStep(c)
      PROVE  SoleInv'
  <2>. DEFINE t == CancelRequested(tasks[client[c].audit], client[c].seen)
  <2>1. /\ runner' = runner /\ client' = [client EXCEPT ![c] = Idle]
        /\ client[c].pc # "idle" /\ client[c].worker \in Workers
        /\ client[c].audit \in Audits /\ client[c].seen \in TaskStatus
    BY <1>0, <1>3 DEF ClientStep, CancelCommit, DeleteCommit, OneAtATime, IInv, CoroutineInv, Client
  <2>2. \A a \in Audits : runner[a].pc # "committed"
    BY <2>1 DEF OneAtATime, Holds, Live, TryPC
  <2>3. \A d \in Clients : client'[d].pc = "cancel" => client'[d] = client[d] /\ client[d].pc = "cancel"
    BY <1>0, <2>1 DEF Idle
  <2>4. t.status \in {tasks[client[c].audit].status, "cancelling"}
    BY <1>0, <2>1, TaskRows
  <2>5. \A b \in Audits : tasks'[b].status \in {tasks[b].status, "cancelling"}
    BY <1>0, <1>3, <2>1, <2>4 DEF ClientStep, CancelCommit, DeleteCommit
  <2>6. \A d \in Clients : client[d].pc = "cancel" => client[d].audit \in Audits
    BY DEF IInv, CoroutineInv
  <2>. HIDE DEF t
  <2>. QED
    BY <2>1, <2>2, <2>3, <2>5, <2>6 DEF SoleInv, Terminal
<1>4. ASSUME NEW w \in Workers, Restart(w)
      PROVE  SoleInv'
  <2>1. \A a \in Audits : runner'[a] = runner[a] \/ runner'[a].pc = "lost"
    <3>1. \A a \in Audits : At(runner[a], "lost").pc = "lost"
      BY <1>0, Moves DEF RunnerPC, EndedPC
    <3>. QED
      BY <1>4, <3>1 DEF Restart
  <2>2. \A d \in Clients : client'[d] = client[d] \/ client'[d].pc = "idle"
    BY <1>4 DEF Restart, Idle
  <2>. QED
    BY <1>4, <2>1, <2>2 DEF Restart, SoleInv, AuditExists
<1>5. ASSUME NEW w \in Workers, NEW a \in Audits, CreateAudit(a, w)
      PROVE  SoleInv'
  <2>1. /\ client' = client /\ runner'[a].pc = "spawned"
        /\ \A b \in Audits \ {a} :
             runner'[b] = runner[b] /\ tasks'[b] = tasks[b] /\ audits'[b] = audits[b]
        /\ tasks'[a] = NewTask
    BY <1>0, <1>5 DEF CreateAudit
  <2>2. NewTask.status = "pending"
    BY DEF NewTask, NoTaskRow
  <2>3. \A d \in Clients : client[d].pc = "cancel" => client[d].audit \in Audits
    BY DEF IInv, CoroutineInv
  <2>. QED
    BY <2>1, <2>2, <2>3 DEF SoleInv, AuditExists, Terminal
<1>6. ASSUME NEW w \in Workers, NEW a \in Audits, NEW c \in Clients,
             CancelTask(c, a, w) \/ DeleteAudit(c, a, w)
      PROVE  SoleInv'
  <2>1. /\ runner' = runner /\ tasks' = tasks /\ audits' = audits
        /\ client'[c].pc = "cancel" => client'[c].audit = a /\ tasks[a].status \notin Terminal
        /\ \A d \in Clients \ {c} : client'[d] = client[d]
    BY <1>0, <1>6 DEF CancelTask, DeleteAudit
  <2>. QED
    BY <2>1 DEF SoleInv, AuditExists
<1>. QED
  BY <1>0, <1>1, <1>2, <1>3, <1>4, <1>5, <1>6 DEF Next, DbError

\* No step of the only worker changes the status of a settled task.
LEMMA StepSettled ==
  ASSUME IInv, OneAtATime, SoleInv, [Next]_vars, NEW b \in Audits, tasks[b].status \in Terminal
  PROVE  tasks'[b].status = tasks[b].status
<1>1. Rewritten(b, tasks'[b])
  BY OneStep
<1>2. tasks[b].finished_at /\ Created(b)
  BY DEF IInv, RowInv, StampsTell, Created, Terminal
<1>3. runner[b].pc \notin {"spawned", "loaded", "awaiting", "reread"}
  BY <1>2 DEF IInv, CoroutineInv, SoleInv
<1>. QED
  BY <1>1, <1>2, <1>3 DEF Rewritten, SoleInv

\* The only worker makes "Task already completed" final: no handler and no except block
\* writes over the status of a task that ended, whatever is deleted and however often
\* the worker is restarted.
THEOREM SoleWorkerSettlesForGood ==
  ASSUME \A v, w \in Workers : v = w, MaxDbErrors = 0
  PROVE  Spec => SettledIsFinal
<1>1. IInv /\ OneAtATime /\ SoleInv /\ [Next]_vars => (OneAtATime /\ SoleInv)'
  BY StepOneAtATime, StepSole
<1>2. IInv /\ OneAtATime /\ SoleInv /\ [Next]_vars
        => [\A a \in Audits : tasks[a].status \in Terminal
                                => tasks'[a].status = tasks[a].status]_vars
  BY StepSettled
<1>. QED
  BY InductiveInvariant, InitSole, <1>1, <1>2, PTL DEF Spec, SettledIsFinal
=============================================================================
