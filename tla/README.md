# Agent Inspector: a verification project

TLA+ models of the backend of Agent Inspector (`src/backend`), the TLC
configurations that check them on small instances, and theorems about them with
proofs that TLAPS checks for every value of the constants. `PROJECT.json` holds
the components, the runs, the mutants, the map from definitions to source
lines, the findings, the hazards and the theorems.

    tlc -workers 2 -config AuditTasks.cfg MCAuditTasks.tla    # a run
    tlapm AuditTasksProofs.tla                                # a proof module

## 1. The system

### How it executes

`uvicorn` runs `backend.main:app` in four worker processes (`Dockerfile:59`),
which share one SQL database and nothing else. A worker is one event loop. The
endpoints are `async` functions that call SQLAlchemy synchronously and, with one
exception, never suspend: while a handler runs, its worker does nothing else.
The exception is the coroutine of an audit, which awaits the audit for up to
300 s. So:

- in one worker, code between two awaits is atomic;
- between workers, every database statement may interleave with every other;
- a session caches a row from its SELECT until its commit, and an UPDATE writes
  only the columns whose value differs from what was read. Nothing takes a lock
  and no row has a version, so a commit may write over what was never read;
- a worker that dies is started again (`restart: unless-stopped`,
  `docker-compose.yml:7`), and start-up only creates tables (`main.py:207-209`).

The interleavings, the stale reads, the partial failures and the restarts are
what this project is about.

### Inventory

| Component | State | Operations | Interacts with | Hard behaviour | Correct when |
|---|---|---|---|---|---|
| Audit task engine, `routers/audits.py` | tables `audits`, `task_queue`; coroutines | create, run, cancel, delete | database, webhook queue | two rows written by three handlers on several workers; timeout, except block, early returns | the rows agree; every returned coroutine settled its task; deletions last; every open task ends |
| Webhook queue, `engines/webhook_queue.py`, retry in `main.py:513-546` | table `webhook_deliveries` | enqueue, recover, poll and send, give up, retry of a dead letter | the endpoint called, the audit engine | read, send for seconds, write; several pollers; lost iterations | delivered only if accepted; given up only after five failures; every delivery settles |
| Secret vault and administrators' log, `routers/admin.py:124-198`, `dependencies.py:60-103` | tables `secret_vault`, `admin_audit_logs` | upsert, rotate, read | everyone who reads a secret | look-up, log, second look-up and write in four transactions; a falsy value; a unique name | a register per name; every value has an author whose write took effect; no upsert and no answer without its log entry (a rotation that is lost may stay unlogged) |
| Access control, `dependencies.py`, copied in `main.py:68-197` | table `api_keys`; two limiters per process | check key, expiry, limit and scope | every endpoint | state per process; a row read before and written after a revocation | no window exceeds the limit; a revoked key stays revoked |
| API keys, `routers/keys.py` | tables `api_keys`, `admin_audit_logs` | create, revoke, sign | access control | a log failure that is swallowed | no change without its log entry |
| Monitoring scheduler, `scheduler.py` | `_task`, `_running`; table `scheduler_runs` | start, stop, loop, manual run | monitoring | cancellation, a `start` inside a `stop`, an exception that ends the loop | a running scheduler has a loop that goes on; a stopped one comes to rest |
| Celery worker, `celery_worker.py` | the audit tables | run an audit, retry it | audit engine, cancel, delete | retries of what was recorded as failed, cancelled or deleted | both rows tell the failure; retries end; the life cycle of the audit engine |
| Schema, `database.py`, `migrations/` | the tables, `alembic_version` | `create_all` of every worker; upgrade, downgrade | every component | look first, create later, on several workers; one commit per statement on SQLite, and a crash between two | a worker that serves finds its tables; one of the racing workers serves; what is stamped is there |
| Agents, `routers/agents.py` | table `agents` | create, read, delete | audits refer to them | deletion loads and detaches audits while others come and go | no audit with an agent that is gone |
| Dashboard, metrics, `main.py:414-448` | none | counts | audits, agents | counts in separate statements | the rate exceeds one by newcomers at most |
| Other administrator endpoints, `routers/admin.py` | - | listings, backup, restore | agents, log | rows read again after the commit of the log entry; a restore beside a restore | no deleted agent is shown |
| Monitoring and trends, `monitoring.py` | read only | alerts, trends | audits | a window over creation, audits that complete in any order | an alert stands until something happens; alert and trend agree |
| Calibration data, `generate_calibration_dataset.py` | none | generate | - | rounding twice, trimming | never more than asked; every category represented |
| Legacy `AgentAuditor`, `engines/agent_auditor.py` | - | - | nobody can import it | - | - |
| Reports, cost analysis | none | arithmetic over one audit | audits | floating point | out of TLC's reach |
| Evaluators, semantic matchers, router of language models, test generator, security tester, tool auditor | none | pure scoring and generation | external models | floating point | out of TLC's reach |
| Middleware, health, demo agent, front end, validation script | none | stateless or read only | - | - | - |

The SDK `agentinspector`, the endpoints that webhooks go to, the database and
the language models are external. A restart, an error of a database statement
and an answer of an endpoint are modelled as nondeterministic steps.

## 2. The modules

| Module | What it is |
|---|---|
| `AuditTasks` | the audit engine: rows, coroutines, cancel and delete handlers |
| `AuditLifecycle` | its abstract specification: what a client sees of an audit |
| `WebhookQueue` | the delivery queue: rows, pollers, administrators' retries, time |
| `WebhookContract` | its abstract specification: what is promised per delivery |
| `AdminVault` | the handlers that write, rotate and read a secret, and their log |
| `SecretContract` | its abstract specification: a register per name |
| `ApiAccess` | key check, rate limiters, scope check, creation and revocation of keys |
| `AccessContract` | its abstract specification: who may change a key |
| `Catalog` | agents, the audits that refer to them, the handlers that list, count, delete and restore them |
| `Scheduler` | start, stop and the loop of the monitoring scheduler, the manual run |
| `CeleryRunner` | the Celery task of an audit beside cancel and delete; implements `AuditLifecycle` too |
| `Schema` | the making of the tables by the workers and by alembic |
| `Monitoring` | the score-drop alert and the trend of one agent |
| `Dataset` | the arithmetic of the calibration data set |
| `MCAuditTasks`, `MCWebhookQueue`, `MCAdminVault`, `MCApiAccess`, `MCCatalog` | the instances TLC checks |
| `MCOperations` | the instance of `Scheduler`, `CeleryRunner`, `Schema`, `Monitoring` and `Dataset`, one at a time |
| `AuditTasksProofs`, `WebhookQueueProofs`, `AdminVaultProofs`, `ApiAccessProofs`, `CatalogProofs`, `CeleryRunnerProofs`, `SchemaProofs`, `OperationsProofs` | theorems and proofs; the last one those of `Scheduler`, `Monitoring` and `Dataset` |

A definition whose name says what went wrong (`SucceededForgotten`,
`StampWritesRow`) and whose comment begins with *Mutant* is not part of the
model: it is the definition after it with a plausible bug, kept to show that a
property can fail.

### AuditTasks

| State | Code |
|---|---|
| `audits`, `tasks` | the rows of `audits` and `task_queue`; time stamps, tokens and errors are kept as "is it set" |
| `runner[a]` | the coroutine `_run_audit_task` of audit `a`: where it is, on which worker, and what its except block read |
| `client[c]` | a cancel or delete handler between its query and its commit |
| `events` | webhook deliveries the coroutine enqueued: none, since `create_audit` never stores `webhook_url` (`routers/audits.py:116-123`, `:365`) |
| `restarts`, `dbErrors` | faults so far, bounded by `MaxRestarts` and `MaxDbErrors` |

`CreateAudit` is POST /audit. The coroutine is `StartTask`, `LoadAudit`,
`CheckCancellation`, then the await, then `CompleteAudit` or `AuditRaises`
(exception or `wait_for` timeout), `NotifyCompletion`; its except block is
`RereadRows`, `RecordFailure`, `NotifyFailure`. `CancelTask`/`CancelCommit` and
`DeleteAudit`/`DeleteCommit` are the handlers, split where another worker can
come in. `LoopFree(w)` says that nobody holds the event loop of `w`.
`ForeignKeys` distinguishes PostgreSQL, which enforces `task_queue.audit_id`,
from SQLite, which as configured does not. A deleted audit leaves its task row.

`AuditLifecycle` has no tasks, cancels or workers: an audit is submitted, settled
by its job while that lives, and removed. `Outcome` and `Live` are the mapping.

### WebhookQueue

| State | Code |
|---|---|
| `status`, `retry_count`, `failed_at`, `wait` | columns of `webhook_deliveries`; `wait` is the time left until `next_retry_at` |
| `poller[p]` | a process in `run_worker`: the row it holds, the `retry_count` it read, the seconds since it took `now` |
| `admin[a]` | a retry handler between its query and its commit |
| `accepted`, `failures` | history: what the endpoint answered |

`RecoverPending`, `SelectNext`, `SendAccepted` or `SendFails`, and
`RecordSuccess` or `RecordFailure` are one iteration of the loop; `Abort` loses
one. `RetryDeadLetter` and `RequeueCommit` are the administrator's retry. The
SELECT and the commit of `recover_pending` are one action: with one poller this
is exact; with two it leaves out that a row changes between them, of which only
the time of its next attempt could tell. In the repository nothing starts
`run_worker`: the model is of the queue as it behaves when something does.

`WebhookContract` knows statuses, counts and acceptances only.

### AdminVault

`vault` and `log` are the tables, `request[r]` is a handler with its position,
what it asked for, and whether it took effect (history). Every statement is an
action: `LookUp`, `LogUpsert`, then `_set_secret` as `SetSecret`, `SelectRow`,
`UpdateRow` or `InsertRow`; `LogRotate`; `ReadSecret`, `LogRead`. `Empty` is the
empty string, which `_set_secret` takes for no row. A fresh random token is
represented by the request that drew it.

`SecretContract` is the linearizability of a register per name: each request
takes effect once, at an instant between call and answer.

### ApiAccess

`key[k]` is the row of a key (absent, active, revoked), `hits[l]` the memory of
limiter `l`, `admitted[l]` the same without forgetting (history), `request[r]` a
handler, `log` the entries of the key handlers. There are two limiters per worker
because `main.py` has its own copy of the limiter for the endpoints defined there.
The key look-up, the comparison of the expiry and the limiter are one action each
way they can end (`RefuseRevoked`, `CompareExpiry`, `Throttle`, `Admit`), since a
single statement is between them; `Stamp` is the commit of `last_used_at`;
`EnterAdmin` and `KeepOut` are the second look-up and the scope check;
`LogCreate`, `InsertKey`, `FindKey`, `RevokeCommit` are the key handlers.
`DbError` in a commit of the log leaves the session waiting for a rollback: the
handler swallows the exception, and its next commit raises (`FinishBroken`).
A key's limit, scopes and expiry never change, and are constants. The time
`last_used_at` itself is not kept: no decision reads it. `CompareExpiry` is the
comparison of a naive with an aware time, which raises for every key that has an
expiry (`dependencies.py:144`), before the expiry as after it. The IP block list, which
nothing fills, and `required_scope`, which no endpoint sets, are left out.

`AccessContract` knows keys and requests only: a request is presented with an active
key, cleared at a later instant at which that key is active still and an
administrator's, and changes one key, the one it named, or makes one. It does not
promise that the key is active when the request takes effect: one that was cleared goes
on when its key is revoked meanwhile, in the code too. `View` is the mapping: waiting
until the second look-up, cleared after it.

### Catalog

| State | Code |
|---|---|
| `database` | whether the server runs on SQLite or on PostgreSQL, which enforces `audits.agent_id` |
| `agents`, `audits` | the rows of the two tables; of an audit its `agent_id` and status |
| `request[r]` | a handler between two of its statements: the rows it loaded, has still to read, or has counted |
| `born`, `alive`, `late` | history: the ids used so far, the agents since a log entry, the audits since a count |

`DELETE /agents/{id}` is `FindAgent`, `LoadAudits` (the flush loads `agent.audits`)
and `DeleteAgentCommit`, which detaches what was loaded and deletes the agent in one
transaction, or neither. `GET /admin/agents` is `ListAgentsAdmin`, `LogListing` and,
because the commit of the log expires the rows, a `RefreshAgent` for each.
`POST /admin/restore` is `Restore`, a `CheckAgent` for each agent of the file,
`RestoreCommit`, `LogRestore`; `POST /admin/backup` fails before it changes anything.
The counts of the dashboard and of the metrics are `CountAudits`, `CountCompleted`,
`AnswerCounts`. `Settle` stands for the audit engine.

### Scheduler

`running` and `task` are the fields `_running` and `_task`, `loop[l]` is the asyncio
task of the `l`-th `start()`, `stopping[c]` the task that a caller of `stop()` awaits,
`runs` the newest row of each job. All jobs are synchronous code, so that a round is
one action; each of its two jobs succeeds, fails, or lets an exception escape.
`Stop` is `stop()` up to its await and `StopReturns` the rest of it.

### CeleryRunner

`job[a]` is the Celery task of audit `a`: its position, `self.request.retries`, and
what its except block read. The task calls the coroutine function `Inspector.audit`
without awaiting it, so that reading `report.__dict__` of what it gets raises in
every attempt, and what follows line 66 is unreachable. Nothing dispatches the task
in the repository; `Dispatch` takes the rows of POST /audit. `AuditLifecycle` is
implemented with the mapping `Outcome` and the jobs that are active.

### Schema

`tables` and `lacks` are the tables that exist and the columns of its model that each
lacks, `stamp` the number of revisions in `alembic_version`, `copies` the tables that a
batch operation of SQLite left behind, `worker[w]` the start-up of a worker,
`migration` the alembic process and `upgraded` how the last upgrade ended. `create_all`
is a `CheckTable` for every table, `PlanTables`, then on SQLite one `CreateTable` after
the other, in the order that SQLAlchemy computes from the missing tables, and on
PostgreSQL one `CreateAll`.

alembic on SQLite goes statement by statement, because its DDL is not transactional
there: each CREATE, DROP and ALTER TABLE is committed at once and the stamp after them.

- The first revision is a `MigrateTable` per table, in both directions.
- The upgrade of the second is a batch of two `add_column`, for which alembic makes no
  copy: an `AddColumn` each, that is an ALTER TABLE, which fails on a column that is
  there. Killed between the two, the upgrade fails whenever it is repeated; it also
  fails on an `audits` that `create_all` made.
- The downgrade of the second, and the third revision with its `alter_column`, work on a
  copy: `CopyTable` creates `_alembic_tmp_...`, which stays if alembic is killed. The
  rows are copied, the table dropped and the copy renamed in the transaction that
  `Stamp` commits. alembic fails before the copy when a column to be dropped is absent,
  or when the one to be added is there: `encrypted_value` is not the last column of
  `secret_vault`, so that adding it again gives the order of the columns a cycle.

alembic itself is external: this is its default `recreate="auto"`, as the migrations
use it. On PostgreSQL the upgrade is one transaction, `UpgradeTransaction`.

### Monitoring and Dataset

`history` is the audits of one agent in the order of `created_at`, `alert` the answer of
the last GET /alerts. `ScoreDrop` is `check_score_drop`, `Trend` is `daily_scores`: a
descending query with a window in hours and an ascending one with a window in days.
`Dataset` follows `generate_dataset` entry by entry: `collected` and `examples` are the
lengths of the list after each entry, before and after the trim, so that the examples of
an entry lie between two marks. `Scaled` is a set because the product with a float may
fall just below an integer.

## 3. The runs

Bounds are small because what can go wrong needs few actors: two writers of one
row, one reader whose view is stale, one fault between two steps. `Permutations`
is used for symmetry where the run has invariants and step properties only.

| Run (cfg) | Instance | States | What it shows |
|---|---|---|---|
| `audit_rows` (`AuditTasks`) | 2 audits, 2 workers, 2 requests, 1 restart, 1 database error | 516 k | `TypeOK`, `RowsAgree`, `StampsTell`, `EndedRunnerSettles`, `DeletedStaysDeleted`, `ImplementsLifecycle` |
| `audit_one_worker` (`AuditLive`) | 2 audits, 1 worker, 2 requests, no faults | 3.6 k | `SettledIsFinal`, `EveryTaskSettles`, `ImplementsFairLifecycle` |
| `audit_foreign_keys` (`AuditPostgres`) | 2 audits, 2 workers, 1 request, foreign keys | 16 k | `EveryTaskFinishes`, `EarlyCancelHonoured` |
| `webhook_one_poller` (`WebhookQueue`) | 2 deliveries, 1 poller, 1 administrator, 5 attempts, the code's backoff | 59 k | `DeliveredWasAccepted`, `DeadLetterEarned`, `ImplementsContract`, `EveryDeliverySettles` |
| `webhook_two_pollers` (`WebhookPollers`) | 1 delivery, 2 pollers, 2 administrators, 3 attempts | 88 k | `EveryDeliverySettles`, without a lock |
| `vault` (`AdminVault`) | 3 requests, 2 workers, 2 names, empty value, 1 restart, 1 error | 287 k | `EveryChangeHasAnAuthor`, `AnswersAreAccountable`, `ImplementsContract` |
| `api_access` (`ApiAccess`) | 3 requests, 2 workers, 3 keys, window 2 of 3 instants, 1 restart, 1 error | 1.3 M | `WindowBound`, `KeyChangesAreLogged`, `ImplementsContract` |
| `catalog` (`Catalog`) | 2 agents, 2 audits, 2 requests, both databases | 258 k | `ReferencesHold`, `DetachedOnlyByDeletion`, `ListingIsFresh`, `RateOverrunsByNewcomers` |
| `operations` (`Operations`) | scheduler: 3 loops, 2 callers, 2 errors; Celery: 1 audit, 2 clients, 3 retries, 2 faults; schema: 3 tables, 2 workers, 1 crash, 1 restart, both databases; monitoring: 3 audits, 4 hours; data set: counts to 120 | 294 k | below |

The five modules of `operations` share no state. Their product would only interleave
what can be checked one by one, so one of them moves in each behaviour and the others
rest in an initial state; the fairness of a part that rests demands nothing, because
it has no loop and no job. The run shows

- of the scheduler: `RunningHasLoop`, `SoleLoop`, `StoppedComesToRest`,
  `RunningKeepsBeating`. A `start` inside a `stop` loses its `_task`, and yet its loop
  runs and ends; three loops and two callers are enough to lose one and start another;
- of the Celery runner: `RetriedJobTells`, `EveryJobEnds`, `CeleryImplementsLifecycle`,
  with the three retries of the code;
- of the schema: `StartedWorkerServes`, `TransactionalStartupLeavesNoGap`,
  `StampedIsThere`: at whatever statement a command is killed, the stamp never tells of
  a table or a column that is not there. The three tables are a parent, its child and a
  table that no revision creates; that is what orders, gaps and failures depend on;
- of monitoring: `AlertStands` and `AlertMatchesTrend`, with a score that is exactly
  the threshold below another and one that is further below;
- of the data set: `ShortByRoundingOnly`, `CategoriesRepresented`, for every count up to
  120: the result is never longer than asked for, and at most one example per entry of the
  table shorter; from 52 on nothing is trimmed, and from 100 on no share rounds to nothing.

What these properties exempt is not claimed. `RunningKeepsBeating` and `RunningHasLoop`
leave out the loop that an exception of `_run_all` ended, which `start()` does not
replace. `audit_one_worker` and `webhook_one_poller` have no second worker or poller; the
races of two are the matter of `audit_rows`, `late_cancel`, `webhook_two_pollers` and, for
any number of pollers, of the theorem `DeliveredMeansAccepted`.

In `audit_rows` two requests and two coroutines suffice for a cancel, a delete
and both ends of a coroutine to overlap in any order. In `webhook_one_poller` the
clock is relative, so time needs no bound; the administrator's retry and the lost
iteration happen once each, at any point. In `webhook_two_pollers` three attempts
are enough for a count to be written over by a stale one and still reach the end.
In `api_access` the limit is two for the administrator's key, so that three
requests overrun it, and the window covers two of the three instants, so that
one moves out of it while others stay.

In `catalog` a second audit is what a deletion did not load, and a second request
what comes in between.

Three runs end in a violation; each is a finding, a disagreement between the code
and what the repository says of it:

- `late_cancel`: a cancel that read an open task commits after the coroutine on
  another worker completed it; the ended task becomes `cancelling` for good
  (`routers/audits.py:268-274`).
- `vault_race`: two workers create a secret at once; the log keeps a success that
  never happened (`routers/admin.py:136-157`).
- `schema_upgrade` (`SchemaUpgrade.cfg`, 3 tables, 1 worker): `alembic upgrade head`,
  with which `README.md:40-44`, `CONFIGURATION.md:136-142` and `ci.yml:164` initialise an
  empty database, fails there: the third revision alters `secret_vault`, which no revision
  creates. TLC shows it on PostgreSQL, where everything is rolled back; on SQLite the
  first two revisions remain. The theorem `HeadIsOutOfReach` says that no other order of
  server starts, upgrades and downgrades helps: where `create_all` made `secret_vault`, it
  has the column already.

Other disagreements that the models contain and no run states, because a single call
shows them: `webhook_url` of POST /audit is never stored, so that no delivery is
enqueued; the first retry of a delivery waits 2 s, not the 1 s of the docstring
(`engines/webhook_queue.py:4`, `:78-90`); a key with an expiry is never served;
`/admin/backup` always raises `NameError`; the Celery task always fails; the checks of
failure spikes and critical findings never fire, because nothing writes test results
or findings; the deletion of an agent sets `agent_id` of its audits to NULL, which
`AuditResponse` refuses, so that GET /audits answers 422 to everyone whose page holds
one of them (`routers/audits.py:41`, `:178`); what the first revision creates lacks
`agents.tenant_id`, which every query of agents names, and no revision adds it, so that
a server cannot work on the tables that alembic made; `generate_dataset` returns fewer examples than asked for by what it
rounds off, although its comment says "Normalize to hit exact count".

Deadlock is not checked where the system may stop: all ids are used and nobody
sends a request, or a part of `operations` has done its work. The webhook runs and
`catalog` check it; pollers never stop, and a client can always ask again.

### Fairness

- `AuditTasks!FairSpec`: strong fairness of a coroutine's steps: it needs its
  worker's loop, which others take in between, and asyncio's ready queue is
  first-in first-out. The await ends because `wait_for` bounds it. Weak fairness of
  a handler that has begun: it holds the loop. No fairness for requests, restarts
  or errors; `EveryTaskSettles` is checked without faults, because with them it is
  false: nothing runs the task of a worker that died.
- `WebhookQueue!FairSpec`: time passes and each poller goes on (weak fairness);
  whether the endpoint accepts is never forced.
- `SchedulerFairness`: weak fairness of each loop and of a caller that waits in
  `stop()`: the sleep ends and the event loop resumes what is ready. None for `start`,
  `stop` and manual runs. `RunningKeepsBeating` assumes a behaviour that in the end
  keeps running without an error that escapes.
- `CeleryFairness`: weak fairness of the steps of a job: the broker delivers a retry
  after its countdown and the Celery process works. None for clients and faults.
- The other modules have no fairness and no liveness property.

## 4. The theorems

For any sets of audits, workers, clients, pollers, requests, names, values, keys,
agents, loops and tables, and any bounds on faults; each module's named assumption says
only that the special values differ from the others and that numbers are numbers (and
in `Catalog` that the audits are finitely many, in `CeleryRunner` that there is a retry).

| Module | Theorems |
|---|---|
| `AuditTasksProofs` | `TypeCorrect`, `RowsAlwaysAgree`, `StampsAlwaysTell`, `ReturnedRunnersSettle`, `DeletionIsFinal`, `EngineImplementsLifecycle`, `EarlyCancelsHonoured`, `CoroutinesGoForward`; for one worker and no database error `SoleWorkerSettlesForGood` |
| `WebhookQueueProofs` | `TypeCorrect`, `PollersHoldWork`, `DeliveredMeansAccepted`, `StampsFollow`, `PollersNeverGiveUpEarly`; for one poller and one retry at a time `DeadLettersAreEarned`, `SolePollerImplementsContract` |
| `AdminVaultProofs` | `TypeCorrect`, `ChangesHaveAuthors`, `AnswersAccountable`, `VaultImplementsContract`; for one worker, no fault and no empty value `SoleWorkerLogsTruly` |
| `ApiAccessProofs` | `TypeCorrect`, `LimiterHolds`, `WorkersLimitTwice`, `KeyChangesLogged`, `RevokedForGood`, `AccessImplementsContract` |
| `CatalogProofs` | `CatalogTypeCorrect`, `ReferencesAlwaysHold`, `ListingsAreFresh`, `RatesOverrunByNewcomers`, `OnlyDeletionDetaches` |
| `CeleryRunnerProofs` | `CeleryTypeCorrect`, `RetriedJobsTell`, `JobsGoForward`, `CeleryRunnerImplementsLifecycle` |
| `SchemaProofs` | `SchemaTypeCorrect`, `StartedWorkersFindTheTables`; `StampsAreTrue`, `HeadIsOutOfReach`; for at least one worker `TransactionalStartupIsComplete` |
| `OperationsProofs` | `SchedulerTypeCorrect`, `SchedulerHasLoop`, `SchedulerSoleLoop`; `MonitoringTypeCorrect`, `AlertsMatchTrends`, `AlertsStand`; `ShortByRounding`, `EveryCategoryIsRepresented` |

Each component has one inductive invariant (`IInv`; in `OperationsProofs` `SchedulerInv`,
`MonitoringInv` and `DatasetInv`) from which the others are derived. The safety
properties alone are not inductive:

- *audits*: that the rows agree depends on where the coroutine is: before its
  result the audit has none and the task is unfinished, and the except block's
  reading of the audit is still right when it writes (`CoroutineInv`). The proof
  goes action by action over the rows of one audit; a step of another audit
  changes none of them. `Moved` and `Rewritten` say what one step may do to a coroutine
  and to a task; a cancelled coroutine that has not begun stays `Doomed`. That a settled
  task is final needs the loop: whoever holds the only one is alone with the database
  (`OneAtATime`), so that what it read is still true when it writes (`SoleInv`). Without
  one of the two hypotheses the run `late_cancel`, or an error in `NotifyCompletion`,
  is the counterexample.
- *webhooks*: `PollerInv` bounds the count a poller read, however stale, by the
  attempts left; with it no interleaving of pollers counts past the maximum. That
  a dead letter was earned needs more (`SoleInv`): a count that is read and not
  changed until it is written, which holds for one poller only. With two,
  a stale count may be written over a fresh one, which is why that property and
  the contract are claimed for one. Whatever their number, the count that is read,
  however stale, is covered by failures that happened (`CoveredInv`), so that stale
  counts give a delivery up late and never early.
- *vault*: `HandlerInv` says what a handler may rely on between two statements;
  the refinement maps the statement after which nothing can stop the write, or the
  SELECT of an update that changes nothing, to the instant of effect. One worker without
  faults logs nothing that does not happen: between the entry and the write nobody else
  acts (`SoleHandler`), and what the handler found is still there. Two workers are the
  run `vault_race`.
- *access*: `LimiterInv`: a limiter remembers all it admitted within the window
  and nothing it did not admit. A window that ends now is then no larger than what
  `is_allowed` counts, and a window that ended earlier no longer changes.
  `HandlerInv` relates the position of a key handler to its entries. The refinement goes
  request by request: a step of one shows in its view alone (`OneView`), a fault ends
  views, and only `InsertKey` and `RevokeCommit` change a key.
- *catalog*: `Knows`: what a handler holds between two statements. The audits a
  deletion loaded belong to its agent or to none; what a listing has still to read and
  exists was there after its entry; of the audits a count did not miss there are no
  more than it counted. Each action is a step of one request (`OwnStep`) or of the
  tables under all requests (`KnowsOn`, `Coming`).
- *scheduler*: a caller that waits in `stop()` finds the scheduler stopped, unless a
  `start()` came in between (`WaitingIsStopped`); with it the loop that lives is the one
  `_task` refers to.
- *Celery runner*: `JobKnows`: from the first retry on the audit has failed or is gone,
  and the except block's reading of an absent audit stays right. A step of the job maps
  to the settling of the audit or to a stutter.
- *schema*: `WorkerKnows`: a table that a worker neither found missing nor has still to
  look at exists; `Overtaken`: on PostgreSQL a worker fails only if another has started;
  `MigrationFollowsStamp` and `StatementsLast` follow alembic from statement to statement
  and from stamp to stamp; `VaultIsComplete`: nothing makes a `secret_vault` without the
  column that the third revision adds, so that its copy is never made.

- *monitoring*: `MonitoringInv`: the rows stand in the order they were created
  (`CreatedInOrder`), and until a row completes, goes or leaves the window the alert names
  the last two completed audits (`AlertIsKnown`). Alert and trend read the two greatest
  indices of a finite set; that a bounded set of numbers has a greatest element is
  derived from the pigeonhole principle of the library, without induction (`Gap`,
  `Greatest`).
- *data set*: `DatasetInv`: each mark is the one before plus what its entry yields. The
  table has thirteen entries, whose sums are written out. That the first ten marks, which
  hold every category, fit into the count (`TenEntriesFit`) is one inequality over the
  integers from 50 on; the 27 counts from 23 to 49 are decided one by one.

Model-checked only: the properties that need fairness (`EveryTaskSettles`,
`EveryTaskFinishes`, `ImplementsFairLifecycle`, `EveryDeliverySettles`,
`StoppedComesToRest`, `RunningKeepsBeating`, `EveryJobEnds`), which are beyond the
prover; of two of them the part without fairness is proved, a bound on the steps of a
coroutine (`CoroutinesGoForward`) and of a job (`JobsGoForward`). And the violations:
for `late_cancel` and `vault_race` a theorem says under which hypotheses the property
does hold, for `schema_upgrade` that there is no way around it. Every other property of the runs is a theorem.

## 5. Not modelled

The components marked `not_modelled` in `PROJECT.json`, each with its reason:
scoring and language models (floating point, external), stateless endpoints,
formatting. Two parts cannot be executed, so that there is no behaviour to model:
`engines/agent_auditor.py` imports a class that `engines/tool_auditor.py` does not
define, and the package `backend/dependencies/` (language-model router, evaluator,
matcher) is shadowed by the module `backend/dependencies.py`.

Of the modelled components: texts, scores and findings of an audit, payloads,
signatures, the wording of answers; a wall clock that is set back; error paths inside
SQLAlchemy other than an error of a statement; indexes and column types of the schema,
databases of earlier releases and alembic's offline mode; on SQLite a hand-written backup
without `created_at`, which a restore would accept (`RestoreCommit` refuses every agent
that is missing); the listings of the log and of the keys. The bound of
`WindowBound` is per limiter: a key may be admitted twice its `rate_limit` in each
worker (`WorkersLimitTwice` says no more than that), and again after a restart. On
SQLite a start-up may leave tables missing after a race or a crash (each worker then
fails, and the next start creates the rest): `StartedWorkerServes` says that none of
them serves, and `TransactionalStartupLeavesNoGap` is claimed for PostgreSQL only.

## 6. Plan

What remains, in this order:

1. The composition of `AuditTasks` with `WebhookQueue` over the events one enqueues for
   the other, when `webhook_url` is stored.
2. The listings of keys and of the log, by the pattern of `ListAgentsAdmin`, over the
   rows of `ApiAccess`.
3. What several pollers keep of the delivery contract after an administrator's retry: a
   weaker `WebhookContract` that any number of them implements.
