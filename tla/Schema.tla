------------------------------- MODULE Schema -------------------------------
(***************************************************************************)
(* The tables of the database, made by two programs that do not know of    *)
(* each other: every uvicorn worker runs create_all when it starts, and    *)
(* the operator runs alembic upgrade head and alembic downgrade -1.        *)
(*                                                                         *)
(* create_all looks for every table first and then creates those it missed *)
(* in an order that it computes from the missing ones alone.  On SQLite    *)
(* each CREATE and DROP is committed at once; on PostgreSQL create_all and *)
(* an upgrade are one transaction each.  A column of a model is of         *)
(* interest only where the migrations and the models disagree.             *)
(***************************************************************************)
EXTENDS Naturals, FiniteSets

CONSTANTS
    Tables,        \* the tables of the models under consideration
    Workers,       \* server processes
    MaxCrashes,    \* bound on the deaths of workers and migrations
    MaxRestarts    \* bound on the restarts of the server

VARIABLES
    dialect,       \* "sqlite" or "postgresql"
    tables,        \* the tables that exist
    lacks,         \* the columns of its model that a table lacks
    stamp,         \* the number of revisions in alembic_version
    copies,        \* tables with a left-over _alembic_tmp copy
    worker,        \* where each worker is in its start-up
    migration,     \* the alembic process
    crashes, restarts,
    undone,        \* history: was the initial schema ever dropped, in part or whole?
    upgraded       \* history: how the last upgrade ended, "never" if none has

schemaVars ==
    <<dialect, tables, lacks, stamp, copies, worker, migration, crashes, restarts, undone, upgraded>>

-----------------------------------------------------------------------------
(* The models. *)

\* The order of the classes in database.py.
Rank ==
    [api_keys |-> 1, agents |-> 2, audits |-> 3, findings |-> 4, task_queue |-> 5,
     test_results |-> 6, admin_audit_logs |-> 7, secret_vault |-> 8,
     webhook_deliveries |-> 9, scheduler_runs |-> 10, backups |-> 11]

AllTables == DOMAIN Rank
ASSUME SchemaAssumption ==
    /\ Tables \subseteq AllTables
    /\ {"audits", "secret_vault"} \subseteq Tables    \* what the revisions alter
    /\ MaxCrashes \in Nat /\ MaxRestarts \in Nat

\* The table that the foreign key of a table refers to; a root refers to itself.
Parent(t) ==
    CASE t = "audits" -> "agents"
      [] t \in {"findings", "task_queue", "test_results"} -> "audits"
      [] OTHER -> t

\* The sort is by depth within the set to be created, then by rank.
Root(t, planned) == Parent(t) = t \/ Parent(t) \notin planned
Depth(t, planned) ==
    IF Root(t, planned) THEN 0 ELSE IF Root(Parent(t), planned) THEN 1 ELSE 2

Before(s, t, planned) ==
    \/ Depth(s, planned) < Depth(t, planned)
    \/ Depth(s, planned) = Depth(t, planned) /\ Rank[s] < Rank[t]

NextToCreate(t, todo, planned) == t \in todo /\ \A s \in todo \ {t} : Before(t, s, planned)

-----------------------------------------------------------------------------
(* The revisions. *)

HeadRevision == 3
InitialTables ==
    Tables \cap {"agents", "audits", "findings", "test_results", "task_queue", "api_keys"}

InitialRank ==
    [agents |-> 1, audits |-> 2, findings |-> 3, test_results |-> 4, task_queue |-> 5,
     api_keys |-> 6]

\* What the models have and the first revision does not create.
InitialGap(t) ==
    CASE t = "agents" -> {"tenant_id"}
      [] t = "audits" -> {"agent_name", "framework", "webhook_url"}
      [] t = "task_queue" -> {"cancellation_token"}
      [] t = "api_keys" -> {"hashed_key"}
      [] OTHER -> {}

\* The second and the third revision each alter one table.
Altered(rev) == IF rev = 2 THEN "audits" ELSE "secret_vault"
Columns(rev) == IF rev = 2 THEN {"agent_name", "framework"} ELSE {"encrypted_value"}

AllColumns == {"tenant_id", "agent_name", "framework", "webhook_url", "cancellation_token",
               "hashed_key", "encrypted_value"}

WorkerState == [pc: {"down", "checking", "creating", "started", "failed"},
                todo: SUBSET Tables,      \* tables to be checked, or to be created
                planned: SUBSET Tables]   \* tables found missing
Down == [pc |-> "down", todo |-> {}, planned |-> {}]

Migration == [pc: {"none", "up", "down"},
              rev: 1..HeadRevision,       \* the revision that is applied or undone
              todo: SUBSET (InitialTables \cup AllColumns),
              copied: BOOLEAN]            \* has the copy of the table been made?
NoMigration == [pc |-> "none", rev |-> 1, todo |-> {}, copied |-> FALSE]

SchemaTypeOK ==
    /\ dialect \in {"sqlite", "postgresql"}
    /\ tables \subseteq Tables
    /\ lacks \in [Tables -> SUBSET AllColumns]
    /\ stamp \in 0..HeadRevision
    /\ copies \subseteq Tables
    /\ worker \in [Workers -> WorkerState]
    /\ migration \in Migration
    /\ crashes \in 0..MaxCrashes /\ restarts \in 0..MaxRestarts
    /\ undone \in BOOLEAN
    /\ upgraded \in {"never", "failed", "head"}

SchemaInit ==
    /\ dialect \in {"sqlite", "postgresql"}
    /\ tables = {} /\ copies = {}
    /\ lacks = [t \in Tables |-> {}]
    /\ stamp = 0
    /\ worker = [w \in Workers |-> Down]
    /\ migration = NoMigration
    /\ crashes = 0 /\ restarts = 0
    /\ undone = FALSE
    /\ upgraded = "never"

-----------------------------------------------------------------------------
(* The start-up of a worker: init_db. *)

WorkerGoes(w, pc) == worker' = [worker EXCEPT ![w] = [Down EXCEPT !.pc = pc]]

\* uvicorn starts all its workers at once.
StartServer ==
    /\ \A w \in Workers : worker[w].pc = "down"
    /\ worker' = [w \in Workers |-> [Down EXCEPT !.pc = "checking", !.todo = Tables]]
    /\ UNCHANGED <<dialect, tables, lacks, stamp, copies, migration, crashes, restarts, undone, upgraded>>

CheckTable(w, t) ==
    /\ worker[w].pc = "checking"
    /\ t \in worker[w].todo
    /\ \A s \in worker[w].todo : Rank[t] <= Rank[s]
    /\ worker' = [worker EXCEPT ![w].todo = @ \ {t},
                                ![w].planned = IF t \in tables THEN @ ELSE @ \cup {t}]
    /\ UNCHANGED <<dialect, tables, lacks, stamp, copies, migration, crashes, restarts, undone, upgraded>>

PlanTables(w) ==
    /\ worker[w].pc = "checking" /\ worker[w].todo = {}
    /\ worker' = [worker EXCEPT ![w].pc = "creating", ![w].todo = worker[w].planned]
    /\ UNCHANGED <<dialect, tables, lacks, stamp, copies, migration, crashes, restarts, undone, upgraded>>

Made(new) == [t \in Tables |-> IF t \in new THEN {} ELSE lacks[t]]

\* Mutant: PostgreSQL, too, commits each table at once.
CreateTableAtOnce(w, t) ==
    /\ worker[w].pc = "creating"
    /\ NextToCreate(t, worker[w].todo, worker[w].planned)
    /\ IF t \in tables
       THEN /\ WorkerGoes(w, "failed")
            /\ UNCHANGED <<tables, lacks>>
       ELSE /\ tables' = tables \cup {t}
            /\ lacks' = Made({t})
            /\ worker' = [worker EXCEPT ![w].todo = @ \ {t}]
    /\ UNCHANGED <<dialect, stamp, copies, migration, crashes, restarts, undone, upgraded>>

\* Mutant: an error of create_all is swallowed.
CreateTableOrServe(w, t) ==
    /\ dialect = "sqlite"
    /\ worker[w].pc = "creating"
    /\ NextToCreate(t, worker[w].todo, worker[w].planned)
    /\ IF t \in tables
       THEN /\ WorkerGoes(w, "started")
            /\ UNCHANGED <<tables, lacks>>
       ELSE /\ tables' = tables \cup {t}
            /\ lacks' = Made({t})
            /\ worker' = [worker EXCEPT ![w].todo = @ \ {t}]
    /\ UNCHANGED <<dialect, stamp, copies, migration, crashes, restarts, undone, upgraded>>

\* SQLite: a table that another process created meanwhile fails the start-up, and
\* uvicorn does not start another worker in its place.
CreateTable(w, t) ==
    /\ dialect = "sqlite"
    /\ worker[w].pc = "creating"
    /\ NextToCreate(t, worker[w].todo, worker[w].planned)
    /\ IF t \in tables
       THEN /\ WorkerGoes(w, "failed")
            /\ UNCHANGED <<tables, lacks>>
       ELSE /\ tables' = tables \cup {t}
            /\ lacks' = Made({t})
            /\ worker' = [worker EXCEPT ![w].todo = @ \ {t}]
    /\ UNCHANGED <<dialect, stamp, copies, migration, crashes, restarts, undone, upgraded>>

Started(w) ==
    /\ dialect = "sqlite"
    /\ worker[w].pc = "creating" /\ worker[w].todo = {}
    /\ WorkerGoes(w, "started")
    /\ UNCHANGED <<dialect, tables, lacks, stamp, copies, migration, crashes, restarts, undone, upgraded>>

\* PostgreSQL: all or nothing; a table that was committed meanwhile fails it.
CreateAll(w) ==
    /\ dialect = "postgresql"
    /\ worker[w].pc = "creating"
    /\ IF worker[w].planned \cap tables # {}
       THEN /\ WorkerGoes(w, "failed")
            /\ UNCHANGED <<tables, lacks>>
       ELSE /\ WorkerGoes(w, "started")
            /\ tables' = tables \cup worker[w].planned
            /\ lacks' = Made(worker[w].planned)
    /\ UNCHANGED <<dialect, stamp, copies, migration, crashes, restarts, undone, upgraded>>

CrashWorker(w) ==
    /\ worker[w].pc \in {"checking", "creating"}
    /\ crashes < MaxCrashes
    /\ crashes' = crashes + 1
    /\ WorkerGoes(w, "failed")
    /\ UNCHANGED <<dialect, tables, lacks, stamp, copies, migration, restarts, undone, upgraded>>

StopServer ==
    /\ restarts < MaxRestarts
    /\ \A w \in Workers : worker[w].pc \in {"started", "failed"}
    /\ restarts' = restarts + 1
    /\ worker' = [w \in Workers |-> Down]
    /\ UNCHANGED <<dialect, tables, lacks, stamp, copies, migration, crashes, undone, upgraded>>

-----------------------------------------------------------------------------
(* alembic on SQLite, which commits each CREATE, DROP and ALTER TABLE at once. *)

\* What an upgrade has to create or to add, statement by statement; a downgrade of the
\* first revision drops what its upgrade creates.
Applying(rev) ==
    [pc |-> "up", rev |-> rev, copied |-> FALSE,
     todo |-> CASE rev = 1 -> InitialTables [] rev = 2 -> Columns(2) [] rev = 3 -> {}]
Undoing(rev) ==
    [pc |-> "down", rev |-> rev, copied |-> FALSE, todo |-> IF rev = 1 THEN InitialTables ELSE {}]

\* A statement fails, and with it the command.
Abort ==
    /\ migration' = NoMigration
    /\ upgraded' = IF migration.pc = "up" THEN "failed" ELSE upgraded

Upgrade ==
    /\ dialect = "sqlite"
    /\ migration.pc = "none" /\ stamp < HeadRevision
    /\ migration' = Applying(stamp + 1)
    /\ UNCHANGED <<dialect, tables, lacks, stamp, copies, worker, crashes, restarts, undone, upgraded>>

Downgrade ==
    /\ dialect = "sqlite"
    /\ migration.pc = "none" /\ stamp > 0
    /\ migration' = Undoing(stamp)
    /\ undone' = (undone \/ stamp = 1)
    /\ UNCHANGED <<dialect, tables, lacks, stamp, copies, worker, crashes, restarts, upgraded>>

\* The first revision creates its tables in one order and drops them in the other;
\* it fails on a table that is there already, or that is not.
FirstToMigrate(t) ==
    /\ migration.rev = 1
    /\ t \in migration.todo
    /\ \A s \in migration.todo :
          IF migration.pc = "up" THEN InitialRank[t] <= InitialRank[s]
                                 ELSE InitialRank[t] >= InitialRank[s]

MigrateTable(t) ==
    /\ FirstToMigrate(t)
    /\ IF (migration.pc = "up") = (t \in tables)
       THEN Abort /\ UNCHANGED <<tables, lacks>>
       ELSE /\ migration' = [migration EXCEPT !.todo = @ \ {t}]
            /\ IF migration.pc = "up"
               THEN /\ tables' = tables \cup {t}
                    /\ lacks' = [lacks EXCEPT ![t] = InitialGap(t)]
               ELSE tables' = tables \ {t} /\ lacks' = [lacks EXCEPT ![t] = {}]
            /\ UNCHANGED upgraded
    /\ UNCHANGED <<dialect, stamp, copies, worker, crashes, restarts, undone>>

\* The second revision adds columns and nothing else, for which no copy is made: an
\* ALTER TABLE per column, which fails without the table, or on a column it has.
AddColumn(c) ==
    /\ migration.rev = 2 /\ c \in migration.todo
    /\ c = "framework" => "agent_name" \notin migration.todo
    /\ IF "audits" \in tables /\ c \in lacks["audits"]
       THEN /\ lacks' = [lacks EXCEPT !["audits"] = @ \ {c}]
            /\ migration' = [migration EXCEPT !.todo = @ \ {c}]
            /\ UNCHANGED upgraded
       ELSE Abort /\ UNCHANGED lacks
    /\ UNCHANGED <<dialect, tables, stamp, copies, worker, crashes, restarts, undone>>

\* The third revision alters a column, too, and a downgrade drops one: these work on a
\* copy of the table.
NeedsCopy ==
    \/ migration.pc = "up" /\ migration.rev = 3
    \/ migration.pc = "down" /\ migration.rev > 1

\* What the table lacks when its copy has taken its place.
Replaced(t) ==
    IF migration.pc = "up" THEN lacks[t] \ Columns(migration.rev)
                           ELSE lacks[t] \cup Columns(migration.rev)

\* Mutant: the copy takes the place of the table at once, before the stamp.
CopyTableAtOnce ==
    LET t == Altered(migration.rev)
    IN  /\ NeedsCopy /\ ~migration.copied
        /\ IF t \in tables
           THEN /\ lacks' = [lacks EXCEPT ![t] = Replaced(t)]
                /\ migration' = [migration EXCEPT !.copied = TRUE]
                /\ UNCHANGED upgraded
           ELSE Abort /\ UNCHANGED lacks
        /\ UNCHANGED <<dialect, tables, copies, stamp, worker, crashes, restarts, undone>>

\* The copy is not made if there is no table, if the columns to be added are there or
\* those to be dropped are not, or if an attempt that was killed left its copy.
CopyTable ==
    LET t == Altered(migration.rev)
        found == Columns(migration.rev) \ lacks[t]
    IN  /\ NeedsCopy /\ ~migration.copied
        /\ IF /\ t \in tables /\ t \notin copies
              /\ found = IF migration.pc = "up" THEN {} ELSE Columns(migration.rev)
           THEN /\ copies' = copies \cup {t}
                /\ migration' = [migration EXCEPT !.copied = TRUE]
                /\ UNCHANGED upgraded
           ELSE Abort /\ UNCHANGED copies
        /\ UNCHANGED <<dialect, tables, lacks, stamp, worker, crashes, restarts, undone>>

\* The stamp is a transaction, which the rows of the copy have begun: the copy takes
\* the place of the table together with the stamp.
Stamp ==
    LET t == Altered(migration.rev)
        rev == IF migration.pc = "up" THEN migration.rev ELSE migration.rev - 1
        more == migration.pc = "up" /\ rev < HeadRevision
    IN  /\ migration.pc # "none" /\ migration.todo = {}
        /\ NeedsCopy => migration.copied
        /\ lacks' = IF NeedsCopy THEN [lacks EXCEPT ![t] = Replaced(t)] ELSE lacks
        /\ copies' = IF NeedsCopy THEN copies \ {t} ELSE copies
        /\ stamp' = rev
        /\ migration' = IF more THEN Applying(rev + 1) ELSE NoMigration
        /\ upgraded' = IF migration.pc = "up" /\ ~more THEN "head" ELSE upgraded
        /\ UNCHANGED <<dialect, tables, worker, crashes, restarts, undone>>

CrashMigration ==
    /\ migration.pc # "none"
    /\ crashes < MaxCrashes
    /\ crashes' = crashes + 1
    /\ migration' = NoMigration
    /\ UNCHANGED <<dialect, tables, lacks, stamp, copies, worker, restarts, undone, upgraded>>

\* On PostgreSQL the three revisions are one transaction, and the last of them
\* adds a column to a table that must be there and must not have it.
UpgradeTransaction ==
    LET vault == "secret_vault"
        ok == /\ stamp = 0 /\ InitialTables \cap tables = {}
              /\ vault \in tables /\ "encrypted_value" \in lacks[vault]
    IN  /\ dialect = "postgresql"
        /\ stamp < HeadRevision
        /\ stamp' = IF ok THEN HeadRevision ELSE stamp
        /\ tables' = IF ok THEN tables \cup InitialTables ELSE tables
        /\ lacks' = IF ok THEN [t \in Tables |->
                                  IF t \in InitialTables THEN InitialGap(t) \ Columns(2)
                                  ELSE lacks[t] \ (IF t = vault THEN Columns(3) ELSE {})]
                    ELSE lacks
        /\ upgraded' = IF ok THEN "head" ELSE "failed"
        /\ UNCHANGED <<dialect, copies, worker, migration, crashes, restarts, undone>>

-----------------------------------------------------------------------------
SchemaNext ==
    \/ StartServer
    \/ \E w \in Workers, t \in Tables : CheckTable(w, t)
    \/ \E w \in Workers : PlanTables(w)
    \/ \E w \in Workers, t \in Tables : CreateTable(w, t)
    \/ \E w \in Workers : Started(w)
    \/ \E w \in Workers : CreateAll(w)
    \/ \E w \in Workers : CrashWorker(w)
    \/ StopServer
    \/ Upgrade
    \/ Downgrade
    \/ \E t \in InitialTables : MigrateTable(t)
    \/ \E c \in Columns(2) : AddColumn(c)
    \/ CopyTable
    \/ Stamp
    \/ CrashMigration
    \/ UpgradeTransaction

SchemaSpec == SchemaInit /\ [][SchemaNext]_schemaVars

-----------------------------------------------------------------------------
\* A worker that serves requests finds every table, whichever workers and
\* migrations created them while it started (main.py:207-209, database.py:204-205);
\* only the downgrade of the initial schema takes a table away.
StartedWorkerServes ==
    \A w \in Workers : worker[w].pc = "started" => tables = Tables \/ undone

\* On PostgreSQL the workers that race to create the tables leave no gap: when all
\* of them have started or failed, the schema is complete and a worker is serving.
TransactionalStartupLeavesNoGap ==
    dialect = "postgresql" /\ crashes = 0
      /\ (\A w \in Workers : worker[w].pc \in {"started", "failed"})
        => tables = Tables /\ \E w \in Workers : worker[w].pc = "started"

\* What alembic has stamped is there, whatever was interrupted and whoever made
\* tables in between: the tables of the first revision, unless they were dropped, and
\* the columns of the others (a1b2c3d4e5f6:20-43, c7d8e9f0a1b2:20-43, env.py:75-81).
StampedIsThere ==
    /\ stamp > 0 /\ ~undone => InitialTables \subseteq tables
    /\ \A rev \in 2..stamp :
          Altered(rev) \in tables /\ Columns(rev) \cap lacks[Altered(rev)] = {}

\* alembic upgrade head initialises a database that no server has opened and no
\* crash has left half done (README.md:40-44, CONFIGURATION.md:136-142).
UpgradeInitialises ==
    upgraded = "failed" =>
        \/ crashes > 0 \/ restarts > 0 \/ undone
        \/ \E w \in Workers : worker[w].pc # "down"
=============================================================================
