---------------------------- MODULE SchemaProofs ----------------------------
(***************************************************************************)
(* Proofs about the making of the schema, for any set of its tables, any   *)
(* number of workers, crashes and restarts.                                *)
(***************************************************************************)
EXTENDS Schema, TLAPS

USE SchemaAssumption

\* What a worker knows while it starts: a table that it neither found missing nor has
\* still to look at exists, and what it found missing it has created or will create.
WorkerKnows ==
    ~undone =>
        \A w \in Workers :
            /\ worker[w].pc = "checking" =>
                 Tables \subseteq tables \cup worker[w].todo \cup worker[w].planned
            /\ worker[w].pc = "creating" =>
                 /\ Tables \subseteq tables \cup worker[w].todo
                 /\ Tables \subseteq tables \cup worker[w].planned

\* The migration applies the revision after the stamp, or undoes the stamped one; to
\* undo the first is to undo the schema, and PostgreSQL never comes that far.
MigrationFollowsStamp ==
    /\ migration.pc = "up" => migration.rev = stamp + 1
    /\ migration.pc = "down" => migration.rev = stamp
    /\ migration.pc = "down" /\ migration.rev = 1 => undone
    /\ migration.pc = "down" /\ migration.rev > 1 => migration.todo = {}
    /\ migration.pc = "none" => migration.todo = {}
    /\ dialect = "postgresql" =>
         /\ migration.pc = "none" /\ stamp = 0 /\ ~undone
         /\ \A t \in Tables : lacks[t] = {}

\* What the statements of an upgrade have done stays done until its stamp.
StatementsLast ==
    /\ migration.pc = "up" /\ migration.rev = 1 /\ ~undone
         => InitialTables \subseteq tables \cup migration.todo
    /\ migration.pc = "up" /\ migration.rev = 2
         => \A c \in Columns(2) \ migration.todo : "audits" \in tables /\ c \notin lacks["audits"]

\* Only the models make secret_vault, with the column that the third revision wants to
\* add to it: its copy is never made, and no upgrade ever ends well.
NoUpgradeSucceeds == stamp < HeadRevision /\ upgraded # "head"
VaultIsComplete ==
    /\ "encrypted_value" \notin lacks["secret_vault"]
    /\ migration.pc = "up" /\ migration.rev = 3 => ~migration.copied

\* On PostgreSQL a worker that found a table missing which is there now, or that has
\* failed, was overtaken by one that started.
Overtaken ==
    dialect = "postgresql" /\ crashes = 0 =>
        \A w \in Workers :
            worker[w].pc = "failed" \/ worker[w].planned \cap tables # {}
              => \E v \in Workers : worker[v].pc = "started"

\* The inductive invariant: about the workers, and about the migrations.
WorkerInv == WorkerKnows /\ StartedWorkerServes /\ Overtaken
MigrationInv ==
    MigrationFollowsStamp /\ StatementsLast /\ NoUpgradeSucceeds /\ VaultIsComplete /\ StampedIsThere
IInv == SchemaTypeOK /\ WorkerInv /\ MigrationInv

-----------------------------------------------------------------------------
LEMMA InitInv == SchemaInit => IInv
<1>. SUFFICES ASSUME SchemaInit PROVE IInv
  OBVIOUS
<1>1. Down \in WorkerState /\ NoMigration \in Migration
  BY DEF Down, WorkerState, NoMigration, Migration, HeadRevision
<1>2. lacks \in [Tables -> SUBSET AllColumns] /\ worker \in [Workers -> WorkerState]
  BY <1>1 DEF SchemaInit
<1>3. stamp \in 0..HeadRevision /\ crashes \in 0..MaxCrashes /\ restarts \in 0..MaxRestarts
  BY DEF SchemaInit, HeadRevision
<1>4. SchemaTypeOK
  BY <1>1, <1>2, <1>3 DEF SchemaInit, SchemaTypeOK
<1>5. WorkerInv
  BY DEF SchemaInit, WorkerInv, WorkerKnows, StartedWorkerServes, Overtaken, Down
<1>6. MigrationInv
  BY DEF SchemaInit, MigrationInv, MigrationFollowsStamp, StatementsLast, NoUpgradeSucceeds,
         VaultIsComplete, StampedIsThere, NoMigration, HeadRevision
<1>. QED
  BY <1>4, <1>5, <1>6 DEF IInv

\* What the migrations and the start-ups leave to each other.
LEMMA MigrationKeeps ==
    ASSUME MigrationInv, UNCHANGED <<dialect, tables, lacks, stamp, migration, undone, upgraded>>
    PROVE  MigrationInv'
BY DEF MigrationInv, MigrationFollowsStamp, StatementsLast, NoUpgradeSucceeds, VaultIsComplete,
       StampedIsThere

LEMMA WorkerKeeps ==
    ASSUME WorkerInv, UNCHANGED <<dialect, worker, tables>>, undone => undone',
           crashes' = 0 => crashes = 0
    PROVE  WorkerInv'
BY DEF WorkerInv, WorkerKnows, StartedWorkerServes, Overtaken

\* A worker takes a step and creates nothing.
LEMMA StartServerInv == ASSUME IInv, StartServer PROVE IInv'
<1>1. [Down EXCEPT !.pc = "checking", !.todo = Tables] \in WorkerState
  BY DEF Down, WorkerState
<1>2. SchemaTypeOK'
  BY <1>1 DEF IInv, SchemaTypeOK, StartServer
<1>3. WorkerInv'
  BY DEF StartServer, WorkerInv, WorkerKnows, StartedWorkerServes, Overtaken, Down
<1>4. MigrationInv'
  BY MigrationKeeps DEF IInv, StartServer
<1>. QED
  BY <1>2, <1>3, <1>4 DEF IInv

LEMMA CheckTableInv ==
    ASSUME IInv, NEW w \in Workers, NEW t \in Tables, CheckTable(w, t) PROVE IInv'
<1>. DEFINE new == [worker[w] EXCEPT !.todo = @ \ {t},
                                     !.planned = IF t \in tables THEN @ ELSE @ \cup {t}]
<1>1. worker[w] \in WorkerState /\ worker \in [Workers -> WorkerState]
  BY DEF IInv, SchemaTypeOK
<1>2. /\ new \in WorkerState /\ new.pc = "checking" /\ new.todo = worker[w].todo \ {t}
      /\ new.planned = IF t \in tables THEN worker[w].planned ELSE worker[w].planned \cup {t}
  BY <1>1 DEF WorkerState, CheckTable
<1>3. worker' = [worker EXCEPT ![w] = new]
  BY <1>1 DEF CheckTable
<1>. HIDE DEF new
<1>4. SchemaTypeOK'
  BY <1>1, <1>2, <1>3 DEF IInv, SchemaTypeOK, CheckTable
<1>5. WorkerKnows' /\ StartedWorkerServes'
  BY <1>1, <1>2, <1>3 DEF IInv, WorkerInv, WorkerKnows, StartedWorkerServes, CheckTable
<1>6. Overtaken'
  BY <1>1, <1>2, <1>3 DEF IInv, WorkerInv, Overtaken, CheckTable
<1>7. MigrationInv'
  BY MigrationKeeps DEF IInv, CheckTable
<1>. QED
  BY <1>4, <1>5, <1>6, <1>7 DEF IInv, WorkerInv

LEMMA PlanTablesInv == ASSUME IInv, NEW w \in Workers, PlanTables(w) PROVE IInv'
<1>. DEFINE new == [worker[w] EXCEPT !.pc = "creating", !.todo = worker[w].planned]
<1>1. worker[w] \in WorkerState /\ worker \in [Workers -> WorkerState]
  BY DEF IInv, SchemaTypeOK
<1>2. /\ new \in WorkerState /\ new.pc = "creating" /\ new.todo = worker[w].planned
      /\ new.planned = worker[w].planned
  BY <1>1 DEF WorkerState
<1>3. worker' = [worker EXCEPT ![w] = new]
  BY <1>1 DEF PlanTables
<1>. HIDE DEF new
<1>4. SchemaTypeOK'
  BY <1>1, <1>2, <1>3 DEF IInv, SchemaTypeOK, PlanTables
<1>5. WorkerKnows' /\ StartedWorkerServes'
  BY <1>1, <1>2, <1>3 DEF IInv, WorkerInv, WorkerKnows, StartedWorkerServes, PlanTables
<1>6. Overtaken'
  BY <1>1, <1>2, <1>3 DEF IInv, WorkerInv, Overtaken, PlanTables
<1>7. MigrationInv'
  BY MigrationKeeps DEF IInv, PlanTables
<1>. QED
  BY <1>4, <1>5, <1>6, <1>7 DEF IInv, WorkerInv

LEMMA StopServerInv == ASSUME IInv, StopServer PROVE IInv'
<1>1. Down \in WorkerState
  BY DEF Down, WorkerState
<1>2. SchemaTypeOK'
  BY <1>1 DEF IInv, SchemaTypeOK, StopServer
<1>3. WorkerInv'
  BY DEF StopServer, WorkerInv, WorkerKnows, StartedWorkerServes, Overtaken, Down
<1>4. MigrationInv'
  BY MigrationKeeps DEF IInv, StopServer
<1>. QED
  BY <1>2, <1>3, <1>4 DEF IInv

-----------------------------------------------------------------------------
\* The worker that ends its start-up forgets what it planned.
LEMMA GoesType ==
    ASSUME SchemaTypeOK, NEW w \in Workers, NEW pc \in {"started", "failed"}, WorkerGoes(w, pc)
    PROVE  /\ worker' \in [Workers -> WorkerState]
           /\ worker'[w].pc = pc /\ worker'[w].planned = {}
           /\ \A v \in Workers \ {w} : worker'[v] = worker[v]
<1>. DEFINE new == [Down EXCEPT !.pc = pc]
<1>1. new \in WorkerState /\ new.pc = pc /\ new.planned = {}
  BY DEF Down, WorkerState
<1>2. worker' = [worker EXCEPT ![w] = new]
  BY DEF WorkerGoes
<1>. HIDE DEF new
<1>. QED
  BY <1>1, <1>2 DEF SchemaTypeOK

LEMMA StartedInv == ASSUME IInv, NEW w \in Workers, Started(w) PROVE IInv'
<1>1. /\ worker' \in [Workers -> WorkerState]
      /\ worker'[w].pc = "started" /\ worker'[w].planned = {}
      /\ \A v \in Workers \ {w} : worker'[v] = worker[v]
  BY GoesType DEF IInv, Started
<1>2. SchemaTypeOK'
  BY <1>1 DEF IInv, SchemaTypeOK, Started
<1>3. undone \/ tables = Tables
  BY DEF IInv, SchemaTypeOK, WorkerInv, WorkerKnows, Started
<1>4. WorkerInv'
  BY <1>1, <1>3 DEF IInv, WorkerInv, WorkerKnows, StartedWorkerServes, Overtaken, Started
<1>5. MigrationInv'
  BY MigrationKeeps DEF IInv, Started
<1>. QED
  BY <1>2, <1>4, <1>5 DEF IInv

LEMMA CrashWorkerInv == ASSUME IInv, NEW w \in Workers, CrashWorker(w) PROVE IInv'
<1>1. /\ worker' \in [Workers -> WorkerState]
      /\ worker'[w].pc = "failed" /\ worker'[w].planned = {}
      /\ \A v \in Workers \ {w} : worker'[v] = worker[v]
  BY GoesType DEF IInv, CrashWorker
<1>2. crashes' # 0 /\ crashes' \in 0..MaxCrashes
  BY DEF IInv, SchemaTypeOK, CrashWorker
<1>3. SchemaTypeOK'
  BY <1>1, <1>2 DEF IInv, SchemaTypeOK, CrashWorker
<1>4. WorkerInv'
  BY <1>1, <1>2 DEF IInv, WorkerInv, WorkerKnows, StartedWorkerServes, Overtaken, CrashWorker
<1>5. MigrationInv'
  BY MigrationKeeps DEF IInv, CrashWorker
<1>. QED
  BY <1>3, <1>4, <1>5 DEF IInv

\* Tables that did not exist are created as the models say.
LEMMA MadeKeeps ==
    ASSUME IInv, NEW new \in SUBSET Tables, tables \cap new = {},
           tables' = tables \cup new, lacks' = Made(new),
           UNCHANGED <<dialect, stamp, migration, undone, upgraded>>
    PROVE  MigrationInv' /\ tables' \subseteq Tables /\ lacks' \in [Tables -> SUBSET AllColumns]
<1>1. \A t \in Tables : lacks'[t] = IF t \in new THEN {} ELSE lacks[t]
  BY DEF Made
<1>2. tables' \subseteq Tables /\ lacks' \in [Tables -> SUBSET AllColumns]
  BY DEF Made, IInv, SchemaTypeOK
<1>3. MigrationFollowsStamp'
  BY <1>1 DEF IInv, MigrationInv, MigrationFollowsStamp
<1>4. StatementsLast' /\ NoUpgradeSucceeds' /\ VaultIsComplete'
  BY <1>1 DEF IInv, MigrationInv, StatementsLast, NoUpgradeSucceeds, VaultIsComplete
<1>5. StampedIsThere'
  BY <1>1 DEF IInv, MigrationInv, StampedIsThere, Altered
<1>. QED
  BY <1>2, <1>3, <1>4, <1>5 DEF MigrationInv

LEMMA CreateTableInv ==
    ASSUME IInv, NEW w \in Workers, NEW t \in Tables, CreateTable(w, t) PROVE IInv'
<1>1. CASE t \in tables
  <2>1. /\ worker' \in [Workers -> WorkerState]
        /\ worker'[w].pc = "failed" /\ worker'[w].planned = {}
        /\ \A v \in Workers \ {w} : worker'[v] = worker[v]
    BY <1>1, GoesType DEF IInv, CreateTable
  <2>2. SchemaTypeOK'
    BY <1>1, <2>1 DEF IInv, SchemaTypeOK, CreateTable
  <2>3. WorkerInv'
    BY <1>1, <2>1 DEF IInv, WorkerInv, WorkerKnows, StartedWorkerServes, Overtaken, CreateTable
  <2>4. MigrationInv'
    BY <1>1, MigrationKeeps DEF IInv, CreateTable
  <2>. QED
    BY <2>2, <2>3, <2>4 DEF IInv
<1>2. CASE t \notin tables
  <2>. DEFINE new == [worker[w] EXCEPT !.todo = @ \ {t}]
  <2>1. worker[w] \in WorkerState /\ worker \in [Workers -> WorkerState]
    BY DEF IInv, SchemaTypeOK
  <2>2. /\ new \in WorkerState /\ new.pc = "creating" /\ new.todo = worker[w].todo \ {t}
        /\ new.planned = worker[w].planned
    BY <2>1 DEF WorkerState, CreateTable
  <2>3. worker' = [worker EXCEPT ![w] = new] /\ tables' = tables \cup {t} /\ lacks' = Made({t})
    BY <1>2, <2>1 DEF CreateTable
  <2>. HIDE DEF new
  <2>4. /\ MigrationInv' /\ tables' \subseteq Tables
        /\ lacks' \in [Tables -> SUBSET AllColumns]
    <3>1. {t} \in SUBSET Tables /\ tables \cap {t} = {}
      BY <1>2
    <3>. QED
      BY <2>3, <3>1, MadeKeeps DEF CreateTable
  <2>5. SchemaTypeOK'
    BY <2>1, <2>2, <2>3, <2>4 DEF IInv, SchemaTypeOK, CreateTable
  <2>6. WorkerInv'
    BY <2>1, <2>2, <2>3, <2>4
    DEF IInv, WorkerInv, WorkerKnows, StartedWorkerServes, Overtaken, CreateTable
  <2>. QED
    BY <2>4, <2>5, <2>6 DEF IInv
<1>. QED
  BY <1>1, <1>2

LEMMA CreateAllInv == ASSUME IInv, NEW w \in Workers, CreateAll(w) PROVE IInv'
<1>. DEFINE planned == worker[w].planned
<1>0. planned \in SUBSET Tables /\ undone = FALSE
  BY DEF IInv, SchemaTypeOK, WorkerState, MigrationInv, MigrationFollowsStamp, CreateAll
<1>1. CASE planned \cap tables # {}
  <2>1. /\ worker' \in [Workers -> WorkerState]
        /\ worker'[w].pc = "failed" /\ worker'[w].planned = {}
        /\ \A v \in Workers \ {w} : worker'[v] = worker[v]
    BY <1>1, GoesType DEF IInv, CreateAll
  <2>2. SchemaTypeOK'
    BY <1>1, <2>1 DEF IInv, SchemaTypeOK, CreateAll
  <2>3. crashes = 0 => \E v \in Workers \ {w} : worker[v].pc = "started"
    BY <1>1 DEF IInv, WorkerInv, Overtaken, CreateAll
  <2>4. WorkerInv'
    BY <1>1, <2>1, <2>3
    DEF IInv, WorkerInv, WorkerKnows, StartedWorkerServes, Overtaken, CreateAll
  <2>5. MigrationInv'
    BY <1>1, MigrationKeeps DEF IInv, CreateAll
  <2>. QED
    BY <2>2, <2>4, <2>5 DEF IInv
<1>2. CASE planned \cap tables = {}
  <2>1. /\ worker' \in [Workers -> WorkerState]
        /\ worker'[w].pc = "started" /\ worker'[w].planned = {}
        /\ \A v \in Workers \ {w} : worker'[v] = worker[v]
    BY <1>2, GoesType DEF IInv, CreateAll
  <2>2. tables' = tables \cup planned /\ lacks' = Made(planned)
    BY <1>2 DEF CreateAll
  <2>3. /\ MigrationInv' /\ tables' \subseteq Tables
        /\ lacks' \in [Tables -> SUBSET AllColumns]
    BY <1>0, <1>2, <2>2, MadeKeeps DEF CreateAll
  <2>4. SchemaTypeOK'
    BY <1>2, <2>1, <2>3 DEF IInv, SchemaTypeOK, CreateAll
  <2>5. tables' = Tables
    BY <1>0, <2>2, <2>3 DEF IInv, WorkerInv, WorkerKnows, CreateAll
  <2>6. WorkerInv'
    BY <2>1, <2>2, <2>5
    DEF IInv, WorkerInv, WorkerKnows, StartedWorkerServes, Overtaken, CreateAll
  <2>. QED
    BY <2>3, <2>4, <2>6 DEF IInv
<1>. QED
  BY <1>1, <1>2

-----------------------------------------------------------------------------
\* alembic on SQLite.
LEMMA ApplyingType ==
    ASSUME NEW rev \in 1..HeadRevision
    PROVE  /\ Applying(rev) \in Migration /\ Undoing(rev) \in Migration
           /\ Applying(rev).pc = "up" /\ Undoing(rev).pc = "down"
           /\ Applying(rev).rev = rev /\ Undoing(rev).rev = rev
           /\ ~Applying(rev).copied
           /\ rev = 1 => Applying(rev).todo = InitialTables
           /\ rev = 2 => Applying(rev).todo = Columns(2)
           /\ rev > 1 => Undoing(rev).todo = {}
<1>1. Columns(2) \subseteq AllColumns
  BY DEF Columns, AllColumns
<1>2. rev = 1 \/ rev = 2 \/ rev = 3
  BY DEF HeadRevision
<1>. QED
  BY <1>1, <1>2 DEF Applying, Undoing, Migration, HeadRevision

LEMMA NoMigrationType ==
    NoMigration \in Migration /\ NoMigration.pc = "none" /\ NoMigration.todo = {}
BY DEF NoMigration, Migration, HeadRevision

\* A command that fails or is killed between two statements changes nothing more.
LEMMA AtRest ==
    ASSUME IInv, UNCHANGED <<dialect, tables, lacks, stamp>>, undone => undone',
           migration' = NoMigration, upgraded' # "head", dialect = "postgresql" => undone' = undone
    PROVE  MigrationInv'
<1>1. MigrationFollowsStamp'
  BY NoMigrationType DEF IInv, MigrationInv, MigrationFollowsStamp
<1>2. StatementsLast' /\ NoUpgradeSucceeds' /\ VaultIsComplete'
  BY NoMigrationType DEF IInv, MigrationInv, StatementsLast, NoUpgradeSucceeds, VaultIsComplete
<1>3. StampedIsThere'
  BY DEF IInv, MigrationInv, StampedIsThere
<1>. QED
  BY <1>1, <1>2, <1>3 DEF MigrationInv

LEMMA AbortInv ==
    ASSUME IInv, Abort,
           UNCHANGED <<dialect, tables, lacks, stamp, copies, worker, crashes, restarts, undone>>
    PROVE  IInv'
<1>1. migration' = NoMigration /\ upgraded' \in {"never", "failed"}
  BY DEF IInv, SchemaTypeOK, MigrationInv, NoUpgradeSucceeds, Abort
<1>2. SchemaTypeOK'
  BY <1>1, NoMigrationType DEF IInv, SchemaTypeOK
<1>3. WorkerInv'
  BY WorkerKeeps DEF IInv
<1>4. MigrationInv'
  BY <1>1, AtRest
<1>. QED
  BY <1>2, <1>3, <1>4 DEF IInv

LEMMA UpgradeInv == ASSUME IInv, Upgrade PROVE IInv'
<1>1. stamp + 1 \in 1..HeadRevision
  BY DEF IInv, SchemaTypeOK, Upgrade, HeadRevision
<1>2. SchemaTypeOK'
  BY <1>1, ApplyingType DEF IInv, SchemaTypeOK, Upgrade
<1>3. WorkerInv'
  BY WorkerKeeps DEF IInv, Upgrade
<1>4. MigrationFollowsStamp'
  BY <1>1, ApplyingType DEF IInv, MigrationInv, MigrationFollowsStamp, Upgrade
<1>5. StatementsLast' /\ NoUpgradeSucceeds' /\ VaultIsComplete' /\ StampedIsThere'
  BY <1>1, ApplyingType
  DEF IInv, MigrationInv, StatementsLast, NoUpgradeSucceeds, VaultIsComplete, StampedIsThere,
      Upgrade
<1>. QED
  BY <1>2, <1>3, <1>4, <1>5 DEF IInv, MigrationInv

LEMMA DowngradeInv == ASSUME IInv, Downgrade PROVE IInv'
<1>1. stamp \in 1..HeadRevision
  BY DEF IInv, SchemaTypeOK, Downgrade, HeadRevision
<1>2. SchemaTypeOK'
  BY <1>1, ApplyingType DEF IInv, SchemaTypeOK, Downgrade
<1>3. WorkerInv'
  BY WorkerKeeps DEF IInv, Downgrade
<1>4. MigrationFollowsStamp'
  BY <1>1, ApplyingType DEF IInv, SchemaTypeOK, MigrationInv, MigrationFollowsStamp, Downgrade
<1>5. StatementsLast' /\ NoUpgradeSucceeds' /\ VaultIsComplete' /\ StampedIsThere'
  BY <1>1, ApplyingType
  DEF IInv, MigrationInv, StatementsLast, NoUpgradeSucceeds, VaultIsComplete, StampedIsThere,
      Downgrade
<1>. QED
  BY <1>2, <1>3, <1>4, <1>5 DEF IInv, MigrationInv

LEMMA MigrateTableInv == ASSUME IInv, NEW t \in InitialTables, MigrateTable(t) PROVE IInv'
<1>1. /\ t \in migration.todo /\ t \in Tables /\ migration.pc \in {"up", "down"}
      /\ dialect = "sqlite" /\ migration.rev = 1 /\ (migration.pc = "down" => undone)
      /\ t # "secret_vault"
  BY DEF IInv, SchemaTypeOK, Migration, MigrationInv, MigrationFollowsStamp, MigrateTable,
         FirstToMigrate, InitialTables
<1>2. CASE (migration.pc = "up") = (t \in tables)
  BY <1>2, AbortInv DEF MigrateTable
<1>3. CASE migration.pc = "up" /\ t \notin tables
  <2>. DEFINE new == [migration EXCEPT !.todo = @ \ {t}]
  <2>1. /\ new \in Migration /\ new.pc = "up" /\ new.rev = 1
        /\ new.todo = migration.todo \ {t}
    BY <1>1, <1>3 DEF IInv, SchemaTypeOK, Migration
  <2>2. /\ migration' = new /\ tables' = tables \cup {t}
        /\ lacks' = [lacks EXCEPT ![t] = InitialGap(t)]
    BY <1>3 DEF MigrateTable
  <2>. HIDE DEF new
  <2>3. InitialGap(t) \in SUBSET AllColumns
    BY DEF InitialGap, AllColumns
  <2>4. SchemaTypeOK'
    BY <1>1, <1>3, <2>1, <2>2, <2>3 DEF IInv, SchemaTypeOK, MigrateTable
  <2>5. WorkerInv'
    BY <1>1, <1>3, <2>2, <2>4
    DEF IInv, SchemaTypeOK, WorkerInv, WorkerKnows, StartedWorkerServes, Overtaken, MigrateTable
  <2>6. MigrationFollowsStamp'
    BY <1>1, <1>3, <2>1, <2>2 DEF IInv, MigrationInv, MigrationFollowsStamp, MigrateTable
  <2>7. StatementsLast' /\ NoUpgradeSucceeds' /\ VaultIsComplete'
    BY <1>1, <1>3, <2>1, <2>2
    DEF IInv, SchemaTypeOK, MigrationInv, StatementsLast, NoUpgradeSucceeds, VaultIsComplete,
        MigrateTable
  <2>8. stamp = 0 /\ stamp' = 0
    BY <1>1, <1>3 DEF IInv, SchemaTypeOK, HeadRevision, MigrationInv, MigrationFollowsStamp,
       MigrateTable
  <2>9. StampedIsThere'
    BY <2>8 DEF StampedIsThere
  <2>. QED
    BY <2>4, <2>5, <2>6, <2>7, <2>9 DEF IInv, MigrationInv
<1>4. CASE migration.pc = "down" /\ t \in tables
  <2>. DEFINE new == [migration EXCEPT !.todo = @ \ {t}]
  <2>1. /\ new \in Migration /\ new.pc = "down" /\ new.rev = 1
        /\ new.todo = migration.todo \ {t}
    BY <1>1, <1>4 DEF IInv, SchemaTypeOK, Migration
  <2>2. migration' = new /\ tables' = tables \ {t} /\ lacks' = [lacks EXCEPT ![t] = {}]
    BY <1>4 DEF MigrateTable
  <2>. HIDE DEF new
  <2>4. SchemaTypeOK'
    BY <1>1, <1>4, <2>1, <2>2 DEF IInv, SchemaTypeOK, MigrateTable
  <2>5. WorkerInv'
    BY <1>1, <1>4, <2>2
    DEF IInv, WorkerInv, WorkerKnows, StartedWorkerServes, Overtaken, MigrateTable
  <2>6. MigrationFollowsStamp'
    BY <1>1, <1>4, <2>1, <2>2 DEF IInv, MigrationInv, MigrationFollowsStamp, MigrateTable
  <2>7. StatementsLast' /\ NoUpgradeSucceeds' /\ VaultIsComplete'
    BY <1>1, <1>4, <2>1, <2>2
    DEF IInv, SchemaTypeOK, MigrationInv, StatementsLast, NoUpgradeSucceeds, VaultIsComplete,
        MigrateTable
  <2>8. stamp' = 1 /\ undone'
    BY <1>1, <1>4 DEF IInv, MigrationInv, MigrationFollowsStamp, MigrateTable
  <2>9. StampedIsThere'
    BY <2>8 DEF StampedIsThere
  <2>. QED
    BY <2>4, <2>5, <2>6, <2>7, <2>9 DEF IInv, MigrationInv
<1>. QED
  BY <1>1, <1>2, <1>3, <1>4

LEMMA AddColumnInv == ASSUME IInv, NEW c \in Columns(2), AddColumn(c) PROVE IInv'
<1>1. /\ migration \in Migration /\ migration.pc = "up" /\ migration.rev = 2
      /\ stamp = 1 /\ dialect = "sqlite"
  <2>1. migration \in Migration /\ migration.todo # {} /\ migration.rev = 2
    BY DEF IInv, SchemaTypeOK, AddColumn
  <2>2. migration.pc = "up"
    BY <2>1 DEF Migration, IInv, MigrationInv, MigrationFollowsStamp
  <2>. QED
    BY <2>1, <2>2 DEF IInv, SchemaTypeOK, HeadRevision, MigrationInv, MigrationFollowsStamp
<1>2. CASE "audits" \in tables /\ c \in lacks["audits"]
  <2>. DEFINE new == [migration EXCEPT !.todo = @ \ {c}]
  <2>1. /\ new \in Migration /\ new.pc = "up" /\ new.rev = 2
        /\ new.todo = migration.todo \ {c}
    BY <1>1 DEF Migration
  <2>2. /\ migration' = new /\ lacks' = [lacks EXCEPT !["audits"] = @ \ {c}]
        /\ UNCHANGED <<dialect, tables, stamp, copies, worker, crashes, restarts, undone, upgraded>>
    BY <1>2 DEF AddColumn
  <2>. HIDE DEF new
  <2>3. SchemaTypeOK'
    BY <2>1, <2>2 DEF IInv, SchemaTypeOK
  <2>4. WorkerInv'
    BY <2>2, WorkerKeeps DEF IInv
  <2>5. MigrationFollowsStamp'
    BY <1>1, <2>1, <2>2 DEF IInv, MigrationInv, MigrationFollowsStamp
  <2>6. StatementsLast' /\ NoUpgradeSucceeds' /\ VaultIsComplete'
    BY <1>1, <1>2, <2>1, <2>2
    DEF IInv, SchemaTypeOK, MigrationInv, StatementsLast, NoUpgradeSucceeds, VaultIsComplete
  <2>7. StampedIsThere'
    BY <1>1, <2>2 DEF IInv, MigrationInv, StampedIsThere
  <2>. QED
    BY <2>3, <2>4, <2>5, <2>6, <2>7 DEF IInv, MigrationInv
<1>3. CASE ~("audits" \in tables /\ c \in lacks["audits"])
  BY <1>3, AbortInv DEF AddColumn
<1>. QED
  BY <1>2, <1>3

LEMMA CopyTableInv == ASSUME IInv, CopyTable PROVE IInv'
<1>. DEFINE t == Altered(migration.rev)
            fits == /\ t \in tables /\ t \notin copies
                    /\ Columns(migration.rev) \ lacks[t]
                         = IF migration.pc = "up" THEN {} ELSE Columns(migration.rev)
<1>1. /\ migration \in Migration /\ migration.rev > 1 /\ migration.pc # "none"
      /\ migration.pc = "up" => migration.rev = 3
  BY DEF IInv, SchemaTypeOK, CopyTable, NeedsCopy
<1>2. CASE fits
  <2>. DEFINE new == [migration EXCEPT !.copied = TRUE]
  <2>1. /\ new \in Migration /\ new.pc = migration.pc /\ new.rev = migration.rev
        /\ new.todo = migration.todo
    BY <1>1 DEF Migration
  <2>2. /\ migration' = new /\ copies' = copies \cup {t}
        /\ UNCHANGED <<dialect, tables, lacks, stamp, worker, crashes, restarts, undone, upgraded>>
    BY <1>2 DEF CopyTable
  <2>3. migration.pc = "down"
    <3>1. migration.pc # "up"
      <4>. SUFFICES ASSUME migration.pc = "up" PROVE FALSE
        OBVIOUS
      <4>1. t = "secret_vault" /\ Columns(migration.rev) = {"encrypted_value"}
        BY <1>1 DEF Altered, Columns
      <4>. QED
        BY <1>2, <4>1 DEF IInv, MigrationInv, VaultIsComplete
    <3>. QED
      BY <1>1, <3>1 DEF Migration
  <2>4. t \in Tables
    BY <1>2 DEF IInv, SchemaTypeOK
  <2>. HIDE DEF new, t
  <2>5. SchemaTypeOK'
    BY <2>1, <2>2, <2>4 DEF IInv, SchemaTypeOK
  <2>6. WorkerInv'
    BY <2>2, WorkerKeeps DEF IInv
  <2>7. MigrationFollowsStamp'
    BY <2>1, <2>2, <2>3 DEF IInv, MigrationInv, MigrationFollowsStamp
  <2>8. StatementsLast' /\ NoUpgradeSucceeds' /\ VaultIsComplete' /\ StampedIsThere'
    BY <2>1, <2>2, <2>3
    DEF IInv, MigrationInv, StatementsLast, NoUpgradeSucceeds, VaultIsComplete, StampedIsThere
  <2>. QED
    BY <2>5, <2>6, <2>7, <2>8 DEF IInv, MigrationInv
<1>3. CASE ~fits
  BY <1>3, AbortInv DEF CopyTable
<1>. QED
  BY <1>2, <1>3

LEMMA CrashMigrationInv == ASSUME IInv, CrashMigration PROVE IInv'
<1>1. crashes' \in 0..MaxCrashes
  BY DEF IInv, SchemaTypeOK, CrashMigration
<1>2. SchemaTypeOK'
  BY <1>1, NoMigrationType DEF IInv, SchemaTypeOK, CrashMigration
<1>3. WorkerInv'
  BY WorkerKeeps DEF IInv, SchemaTypeOK, CrashMigration
<1>4. MigrationInv'
  BY AtRest DEF IInv, MigrationInv, NoUpgradeSucceeds, CrashMigration
<1>. QED
  BY <1>2, <1>3, <1>4 DEF IInv

\* The third revision is never stamped: an upgrade to it has no copy, and there is no
\* downgrade from it.
LEMMA StampInv == ASSUME IInv, Stamp PROVE IInv'
<1>. DEFINE rev == migration.rev
            up == migration.pc = "up"
<1>1. /\ migration \in Migration /\ dialect = "sqlite" /\ migration.todo = {}
      /\ (up => rev = stamp + 1) /\ (~up => rev = stamp) /\ (~up => migration.pc = "down")
      /\ stamp \in 0..2 /\ rev \in 1..3
  BY DEF IInv, SchemaTypeOK, Migration, MigrationInv, MigrationFollowsStamp, NoUpgradeSucceeds,
         Stamp, HeadRevision
<1>2. rev \in {1, 2}
  BY <1>1 DEF IInv, MigrationInv, VaultIsComplete, Stamp, NeedsCopy
<1>3. CASE up
  <2>1. /\ stamp' = rev /\ migration' = Applying(rev + 1) /\ ~NeedsCopy
        /\ UNCHANGED <<dialect, tables, lacks, copies, worker, crashes, restarts, undone, upgraded>>
    BY <1>2, <1>3 DEF Stamp, NeedsCopy, HeadRevision
  <2>2. /\ migration' \in Migration /\ migration'.pc = "up" /\ migration'.rev = rev + 1
        /\ ~migration'.copied /\ (rev = 1 => migration'.todo = Columns(2))
    <3>1. rev + 1 \in 1..HeadRevision
      BY <1>2 DEF HeadRevision
    <3>. QED
      BY <2>1, <3>1, ApplyingType
  <2>3. SchemaTypeOK'
    BY <1>2, <2>1, <2>2 DEF IInv, SchemaTypeOK, HeadRevision
  <2>4. WorkerInv'
    BY <2>1, WorkerKeeps DEF IInv
  <2>5. MigrationFollowsStamp'
    BY <1>1, <2>1, <2>2 DEF IInv, MigrationInv, MigrationFollowsStamp
  <2>6. StatementsLast' /\ NoUpgradeSucceeds' /\ VaultIsComplete'
    BY <1>2, <2>1, <2>2
    DEF IInv, MigrationInv, StatementsLast, NoUpgradeSucceeds, VaultIsComplete, HeadRevision
  <2>7. undone' \/ InitialTables \subseteq tables'
    BY <1>1, <1>2, <1>3, <2>1 DEF IInv, MigrationInv, StatementsLast, StampedIsThere
  <2>8. rev = 2 => "audits" \in tables' /\ Columns(2) \cap lacks'["audits"] = {}
    BY <1>1, <1>3, <2>1 DEF IInv, MigrationInv, StatementsLast, Columns
  <2>9. StampedIsThere'
    BY <1>2, <2>1, <2>7, <2>8 DEF StampedIsThere, Altered
  <2>. QED
    BY <2>3, <2>4, <2>5, <2>6, <2>9 DEF IInv, MigrationInv
<1>4. CASE ~up
  <2>1. /\ stamp' = stamp - 1 /\ migration' = NoMigration /\ upgraded' = upgraded
        /\ UNCHANGED <<dialect, tables, worker, crashes, restarts, undone>>
    <3>1. migration.pc # "up" /\ migration.rev = stamp
      BY <1>1, <1>4
    <3>2. stamp' = migration.rev - 1
      BY <3>1 DEF Stamp
    <3>3. migration' = NoMigration /\ upgraded' = upgraded
      BY <3>1 DEF Stamp
    <3>. QED
      BY <3>1, <3>2, <3>3 DEF Stamp
  <2>2. /\ copies' \subseteq Tables
        /\ lacks' = lacks \/ (rev = 2 /\ lacks' = [lacks EXCEPT !["audits"] = @ \cup Columns(2)])
    <3>1. copies' \subseteq Tables
      BY DEF IInv, SchemaTypeOK, Stamp
    <3>2. CASE NeedsCopy
      <4>1. migration.rev = 2
        BY <1>2, <1>4, <3>2 DEF NeedsCopy
      <4>2. Altered(migration.rev) = "audits" /\ Replaced("audits") = lacks["audits"] \cup Columns(2)
        BY <1>4, <4>1 DEF Altered, Replaced
      <4>3. lacks' = [lacks EXCEPT ![Altered(migration.rev)] = Replaced(Altered(migration.rev))]
        BY <3>2 DEF Stamp
      <4>. QED
        BY <3>1, <4>1, <4>2, <4>3
    <3>3. CASE ~NeedsCopy
      BY <3>1, <3>3 DEF Stamp
    <3>. QED
      BY <3>2, <3>3
  <2>3. lacks' \in [Tables -> SUBSET AllColumns] /\ lacks'["secret_vault"] = lacks["secret_vault"]
    <3>1. lacks \in [Tables -> SUBSET AllColumns] /\ Columns(2) \subseteq AllColumns
      BY DEF IInv, SchemaTypeOK, Columns, AllColumns
    <3>. QED
      BY <2>2, <3>1
  <2>4. stamp' \in 0..1 /\ stamp' \in 0..HeadRevision /\ (stamp' = 1 => stamp = 2)
    BY <1>1, <1>2, <1>4, <2>1 DEF HeadRevision
  <2>5. SchemaTypeOK'
    BY <2>1, <2>2, <2>3, <2>4, NoMigrationType DEF IInv, SchemaTypeOK
  <2>6. WorkerInv'
    BY <2>1, WorkerKeeps DEF IInv
  <2>7. MigrationFollowsStamp' /\ StatementsLast'
    BY <1>1, <2>1, NoMigrationType DEF MigrationFollowsStamp, StatementsLast
  <2>8. NoUpgradeSucceeds' /\ VaultIsComplete'
    BY <2>1, <2>3, <2>4, NoMigrationType
    DEF IInv, MigrationInv, NoUpgradeSucceeds, VaultIsComplete, HeadRevision
  <2>9. StampedIsThere'
    BY <2>1, <2>4 DEF IInv, MigrationInv, StampedIsThere
  <2>. QED
    BY <2>5, <2>6, <2>7, <2>8, <2>9 DEF IInv, MigrationInv
<1>. QED
  BY <1>3, <1>4

\* On PostgreSQL the upgrade always fails: nothing makes the column disappear that
\* its last revision wants to add.
LEMMA UpgradeTransactionInv == ASSUME IInv, UpgradeTransaction PROVE IInv'
<1>1. ~("secret_vault" \in tables /\ "encrypted_value" \in lacks["secret_vault"])
  BY DEF IInv, MigrationInv, VaultIsComplete
<1>2. /\ upgraded' = "failed"
      /\ UNCHANGED <<dialect, tables, lacks, stamp, copies, worker, migration, crashes, restarts, undone>>
  BY <1>1 DEF UpgradeTransaction
<1>3. SchemaTypeOK'
  BY <1>2 DEF IInv, SchemaTypeOK
<1>4. WorkerInv'
  BY <1>2, WorkerKeeps DEF IInv
<1>5. MigrationInv'
  BY <1>2
  DEF IInv, MigrationInv, MigrationFollowsStamp, StatementsLast, NoUpgradeSucceeds,
      VaultIsComplete, StampedIsThere
<1>. QED
  BY <1>3, <1>4, <1>5 DEF IInv

-----------------------------------------------------------------------------
LEMMA StepInv == ASSUME IInv, [SchemaNext]_schemaVars PROVE IInv'
<1>1. CASE UNCHANGED schemaVars
  BY <1>1
  DEF IInv, SchemaTypeOK, WorkerInv, WorkerKnows, StartedWorkerServes, Overtaken, MigrationInv,
      MigrationFollowsStamp, StatementsLast, NoUpgradeSucceeds, VaultIsComplete, StampedIsThere,
      schemaVars
<1>2. CASE \E w \in Workers : \/ \E t \in Tables : CheckTable(w, t) \/ CreateTable(w, t)
                              \/ PlanTables(w) \/ Started(w) \/ CreateAll(w) \/ CrashWorker(w)
  BY <1>2, CheckTableInv, CreateTableInv, PlanTablesInv, StartedInv, CreateAllInv, CrashWorkerInv
<1>3. CASE StartServer \/ StopServer
  BY <1>3, StartServerInv, StopServerInv
<1>4. CASE \/ Upgrade \/ Downgrade \/ CopyTable \/ Stamp \/ CrashMigration \/ UpgradeTransaction
           \/ \E t \in InitialTables : MigrateTable(t)
           \/ \E c \in Columns(2) : AddColumn(c)
  BY <1>4, UpgradeInv, DowngradeInv, CopyTableInv, StampInv, CrashMigrationInv,
     UpgradeTransactionInv, MigrateTableInv, AddColumnInv
<1>. QED
  BY <1>1, <1>2, <1>3, <1>4 DEF SchemaNext

LEMMA Invariance == SchemaSpec => []IInv
<1>. QED
  BY InitInv, StepInv, PTL DEF SchemaSpec

\* The database stays of its type, whoever creates, alters and drops its tables.
THEOREM SchemaTypeCorrect == SchemaSpec => []SchemaTypeOK
<1>1. IInv => SchemaTypeOK
  BY DEF IInv
<1>. QED
  BY <1>1, Invariance, PTL

\* However many workers create the tables at once, crash and are started again, with
\* alembic beside them: a worker that serves requests finds every table, unless the
\* initial schema was downgraded away.
THEOREM StartedWorkersFindTheTables == SchemaSpec => []StartedWorkerServes
<1>1. IInv => StartedWorkerServes
  BY DEF IInv, WorkerInv
<1>. QED
  BY <1>1, Invariance, PTL

\* On PostgreSQL a start-up without a crash, of one worker or of many, ends with the
\* complete schema and a worker that serves.
THEOREM TransactionalStartupIsComplete ==
    ASSUME Workers # {}
    PROVE  SchemaSpec => []TransactionalStartupLeavesNoGap
<1>1. IInv => TransactionalStartupLeavesNoGap
  BY DEF IInv, WorkerInv, Overtaken, StartedWorkerServes, MigrationInv, MigrationFollowsStamp,
         TransactionalStartupLeavesNoGap
<1>. QED
  BY <1>1, Invariance, PTL

\* What alembic has stamped is there, at whatever statement an upgrade or a downgrade
\* was interrupted, repeated or undone, and whichever workers made tables beside it.
THEOREM StampsAreTrue == SchemaSpec => []StampedIsThere
<1>1. IInv => StampedIsThere
  BY DEF IInv, MigrationInv
<1>. QED
  BY <1>1, Invariance, PTL

\* Why the upgrade of an empty database fails, and that starting the server first, trying
\* again or downgrading does not help: on neither database does an upgrade reach the head.
THEOREM HeadIsOutOfReach == SchemaSpec => []NoUpgradeSucceeds
<1>1. IInv => NoUpgradeSucceeds
  BY DEF IInv, MigrationInv
<1>. QED
  BY <1>1, Invariance, PTL
=============================================================================
