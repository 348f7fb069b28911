---------------------------- MODULE MCOperations ----------------------------
(* The parts that share no state with each other: the scheduler, the Celery    *)
(* runner, the making of the schema, the alerts and the data set.  Every joint *)
(* behaviour of theirs interleaves behaviours that can be checked one at a     *)
(* time: here one part moves and the others rest in an initial state.          *)
EXTENDS Scheduler, CeleryRunner, Schema, Monitoring, Dataset

VARIABLE part

allVars == <<schedulerVars, celeryVars, schemaVars, monitoringVars, datasetVars, part>>

MCInit ==
    /\ part \in {"scheduler", "celery", "schema", "monitoring", "dataset"}
    /\ SchedulerInit /\ CeleryInit /\ SchemaInit /\ MonitoringInit /\ DatasetInit
    /\ part # "schema" => dialect = "sqlite"
    /\ part # "dataset" => count = 0

MCScheduler ==
    /\ part = "scheduler"
    /\ SchedulerNext
    /\ UNCHANGED <<celeryVars, schemaVars, monitoringVars, datasetVars, part>>

MCCelery ==
    /\ part = "celery"
    /\ CeleryNext
    /\ UNCHANGED <<schedulerVars, schemaVars, monitoringVars, datasetVars, part>>

MCSchema ==
    /\ part = "schema"
    /\ SchemaNext
    /\ UNCHANGED <<schedulerVars, celeryVars, monitoringVars, datasetVars, part>>

MCMonitoring ==
    /\ part = "monitoring"
    /\ MonitoringNext
    /\ UNCHANGED <<schedulerVars, celeryVars, schemaVars, datasetVars, part>>

MCDataset ==
    /\ part = "dataset"
    /\ DatasetNext
    /\ UNCHANGED <<schedulerVars, celeryVars, schemaVars, monitoringVars, part>>

MCNext == MCScheduler \/ MCCelery \/ MCSchema \/ MCMonitoring \/ MCDataset

\* From 52 examples on nothing is trimmed, and from 100 on no share rounds to nothing.
MCCounts == 0..120

\* The fairness of a part that rests demands nothing: no loop and no job exists.
MCSpec == MCInit /\ [][MCNext]_allVars /\ SchedulerFairness /\ CeleryFairness
=============================================================================
