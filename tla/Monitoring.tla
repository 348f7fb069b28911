----------------------------- MODULE Monitoring -----------------------------
(***************************************************************************)
(* What GET /alerts and GET /trends tell about the audits of one agent.    *)
(* Both are computed from the table each time; nothing is remembered       *)
(* between two requests, and the window of a query is over the creation of *)
(* an audit, whenever it completed.                                        *)
(*                                                                         *)
(* The checks of test results and findings are not part of the model: no   *)
(* code that runs writes such rows, so that both always find none.         *)
(***************************************************************************)
EXTENDS Naturals, Sequences, FiniteSets, FiniteSetsExt

CONSTANTS
    Scores,          \* overall_score of a completed audit
    Threshold,       \* 20.0
    AlertHours,      \* window of the alerts: 24 hours
    TrendHours,      \* window of the trends: 30 days if the client does not say
    MaxAudits,       \* bound on the audits of a behaviour
    MaxClock         \* bound on the hours of a behaviour

ASSUME MonitoringAssumption ==
    /\ Scores \subseteq Nat /\ Threshold \in Nat
    /\ AlertHours \in Nat /\ TrendHours \in Nat /\ AlertHours <= TrendHours
    /\ MaxAudits \in Nat /\ MaxClock \in Nat

VARIABLES
    clock,           \* hours
    history,         \* the audits in the order of created_at
    alert,           \* the score_drop that the last check returned
    changed          \* history: did an audit complete or go since that check?

monitoringVars == <<clock, history, alert, changed>>

-----------------------------------------------------------------------------
AuditEntry == [created: 0..MaxClock,
               status: {"queued", "completed", "failed", "deleted"},
               score: Scores \cup {0}]          \* NULL is read as 0.0
\* audit_id and, from the message, the audit the score dropped from.
Drop(recent, previous) == [recent |-> recent, previous |-> previous]
NoAlert == Drop(0, 0)

MonitoringTypeOK ==
    /\ clock \in 0..MaxClock
    /\ history \in Seq(AuditEntry) /\ Len(history) <= MaxAudits
    /\ alert \in [recent: 0..MaxAudits, previous: 0..MaxAudits]
    /\ changed \in BOOLEAN

MonitoringInit ==
    /\ clock = 0
    /\ history = <<>>
    /\ alert = NoAlert
    /\ changed = FALSE

-----------------------------------------------------------------------------
(* The queries. *)

InWindow(i, hours) == clock - history[i].created <= hours

CompletedWithin(hours) ==
    {i \in 1..Len(history) : history[i].status = "completed" /\ InWindow(i, hours)}

\* Mutant: the audits are compared in ascending order.
ScoreDropAscending ==
    LET audits == CompletedWithin(AlertHours)
    IN  IF Cardinality(audits) < 2 THEN NoAlert
        ELSE LET recent == Min(audits)
                 previous == Min(audits \ {recent})
             IN  IF history[recent].score + Threshold < history[previous].score
                 THEN Drop(recent, previous) ELSE NoAlert

\* Mutant: the newest audit is compared with the best of the window.
ScoreDropFromBest ==
    LET audits == CompletedWithin(AlertHours)
    IN  IF Cardinality(audits) < 2 THEN NoAlert
        ELSE LET recent == Max(audits)
                 best == CHOOSE i \in audits : \A j \in audits :
                                  history[j].score <= history[i].score
             IN  IF history[recent].score + Threshold < history[best].score
                 THEN Drop(recent, best) ELSE NoAlert

ScoreDrop ==
    LET audits == CompletedWithin(AlertHours)
    IN  IF Cardinality(audits) < 2 THEN NoAlert
        ELSE LET recent == Max(audits)
                 previous == Max(audits \ {recent})
             IN  IF history[recent].score + Threshold < history[previous].score
                 THEN Drop(recent, previous) ELSE NoAlert

\* run_checks: the other two checks count rows that no running code writes.
RunChecks == ScoreDrop

\* daily_scores: the points of the curve, drawn in the order of history.
Trend == CompletedWithin(TrendHours)

\* The curve through these points ends with the segment from m to n.
LastSegment(points, m, n) ==
    /\ m \in points /\ n \in points
    /\ m < n
    /\ \A k \in points : k <= m \/ k = n

-----------------------------------------------------------------------------
CreateEntry ==
    /\ Len(history) < MaxAudits
    /\ history' = Append(history, [created |-> clock, status |-> "queued", score |-> 0])
    /\ UNCHANGED <<clock, alert, changed>>

\* The audit engine ends audits in any order.
CompleteEntry(i, score) ==
    /\ history[i].status = "queued"
    /\ history' = [history EXCEPT ![i].status = "completed", ![i].score = score]
    /\ changed' = TRUE
    /\ UNCHANGED <<clock, alert>>

FailEntry(i) ==
    /\ history[i].status = "queued"
    /\ history' = [history EXCEPT ![i].status = "failed"]
    /\ UNCHANGED <<clock, alert, changed>>

\* An audit is deleted, or detached from its agent.
RemoveEntry(i) ==
    /\ history[i].status # "deleted"
    /\ history' = [history EXCEPT ![i].status = "deleted"]
    /\ changed' = TRUE
    /\ UNCHANGED <<clock, alert>>

Hour ==
    /\ clock < MaxClock
    /\ clock' = clock + 1
    /\ UNCHANGED <<history, alert, changed>>

GetAlerts ==
    /\ alert' = RunChecks
    /\ changed' = FALSE
    /\ UNCHANGED <<clock, history>>

MonitoringNext ==
    \/ CreateEntry
    \/ \E i \in 1..Len(history), score \in Scores : CompleteEntry(i, score)
    \/ \E i \in 1..Len(history) : FailEntry(i)
    \/ \E i \in 1..Len(history) : RemoveEntry(i)
    \/ Hour
    \/ GetAlerts

MonitoringSpec == MonitoringInit /\ [][MonitoringNext]_monitoringVars

-----------------------------------------------------------------------------
\* A drop that was reported is reported again by the next check, unless an audit of
\* the agent completed or went in between or the score it fell from is too old by
\* now: alerts neither flap nor vanish on their own (monitoring.py:43-67, :125-130).
AlertStands ==
    [][alert # NoAlert /\ alert' # alert
         => changed \/ ~InWindow(alert.previous, AlertHours)]_monitoringVars

\* The alert and the trend, which are computed by different queries, agree: there is
\* an alert exactly if the last step of the curve that GET /trends draws falls by more
\* than the threshold and both its points are young enough (monitoring.py:43-152).
AlertMatchesTrend ==
    LET steep(m, n) ==
            /\ LastSegment(Trend, m, n)
            /\ InWindow(m, AlertHours) /\ InWindow(n, AlertHours)
            /\ history[m].score - history[n].score > Threshold
    IN  /\ \A m, n \in Trend : steep(m, n) => ScoreDrop = Drop(n, m)
        /\ (\A m, n \in Trend : ~steep(m, n)) => ScoreDrop = NoAlert
=============================================================================
