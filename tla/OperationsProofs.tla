-------------------------- MODULE OperationsProofs --------------------------
(***************************************************************************)
(* Proofs about three parts that the run "operations" checks together:     *)
(* the alerts on an agent's scores, the arithmetic of the data set and the *)
(* monitoring scheduler.  Each part has an inductive invariant of its own. *)
(***************************************************************************)
EXTENDS Monitoring, Dataset, Scheduler, TLAPS, FiniteSetTheorems

-----------------------------------------------------------------------------
(***************************************************************************)
(* Monitoring: for any scores, threshold, windows and number of audits.    *)
(***************************************************************************)
(* Finite sets of numbers. *)

\* A bounded set of numbers that holds 0 has a last element before its first gap.
LEMMA Gap ==
  ASSUME NEW n \in Nat, NEW U, U \subseteq 0..n, 0 \in U
  PROVE  \E y \in U : y + 1 \notin U
<1>. SUFFICES ASSUME \A y \in U : y + 1 \in U PROVE FALSE
  OBVIOUS
<1>1. IsFiniteSet(U)
  <2>1. IsFiniteSet(0..n)
    BY FS_Interval
  <2>. QED
    BY <2>1, FS_Subset
<1>2. /\ IsFiniteSet(U \ {0}) /\ Cardinality(U) \in Nat
      /\ Cardinality(U \ {0}) = Cardinality(U) - 1
  BY <1>1, FS_RemoveElement, FS_CardinalityType
<1>3. [y \in U |-> y + 1] \in [U -> U \ {0}]
  OBVIOUS
<1>4. PICK f \in [U -> U \ {0}] : \A y \in U : f[y] = y + 1
  BY <1>3, Zenon
<1>5. Cardinality(U \ {0}) < Cardinality(U)
  BY <1>2
<1>6. \E x, y \in U : x # y /\ f[x] = f[y]
  <2>. HIDE <1>4
  <2>. QED
    BY <1>1, <1>2, <1>5, FS_PigeonHole, Zenon
<1>7. \A x, y \in U : x + 1 = y + 1 => x = y
  OBVIOUS
<1>. QED
  BY <1>4, <1>6, <1>7

\* Max finds the greatest element of a bounded set.
LEMMA Greatest ==
  ASSUME NEW n \in Nat, NEW T, T \subseteq 0..n, T # {}
  PROVE  Max(T) \in T /\ \A y \in T : y <= Max(T)
<1>. DEFINE U == {y \in 0..n : \E x \in T : y <= x}
<1>1. U \subseteq 0..n /\ 0 \in U
  <2>1. PICK x \in T : x \in 0..n
    OBVIOUS
  <2>2. 0 \in 0..n /\ 0 <= x
    BY <2>1
  <2>. QED
    BY <2>2
<1>2. \E y \in U : y + 1 \notin U
  <2>. HIDE DEF U
  <2>. QED
    BY <1>1, Gap
<1>3. PICK y \in U : y + 1 \notin U
  BY <1>2
<1>4. PICK x \in T : y <= x
  OBVIOUS
<1>5. \A z \in T : z <= x
  BY <1>3, <1>4
<1>. QED
  BY <1>5 DEF Max

\* A set has two elements exactly if it has two that differ.
LEMMA Pairs ==
  ASSUME NEW T, IsFiniteSet(T)
  PROVE  Cardinality(T) < 2 <=> \A x, y \in T : x = y
<1>1. ASSUME NEW x \in T, NEW y \in T, x # y
      PROVE  Cardinality(T) >= 2
  <2>1. IsFiniteSet(T \ {x}) /\ Cardinality(T \ {x}) = Cardinality(T) - 1
    BY FS_RemoveElement
  <2>2. Cardinality((T \ {x}) \ {y}) = Cardinality(T \ {x}) - 1
    BY <1>1, <2>1, FS_RemoveElement
  <2>3. Cardinality((T \ {x}) \ {y}) \in Nat /\ Cardinality(T) \in Nat
    BY <2>1, FS_RemoveElement, FS_CardinalityType, <1>1
  <2>. QED
    BY <2>1, <2>2, <2>3
<1>2. ASSUME \A x, y \in T : x = y
      PROVE  Cardinality(T) < 2
  <2>1. CASE T = {}
    BY <2>1, FS_EmptySet
  <2>2. CASE T # {}
    <3>1. PICK x : x \in T
      BY <2>2
    <3>2. T = {x}
      BY <1>2, <3>1
    <3>. QED
      BY <3>2, FS_Singleton
  <2>. QED
    BY <2>1, <2>2
<1>3. Cardinality(T) \in Nat
  BY FS_CardinalityType
<1>. QED
  BY <1>1, <1>2, <1>3

-----------------------------------------------------------------------------
(* The alerts and the trends. *)

\* The rows are numbered as they were created, none after now.
CreatedInOrder ==
    /\ \A i \in 1..Len(history) : history[i].created <= clock
    /\ \A i, j \in 1..Len(history) : i < j => history[i].created <= history[j].created

\* The pair of audits the drop is about, as long as no audit completes or goes: the
\* last segment of the curve through all completed audits.
Completed == {i \in 1..Len(history) : history[i].status = "completed"}
AlertIsKnown ==
    alert # NoAlert /\ ~changed =>
        /\ LastSegment(Completed, alert.previous, alert.recent)
        /\ history[alert.recent].score + Threshold < history[alert.previous].score

\* The inductive invariant.
MonitoringInv == MonitoringTypeOK /\ CreatedInOrder /\ AlertIsKnown

\* A curve has one last segment.
LEMMA OneLastSegment ==
  ASSUME NEW T \in SUBSET Nat, NEW k, NEW l, NEW m, NEW n,
         LastSegment(T, k, l), LastSegment(T, m, n)
  PROVE  k = m /\ l = n
  BY DEF LastSegment

\* What the check of an agent's scores returns, without reference to the number of rows.
LEMMA ScoreDropIs ==
  ASSUME MonitoringTypeOK
  PROVE  /\ \A m, n \in 1..Len(history) :
              LastSegment(CompletedWithin(AlertHours), m, n) =>
                ScoreDrop = IF history[n].score + Threshold < history[m].score
                              THEN Drop(n, m) ELSE NoAlert
         /\ (\A m, n \in 1..Len(history) : ~LastSegment(CompletedWithin(AlertHours), m, n))
              => ScoreDrop = NoAlert
<1>. DEFINE S == CompletedWithin(AlertHours)
            top == Max(S)
            next == Max(S \ {top})
<1>0. /\ Len(history) \in Nat /\ S \in SUBSET Nat
      /\ S \subseteq 1..Len(history) /\ S \subseteq 0..Len(history)
  BY DEF MonitoringTypeOK, CompletedWithin
<1>1. IsFiniteSet(S)
  <2>1. IsFiniteSet(1..Len(history))
    BY <1>0, FS_Interval
  <2>. QED
    BY <1>0, <2>1, FS_Subset
<1>2. Cardinality(S) < 2 <=> \A x, y \in S : x = y
  BY <1>1, Pairs
<1>3. ScoreDrop = IF Cardinality(S) < 2 THEN NoAlert
                  ELSE IF history[top].score + Threshold < history[next].score
                         THEN Drop(top, next) ELSE NoAlert
  BY DEF ScoreDrop
<1>t. top = Max(S) /\ next = Max(S \ {top})
  OBVIOUS
<1>. HIDE DEF S, top, next
<1>4. ASSUME ~(Cardinality(S) < 2)
      PROVE  LastSegment(S, next, top)
  <2>1. PICK x \in S, y \in S : x # y
    BY <1>2, <1>4
  <2>2. top \in S /\ \A z \in S : z <= top
    BY <1>0, <1>t, <2>1, Greatest
  <2>3. S \ {top} # {} /\ S \ {top} \subseteq 0..Len(history)
    <3>1. x \in S \ {top} \/ y \in S \ {top}
      BY <2>1
    <3>. QED
      BY <1>0, <3>1
  <2>4. next \in S \ {top} /\ \A z \in S \ {top} : z <= next
    BY <1>0, <1>t, <2>3, Greatest
  <2>5. next < top
    BY <1>0, <2>2, <2>4
  <2>. QED
    BY <2>2, <2>4, <2>5 DEF LastSegment
<1>5. ASSUME NEW m \in 1..Len(history), NEW n \in 1..Len(history), LastSegment(S, m, n)
      PROVE  ScoreDrop = IF history[n].score + Threshold < history[m].score
                           THEN Drop(n, m) ELSE NoAlert
  <2>1. ~(Cardinality(S) < 2)
    BY <1>2, <1>5 DEF LastSegment
  <2>2. top = n /\ next = m
    BY <1>0, <1>4, <1>5, <2>1, OneLastSegment
  <2>. QED
    BY <1>3, <2>1, <2>2
<1>6. ASSUME \A m, n \in 1..Len(history) : ~LastSegment(S, m, n)
      PROVE  ScoreDrop = NoAlert
  <2>1. Cardinality(S) < 2
    BY <1>0, <1>4, <1>6 DEF LastSegment
  <2>. QED
    BY <1>3, <2>1
<1>. QED
  BY <1>5, <1>6 DEF S

\* The rows of a well-typed history.
LEMMA Rows ==
  ASSUME MonitoringTypeOK
  PROVE  /\ Len(history) \in Nat /\ clock \in Nat
         /\ history \in [1..Len(history) -> AuditEntry]
         /\ \A i \in 1..Len(history) :
              /\ history[i] \in AuditEntry
              /\ history[i].created \in Nat /\ history[i].score \in Nat
<1>1. Len(history) \in Nat /\ clock \in Nat /\ history \in [1..Len(history) -> AuditEntry]
  BY MonitoringAssumption DEF MonitoringTypeOK
<1>2. \A e \in AuditEntry : e.created \in Nat /\ e.score \in Nat
  <2>1. 0..MaxClock \subseteq Nat /\ Scores \cup {0} \subseteq Nat
    BY MonitoringAssumption
  <2>. QED
    BY <2>1, Zenon DEF AuditEntry
<1>. QED
  BY <1>1, <1>2

\* An audit younger than one in the window is in the window.
LEMMA Younger ==
  ASSUME MonitoringTypeOK, CreatedInOrder, NEW i \in 1..Len(history), NEW j \in 1..Len(history),
         i <= j, InWindow(i, AlertHours)
  PROVE  InWindow(j, AlertHours)
  BY Rows, MonitoringAssumption DEF CreatedInOrder, InWindow

\* The alerts see the end of the curve that the trends draw.
LEMMA AlertSeesTrend ==
  ASSUME MonitoringTypeOK, CreatedInOrder
  PROVE  AlertMatchesTrend
<1>. DEFINE S == CompletedWithin(AlertHours)
<1>1. \A i \in 1..Len(history) : InWindow(i, AlertHours) => InWindow(i, TrendHours)
  BY Rows, MonitoringAssumption DEF InWindow
<1>2. /\ S = {i \in Trend : InWindow(i, AlertHours)}
      /\ Trend \subseteq 1..Len(history)
  BY <1>1 DEF Trend, CompletedWithin
<1>. HIDE DEF S
<1>3. ASSUME NEW m \in Trend, NEW n \in Trend
      PROVE  LastSegment(S, m, n) <=> /\ LastSegment(Trend, m, n)
                                      /\ InWindow(m, AlertHours) /\ InWindow(n, AlertHours)
  <2>1. \A k \in Trend : m <= k /\ InWindow(m, AlertHours) => InWindow(k, AlertHours)
    BY <1>2, Younger
  <2>2. Trend \subseteq Nat
    BY <1>2, Rows
  <2>. QED
    BY <1>2, <2>1, <2>2 DEF LastSegment
<1>4. \A m, n \in 1..Len(history) : LastSegment(S, m, n) => m \in Trend /\ n \in Trend
  BY <1>2 DEF LastSegment
<1>5. \A m, n \in Trend : history[m].score - history[n].score > Threshold
                            <=> history[n].score + Threshold < history[m].score
  <2>1. \A m \in Trend : history[m].score \in Nat
    BY <1>2, Rows
  <2>. QED
    BY <2>1, MonitoringAssumption
<1>6. /\ \A m, n \in 1..Len(history) : LastSegment(S, m, n) =>
            ScoreDrop = IF history[n].score + Threshold < history[m].score
                          THEN Drop(n, m) ELSE NoAlert
      /\ (\A m, n \in 1..Len(history) : ~LastSegment(S, m, n)) => ScoreDrop = NoAlert
  BY ScoreDropIs DEF S
<1>7. ASSUME NEW m \in Trend, NEW n \in Trend, LastSegment(Trend, m, n),
             InWindow(m, AlertHours), InWindow(n, AlertHours),
             history[m].score - history[n].score > Threshold
      PROVE  ScoreDrop = Drop(n, m)
  BY <1>2, <1>3, <1>5, <1>6, <1>7
<1>8. ASSUME \A m, n \in Trend :
               ~(/\ LastSegment(Trend, m, n)
                 /\ InWindow(m, AlertHours) /\ InWindow(n, AlertHours)
                 /\ history[m].score - history[n].score > Threshold)
      PROVE  ScoreDrop = NoAlert
  <2>1. CASE \A m, n \in 1..Len(history) : ~LastSegment(S, m, n)
    BY <1>6, <2>1
  <2>2. CASE \E m, n \in 1..Len(history) : LastSegment(S, m, n)
    <3>1. PICK m \in 1..Len(history), n \in 1..Len(history) : LastSegment(S, m, n)
      BY <2>2
    <3>2. m \in Trend /\ n \in Trend
      BY <1>4, <3>1
    <3>3. ~(history[n].score + Threshold < history[m].score)
      BY <1>3, <1>5, <1>8, <3>1, <3>2
    <3>. QED
      BY <1>6, <3>1, <3>3
  <2>. QED
    BY <2>1, <2>2
<1>. QED
  BY <1>7, <1>8 DEF AlertMatchesTrend

\* Every check leaves values of the right type.
LEMMA ScoreDropType ==
  ASSUME MonitoringTypeOK
  PROVE  ScoreDrop \in [recent: 0..MaxAudits, previous: 0..MaxAudits]
<1>1. NoAlert \in [recent: 0..MaxAudits, previous: 0..MaxAudits]
  BY MonitoringAssumption DEF NoAlert, Drop
<1>2. \A m, n \in 1..Len(history) : Drop(n, m) \in [recent: 0..MaxAudits, previous: 0..MaxAudits]
  BY MonitoringAssumption, Rows DEF Drop, MonitoringTypeOK
<1>3. CASE \A m, n \in 1..Len(history) : ~LastSegment(CompletedWithin(AlertHours), m, n)
  BY <1>1, <1>3, ScoreDropIs
<1>4. CASE \E m, n \in 1..Len(history) : LastSegment(CompletedWithin(AlertHours), m, n)
  BY <1>1, <1>2, <1>4, ScoreDropIs
<1>. QED
  BY <1>3, <1>4

\* In a history in order the last segment of the window is that of all completed audits.
LEMMA WindowIsTheEnd ==
  ASSUME MonitoringTypeOK, CreatedInOrder, NEW m \in 1..Len(history), NEW n \in 1..Len(history),
         InWindow(m, AlertHours)
  PROVE  LastSegment(CompletedWithin(AlertHours), m, n) <=> LastSegment(Completed, m, n)
<1>1. CompletedWithin(AlertHours) = {i \in Completed : InWindow(i, AlertHours)}
  BY DEF CompletedWithin, Completed
<1>2. \A k \in 1..Len(history) : m <= k => InWindow(k, AlertHours)
  BY Younger
<1>3. Completed \subseteq 1..Len(history) /\ 1..Len(history) \subseteq Nat
  BY Rows DEF Completed
<1>. DEFINE C == Completed
            W == {i \in C : InWindow(i, AlertHours)}
<1>4. \A k \in C : m <= k => k \in W
  BY <1>2, <1>3
<1>5. W \subseteq C /\ C \subseteq Nat /\ m \in Nat
  BY <1>3
<1>. HIDE DEF C, W
<1>6. LastSegment(W, m, n) <=> LastSegment(C, m, n)
  BY <1>4, <1>5 DEF LastSegment
<1>. QED
  BY <1>1, <1>6 DEF C, W

\* What a check has just returned is the fall of the last segment.
LEMMA CheckIsKnown ==
  ASSUME MonitoringTypeOK, CreatedInOrder, ScoreDrop # NoAlert
  PROVE  /\ LastSegment(Completed, ScoreDrop.previous, ScoreDrop.recent)
         /\ history[ScoreDrop.recent].score + Threshold < history[ScoreDrop.previous].score
<1>1. PICK m \in 1..Len(history), n \in 1..Len(history) :
             LastSegment(CompletedWithin(AlertHours), m, n)
  BY ScoreDropIs
<1>2. /\ ScoreDrop = Drop(n, m)
      /\ history[n].score + Threshold < history[m].score
  BY <1>1, ScoreDropIs
<1>3. InWindow(m, AlertHours)
  BY <1>1 DEF LastSegment, CompletedWithin
<1>. QED
  BY <1>1, <1>2, <1>3, WindowIsTheEnd DEF Drop

\* There is no audit at first, and no check was made.
LEMMA MonitoringInitial == MonitoringInit => MonitoringInv
<1>. SUFFICES ASSUME MonitoringInit PROVE MonitoringInv
  OBVIOUS
<1>1. history = << >> /\ Len(history) = 0 /\ history \in Seq(AuditEntry)
  BY DEF MonitoringInit
<1>2. MonitoringTypeOK
  <2>1. alert \in [recent: 0..MaxAudits, previous: 0..MaxAudits]
    BY MonitoringAssumption DEF MonitoringInit, NoAlert, Drop
  <2>2. clock \in 0..MaxClock /\ Len(history) <= MaxAudits
    BY <1>1, MonitoringAssumption DEF MonitoringInit
  <2>3. changed \in BOOLEAN
    BY Zenon DEF MonitoringInit
  <2>. QED
    BY <1>1, <2>1, <2>2, <2>3 DEF MonitoringTypeOK
<1>3. CreatedInOrder
  BY <1>1 DEF CreatedInOrder
<1>4. AlertIsKnown
  BY DEF MonitoringInit, AlertIsKnown
<1>. QED
  BY <1>2, <1>3, <1>4 DEF MonitoringInv

\* A new row is the youngest, and is not completed.
LEMMA CreateKeeps ==
  ASSUME MonitoringInv, CreateEntry
  PROVE  MonitoringInv'
<1>. DEFINE e == [created |-> clock, status |-> "queued", score |-> 0]
            l == Len(history)
<1>0. MonitoringTypeOK /\ CreatedInOrder /\ AlertIsKnown
  BY DEF MonitoringInv
<1>1. l \in Nat /\ l < MaxAudits /\ history \in Seq(AuditEntry) /\ e \in AuditEntry
      /\ clock \in Nat
  BY <1>0, Rows DEF CreateEntry, MonitoringTypeOK, AuditEntry
<1>2. history' = Append(history, e) /\ UNCHANGED <<clock, alert, changed>>
  BY DEF CreateEntry
<1>3. /\ history' \in Seq(AuditEntry) /\ Len(history') = l + 1
      /\ history'[l + 1] = e /\ \A i \in 1..l : history'[i] = history[i]
  <2>. HIDE DEF e
  <2>. QED
    BY <1>1, <1>2
<1>4. MonitoringTypeOK'
  BY <1>0, <1>1, <1>2, <1>3, MonitoringAssumption DEF MonitoringTypeOK
<1>5. CreatedInOrder'
  <2>1. \A i \in 1..l + 1 : i \in 1..l \/ i = l + 1
    BY <1>1
  <2>2. \A i \in 1..l : ~(l + 1 < i)
    BY <1>1
  <2>3. \A i \in 1..l : history[i].created \in Nat
    BY <1>0, Rows
  <2>. QED
    BY <1>0, <1>1, <1>2, <1>3, <2>1, <2>2, <2>3 DEF CreatedInOrder
<1>6. Completed' = Completed
  BY <1>1, <1>3 DEF Completed
<1>7. AlertIsKnown'
  <2>1. Completed \subseteq 1..l
    BY DEF Completed
  <2>. QED
    BY <1>0, <1>2, <1>3, <1>6, <2>1 DEF AlertIsKnown, LastSegment, NoAlert
<1>. QED
  BY <1>4, <1>5, <1>7 DEF MonitoringInv

\* The other steps on rows rewrite one row and not the time it was created.
LEMMA RewriteKeeps ==
  ASSUME MonitoringInv, NEW i \in 1..Len(history),
         (\E score \in Scores : CompleteEntry(i, score)) \/ FailEntry(i) \/ RemoveEntry(i)
  PROVE  MonitoringInv'
<1>0. MonitoringTypeOK /\ CreatedInOrder /\ AlertIsKnown
  BY DEF MonitoringInv
<1>1. \E e \in AuditEntry :
        /\ e.created = history[i].created
        /\ history' = [history EXCEPT ![i] = e]
        /\ \/ changed' = TRUE
           \/ history[i].status = "queued" /\ e.status = "failed" /\ changed' = changed
  <2>0. history[i] \in AuditEntry /\ history \in [1..Len(history) -> AuditEntry]
    BY <1>0, Rows
  <2>1. ASSUME NEW score \in Scores, CompleteEntry(i, score)
        PROVE  /\ [history[i] EXCEPT !.status = "completed", !.score = score] \in AuditEntry
               /\ history' = [history EXCEPT ![i] =
                                 [history[i] EXCEPT !.status = "completed", !.score = score]]
    BY <2>0, <2>1 DEF CompleteEntry, AuditEntry
  <2>2. ASSUME NEW s \in {"failed", "deleted"}
        PROVE  [history[i] EXCEPT !.status = s] \in AuditEntry
    BY <2>0 DEF AuditEntry
  <2>3. CASE \E score \in Scores : CompleteEntry(i, score)
    BY <2>0, <2>1, <2>3 DEF CompleteEntry, AuditEntry
  <2>4. CASE FailEntry(i)
    BY <2>0, <2>2, <2>4 DEF FailEntry, AuditEntry
  <2>5. CASE RemoveEntry(i)
    BY <2>0, <2>2, <2>5 DEF RemoveEntry, AuditEntry
  <2>. QED
    BY <2>3, <2>4, <2>5
<1>2. PICK e \in AuditEntry :
        /\ e.created = history[i].created
        /\ history' = [history EXCEPT ![i] = e]
        /\ \/ changed' = TRUE
           \/ history[i].status = "queued" /\ e.status = "failed" /\ changed' = changed
  BY <1>1
<1>3. UNCHANGED <<clock, alert>>
  BY DEF CompleteEntry, FailEntry, RemoveEntry
<1>4. /\ history' \in Seq(AuditEntry) /\ Len(history') = Len(history)
      /\ history'[i] = e /\ \A j \in 1..Len(history) \ {i} : history'[j] = history[j]
  BY <1>0, <1>2 DEF MonitoringTypeOK
<1>5. MonitoringTypeOK'
  BY <1>0, <1>2, <1>3, <1>4 DEF MonitoringTypeOK
<1>6. CreatedInOrder'
  BY <1>0, <1>2, <1>3, <1>4 DEF CreatedInOrder
<1>7. AlertIsKnown'
  <2>1. CASE changed' = TRUE
    BY <2>1 DEF AlertIsKnown
  <2>2. CASE history[i].status = "queued" /\ e.status = "failed" /\ changed' = changed
    <3>1. Completed' = Completed /\ i \notin Completed /\ Completed \subseteq 1..Len(history)
      BY <1>4, <2>2 DEF Completed
    <3>. QED
      BY <1>0, <1>3, <1>4, <2>2, <3>1 DEF AlertIsKnown, LastSegment, NoAlert
  <2>. QED
    BY <1>2, <2>1, <2>2
<1>. QED
  BY <1>5, <1>6, <1>7 DEF MonitoringInv

\* Every step keeps the inductive invariant of the alerts.
LEMMA MonitoringStep == MonitoringInv /\ [MonitoringNext]_monitoringVars => MonitoringInv'
<1>. SUFFICES ASSUME MonitoringInv, [MonitoringNext]_monitoringVars PROVE MonitoringInv'
  OBVIOUS
<1>0. MonitoringTypeOK /\ CreatedInOrder /\ AlertIsKnown
  BY DEF MonitoringInv
<1>1. CASE UNCHANGED monitoringVars
  BY <1>1
  DEF monitoringVars, MonitoringInv, MonitoringTypeOK, CreatedInOrder, AlertIsKnown, Completed
<1>2. CASE Hour
  <2>1. /\ clock' \in 0..MaxClock /\ UNCHANGED <<history, alert, changed>>
        /\ \A i \in 1..Len(history) : history[i].created <= clock'
    <3>1. clock' = clock + 1 /\ clock < MaxClock /\ clock \in 0..MaxClock
      BY <1>0, <1>2 DEF Hour, MonitoringTypeOK
    <3>2. \A i \in 1..Len(history) : history[i].created \in Nat
      BY <1>0, Rows
    <3>. QED
      BY <1>0, <1>2, <3>1, <3>2, MonitoringAssumption DEF Hour, CreatedInOrder
  <2>. QED
    BY <1>0, <2>1 DEF MonitoringInv, MonitoringTypeOK, CreatedInOrder, AlertIsKnown, Completed
<1>3. CASE GetAlerts
  <2>1. alert' = ScoreDrop /\ changed' = FALSE /\ UNCHANGED <<clock, history>>
    BY <1>3 DEF GetAlerts, RunChecks
  <2>2. MonitoringTypeOK' /\ CreatedInOrder' /\ Completed' = Completed
    BY <1>0, <2>1, ScoreDropType DEF MonitoringTypeOK, CreatedInOrder, Completed
  <2>3. AlertIsKnown'
    BY <1>0, <2>1, <2>2, CheckIsKnown DEF AlertIsKnown, NoAlert
  <2>. QED
    BY <2>2, <2>3 DEF MonitoringInv
<1>. QED
  BY <1>1, <1>2, <1>3, CreateKeeps, RewriteKeeps DEF MonitoringNext

\* The alert a check finds again is the one it found before.
LEMMA CheckRepeats ==
  ASSUME MonitoringInv, alert # NoAlert, ~changed, InWindow(alert.previous, AlertHours)
  PROVE  ScoreDrop = alert
<1>. DEFINE m == alert.previous
            n == alert.recent
<1>0. MonitoringTypeOK /\ CreatedInOrder
  BY DEF MonitoringInv
<1>1. LastSegment(Completed, m, n) /\ history[n].score + Threshold < history[m].score
  BY DEF MonitoringInv, AlertIsKnown
<1>2. m \in 1..Len(history) /\ n \in 1..Len(history)
  BY <1>1 DEF LastSegment, Completed
<1>3. LastSegment(CompletedWithin(AlertHours), m, n)
  BY <1>0, <1>1, <1>2, WindowIsTheEnd
<1>4. ScoreDrop = Drop(n, m)
  BY <1>0, <1>1, <1>2, <1>3, ScoreDropIs
<1>5. alert = Drop(n, m)
  BY <1>0 DEF MonitoringTypeOK, Drop
<1>. QED
  BY <1>4, <1>5

\* Type correctness of the alerts, and the order of the rows.
THEOREM MonitoringTypeCorrect == MonitoringSpec => []MonitoringTypeOK
  BY MonitoringInitial, MonitoringStep, PTL DEF MonitoringSpec, MonitoringInv

\* The alerts of every history, window and threshold agree with the curve of the trends.
THEOREM AlertsMatchTrends == MonitoringSpec => []AlertMatchesTrend
<1>1. MonitoringInv => AlertMatchesTrend
  BY AlertSeesTrend DEF MonitoringInv
<1>. QED
  BY <1>1, MonitoringInitial, MonitoringStep, PTL DEF MonitoringSpec

\* An alert that was reported stands until an audit completes or goes or leaves the window.
THEOREM AlertsStand == MonitoringSpec => AlertStands
<1>1. ASSUME MonitoringInv, [MonitoringNext]_monitoringVars
      PROVE  [alert # NoAlert /\ alert' # alert
                => changed \/ ~InWindow(alert.previous, AlertHours)]_monitoringVars
  <2>1. CASE GetAlerts
    BY <1>1, <2>1, CheckRepeats DEF GetAlerts, RunChecks
  <2>2. CASE ~GetAlerts
    BY <1>1, <2>2
    DEF MonitoringNext, CreateEntry, CompleteEntry, FailEntry, RemoveEntry, Hour, monitoringVars
  <2>. QED
    BY <2>1, <2>2
<1>. QED
  BY <1>1, MonitoringInitial, MonitoringStep, PTL DEF MonitoringSpec, AlertStands

-----------------------------------------------------------------------------
(***************************************************************************)
(* Dataset: for every number of examples.                                  *)
(***************************************************************************)
\* Division by a positive number.
LEMMA Division ==
  ASSUME NEW a \in Nat, NEW t \in Nat, t > 0
  PROVE  /\ a \div t \in Nat /\ a % t \in Nat
         /\ t * (a \div t) <= a /\ a < t * (a \div t) + t
         /\ a % t = 0 => t * (a \div t) = a
  OBVIOUS

\* The thirteen entries.
LEMMA ThirteenEntries ==
  /\ Len(Shares) = 13
  /\ \A i \in Entries : i \in Nat /\ i >= 1 /\ i <= 13 /\ Shares[i] \in Nat
  /\ \A i \in Nat : i >= 1 /\ i <= 13 => i \in Entries
<1>1. Len(Shares) = 13
  BY DEF Shares
<1>2. \A i \in 1..13 : Shares[i] \in Nat
  BY DEF Shares
<1>3. \A i \in Nat : i >= 1 /\ i <= 13 => i \in 1..13
  OBVIOUS
<1>4. Entries = 1..13
  BY <1>1 DEF Entries
<1>. QED
  BY <1>1, <1>2, <1>3, <1>4

\* The budgets.
LEMMA Budgets ==
  ASSUME count \in Nat
  PROVE  /\ \A i \in Entries : Budget(i) \in Nat
         /\ TotalBudget \in Nat
<1>1. \A i \in Entries : Budget(i) \in Nat
  <2>1. \A i \in Entries : count * Shares[i] \in Nat
    BY ThirteenEntries
  <2>. QED
    BY <2>1, Division DEF Budget
<1>. DEFINE B(i) == Budget(i)
<1>2. /\ B(1) \in Nat /\ B(2) \in Nat /\ B(3) \in Nat /\ B(4) \in Nat /\ B(5) \in Nat /\ B(6) \in Nat /\ B(7) \in Nat
      /\ B(8) \in Nat /\ B(9) \in Nat /\ B(10) \in Nat /\ B(11) \in Nat /\ B(12) \in Nat /\ B(13) \in Nat
  BY <1>1, ThirteenEntries
<1>3. TotalBudget = B(1) + B(2) + B(3) + B(4) + B(5) + B(6) + B(7)
                      + B(8) + B(9) + B(10) + B(11) + B(12) + B(13)
  BY DEF TotalBudget
<1>. HIDE DEF B
<1>4. TotalBudget \in Nat
  BY <1>2, <1>3
<1>. QED
  BY <1>1, <1>4

\* A quotient that may lose one where it is exact, and is at least one.
LEMMA Rounded ==
  ASSUME NEW a \in Nat, NEW t \in Nat, t > 0, NEW n,
         \/ n = AtLeastOne(a \div t)
         \/ a > 0 /\ a % t = 0 /\ n = AtLeastOne((a \div t) - 1)
  PROVE  /\ n \in Nat /\ n >= 1
         /\ a <= n * t + t
         /\ n = 1 \/ n * t <= a
<1>. DEFINE q == a \div t
<1>1. q \in Nat /\ q * t <= a /\ a < q * t + t /\ (a % t = 0 => q * t = a)
  BY Division
<1>. HIDE DEF q
<1>2. CASE n = AtLeastOne(q)
  BY <1>1, <1>2 DEF AtLeastOne
<1>3. CASE a > 0 /\ a % t = 0 /\ n = AtLeastOne(q - 1)
  <2>1. q >= 1
    BY <1>1, <1>3
  <2>2. (q - 1) * t = a - t
    BY <1>1, <1>3
  <2>3. q - 1 \in Nat
    BY <1>1, <2>1
  <2>. QED
    BY <1>1, <1>3, <2>1, <2>2, <2>3 DEF AtLeastOne
<1>. QED
  BY <1>2, <1>3 DEF q

\* How many examples an entry yields, times the total budget.
LEMMA ScaledBounds ==
  ASSUME count \in Nat, NEW i \in Entries, NEW n \in Scaled(i)
  PROVE  /\ n \in Nat /\ n >= 1
         /\ TotalBudget > 0 => /\ Budget(i) * count <= n * TotalBudget + TotalBudget
                               /\ \/ n = 1
                                  \/ n * TotalBudget <= Budget(i) * count
<1>. DEFINE t == TotalBudget
            a == Budget(i) * count
<1>1. t \in Nat /\ a \in Nat /\ Budget(i) \in Nat
  BY Budgets
<1>2. CASE t = 0
  BY <1>1, <1>2 DEF Scaled, Quotient, Inexact, AtLeastOne
<1>3. CASE t > 0
  <2>1. count = 0 => Budget(i) = 0
    <3>1. Shares[i] \in Nat
      BY ThirteenEntries
    <3>2. 0 * Shares[i] = 0
      BY <3>1
    <3>3. 0 \div 100 = 0
      OBVIOUS
    <3>. QED
      BY <3>2, <3>3 DEF Budget
  <2>2. Budget(i) > 0 => a > 0
    BY <1>1, <2>1
  <2>3. \/ n = AtLeastOne(a \div t)
        \/ a > 0 /\ a % t = 0 /\ n = AtLeastOne((a \div t) - 1)
    BY <1>1, <1>3, <2>2 DEF Scaled, Quotient, Inexact
  <2>. HIDE DEF a, t
  <2>4. n \in Nat /\ n >= 1 /\ a <= n * t + t /\ (n = 1 \/ n * t <= a)
    BY <1>1, <1>3, <2>3, Rounded
  <2>. QED
    BY <2>4 DEF a, t
<1>. QED
  BY <1>1, <1>2, <1>3
-----------------------------------------------------------------------------
\* Every mark is the mark before it and what the entry yielded; the result is the list
\* of all entries, cut.
DatasetInv ==
    /\ count \in Counts
    /\ entry \in Nat /\ entry >= 1
    /\ collected \in [Entries -> Nat]
    /\ \A i \in Entries :
         i < entry => \E n \in Scaled(i) : collected[i] = MarkBefore(collected, i) + n
    /\ examples = <<>> \/ (entry > 13 /\ examples = Trim(collected))

\* Before the first entry there is no mark to speak of.
LEMMA DatasetInitial == DatasetInit => DatasetInv
<1>. SUFFICES ASSUME DatasetInit PROVE DatasetInv
  OBVIOUS
<1>1. count \in Counts /\ entry = 1 /\ examples = << >> /\ collected \in [Entries -> Nat]
  BY DEF DatasetInit
<1>2. \A i \in Entries : ~(i < entry)
  BY <1>1, ThirteenEntries
<1>3. entry \in Nat /\ entry >= 1
  BY <1>1
<1>. QED
  BY <1>1, <1>2, <1>3, Zenon DEF DatasetInv

\* An entry adds what it yields to the mark before it, and the return only reads.
LEMMA DatasetStep == DatasetInv /\ [DatasetNext]_datasetVars => DatasetInv'
<1>. SUFFICES ASSUME DatasetInv, [DatasetNext]_datasetVars PROVE DatasetInv'
  OBVIOUS
<1>0. count \in Nat /\ entry \in Nat /\ collected \in [Entries -> Nat]
  BY DatasetAssumption DEF DatasetInv
<1>1. CASE UNCHANGED datasetVars
  BY <1>1
  DEF datasetVars, DatasetInv, MarkBefore, Trim, Scaled, Quotient, Inexact, Budget, TotalBudget
<1>2. CASE CollectEntry
  <2>1. entry \in Entries /\ entry' = entry + 1 /\ UNCHANGED <<count, examples>>
    BY <1>2 DEF CollectEntry
  <2>2. PICK n \in Scaled(entry) :
          collected' = [collected EXCEPT ![entry] = MarkBefore(collected, entry) + n]
    BY <1>2 DEF CollectEntry
  <2>3. \A i \in Entries : MarkBefore(collected, i) \in Nat /\ n \in Nat
    BY <1>0, <2>1, <2>2, ScaledBounds, ThirteenEntries DEF MarkBefore
  <2>4. /\ collected' \in [Entries -> Nat]
        /\ collected'[entry] = MarkBefore(collected, entry) + n
        /\ \A i \in Entries : i # entry => collected'[i] = collected[i]
    BY <1>0, <2>1, <2>2, <2>3
  <2>5. \A i : Scaled(i)' = Scaled(i)
    BY <2>1 DEF Scaled, Quotient, Inexact, Budget, TotalBudget
  <2>6. \A i \in Entries : i <= entry => MarkBefore(collected', i) = MarkBefore(collected, i)
    BY <1>0, <2>1, <2>4, ThirteenEntries DEF MarkBefore
  <2>7. ASSUME NEW i \in Entries, i < entry'
        PROVE  \E k \in Scaled(i)' : collected'[i] = MarkBefore(collected', i) + k
    <3>1. i = entry \/ (i < entry /\ i # entry)
      BY <1>0, <2>1, <2>7, ThirteenEntries
    <3>2. CASE i = entry
      <4>1. MarkBefore(collected', entry) = MarkBefore(collected, entry)
        BY <1>0, <2>1, <2>6
      <4>. QED
        BY <2>2, <2>4, <2>5, <3>2, <4>1
    <3>3. CASE i < entry /\ i # entry
      <4>1. PICK k \in Scaled(i) : collected[i] = MarkBefore(collected, i) + k
        BY <3>3 DEF DatasetInv
      <4>2. MarkBefore(collected', i) = MarkBefore(collected, i)
        BY <1>0, <2>1, <2>6, <3>3, ThirteenEntries
      <4>. QED
        BY <2>4, <2>5, <3>3, <4>1, <4>2
    <3>. QED
      BY <3>1, <3>2, <3>3
  <2>8. examples' = << >> /\ count' \in Counts /\ entry' \in Nat /\ entry' >= 1
    BY <1>0, <2>1, ThirteenEntries DEF DatasetInv
  <2>. QED
    BY <2>4, <2>7, <2>8, Zenon DEF DatasetInv
<1>3. CASE ReturnExamples
  <2>1. /\ UNCHANGED <<count, entry, collected>> /\ entry \notin Entries
        /\ examples' = Trim(collected)
    BY <1>3 DEF ReturnExamples
  <2>2. /\ Trim(collected)' = Trim(collected)
        /\ \A i : Scaled(i)' = Scaled(i) /\ MarkBefore(collected, i)' = MarkBefore(collected, i)
    BY <2>1 DEF MarkBefore, Trim, Scaled, Quotient, Inexact, Budget, TotalBudget
  <2>3. entry > 13
    BY <1>0, <2>1, ThirteenEntries DEF DatasetInv
  <2>. QED
    BY <2>1, <2>2, <2>3 DEF DatasetInv
<1>. QED
  BY <1>1, <1>2, <1>3 DEF DatasetNext

\* The marks of a full list, and what each entry adds to them.
LEMMA Marks ==
  ASSUME DatasetInv, entry > 13
  PROVE  /\ count \in Nat
         /\ \A i \in Entries : /\ collected[i] \in Nat /\ MarkBefore(collected, i) \in Nat
                               /\ \E n \in Scaled(i) : collected[i] = MarkBefore(collected, i) + n
<1>1. count \in Nat /\ entry \in Nat /\ collected \in [Entries -> Nat]
  BY DatasetAssumption DEF DatasetInv
<1>2. \A i \in Entries : i < entry /\ (i # 1 => i - 1 \in Entries)
  BY <1>1, ThirteenEntries
<1>3. \A i \in Entries : MarkBefore(collected, i) \in Nat
  BY <1>1, <1>2 DEF MarkBefore
<1>. QED
  BY <1>1, <1>2, <1>3 DEF DatasetInv

\* The marks of a full list, times the total budget.
LEMMA Yields ==
  ASSUME DatasetInv, entry > 13, TotalBudget > 0, NEW i \in Entries,
         NEW b \in Nat, b = Budget(i), NEW c \in Nat, c = count, NEW t \in Nat, t = TotalBudget,
         NEW d \in Nat, d = MarkBefore(collected, i), NEW e \in Nat, e = collected[i]
  PROVE  /\ d < e
         /\ d * t + b * c <= e * t + t
         /\ e = d + 1 \/ e * t <= d * t + b * c
<1>1. \E n \in Nat : /\ e = d + n /\ n >= 1 /\ b * c <= n * t + t
                     /\ n = 1 \/ n * t <= b * c
  <2>1. PICK n \in Scaled(i) : e = d + n
    BY Marks
  <2>. QED
    BY <2>1, Marks, ScaledBounds
<1>2. PICK n \in Nat : /\ e = d + n /\ n >= 1 /\ b * c <= n * t + t
                       /\ n = 1 \/ n * t <= b * c
  BY <1>1
<1>3. e * t = d * t + n * t
  BY <1>2
<1>. QED
  BY <1>2, <1>3

\* Together the entries yield the request, less one example each.
LEMMA YieldsEnough ==
  ASSUME DatasetInv, entry > 13
  PROVE  count <= collected[13] + 13
<1>0. count \in Nat /\ TotalBudget \in Nat /\ \A i \in Entries : collected[i] \in Nat
  BY Marks, Budgets
<1>1. PICK b1, b2, b3, b4, b5, b6, b7, b8, b9, b10, b11, b12, b13 \in Nat :
        /\ b1 = Budget(1) /\ b2 = Budget(2) /\ b3 = Budget(3) /\ b4 = Budget(4)
        /\ b5 = Budget(5) /\ b6 = Budget(6) /\ b7 = Budget(7) /\ b8 = Budget(8)
        /\ b9 = Budget(9) /\ b10 = Budget(10) /\ b11 = Budget(11) /\ b12 = Budget(12) /\ b13 = Budget(13)
  <2>1. /\ Budget(1) \in Nat /\ Budget(2) \in Nat /\ Budget(3) \in Nat /\ Budget(4) \in Nat
        /\ Budget(5) \in Nat /\ Budget(6) \in Nat /\ Budget(7) \in Nat /\ Budget(8) \in Nat
        /\ Budget(9) \in Nat /\ Budget(10) \in Nat /\ Budget(11) \in Nat /\ Budget(12) \in Nat /\ Budget(13) \in Nat
    BY <1>0, Budgets, ThirteenEntries
  <2>. QED
    BY <2>1, Zenon
<1>2. PICK e1, e2, e3, e4, e5, e6, e7, e8, e9, e10, e11, e12, e13 \in Nat :
        /\ e1 = collected[1] /\ e2 = collected[2] /\ e3 = collected[3] /\ e4 = collected[4]
        /\ e5 = collected[5] /\ e6 = collected[6] /\ e7 = collected[7] /\ e8 = collected[8]
        /\ e9 = collected[9] /\ e10 = collected[10] /\ e11 = collected[11] /\ e12 = collected[12] /\ e13 = collected[13]
  <2>1. /\ collected[1] \in Nat /\ collected[2] \in Nat /\ collected[3] \in Nat /\ collected[4] \in Nat
        /\ collected[5] \in Nat /\ collected[6] \in Nat /\ collected[7] \in Nat /\ collected[8] \in Nat
        /\ collected[9] \in Nat /\ collected[10] \in Nat /\ collected[11] \in Nat /\ collected[12] \in Nat /\ collected[13] \in Nat
    BY <1>0, ThirteenEntries
  <2>. QED
    BY <2>1, Zenon
<1>3. PICK c \in Nat, t \in Nat : c = count /\ t = TotalBudget
  BY <1>0
<1>s. t = b1 + b2 + b3 + b4 + b5 + b6 + b7 + b8 + b9 + b10 + b11 + b12 + b13
  BY <1>1, <1>3 DEF TotalBudget
<1>4. CASE t = 0
  <2>1. b1 = 0
    BY <1>s, <1>4
  <2>2. (count * 30) \div 100 = 0
    BY <1>1, <2>1 DEF Budget, Shares
  <2>. QED
    BY <1>0, <1>2, <2>2
<1>5. CASE t > 0
  <2>1. b1 * c <= e1 * t + t
    BY <1>1, <1>2, <1>3, <1>5, Yields, ThirteenEntries DEF MarkBefore
  <2>2. e1 * t + b2 * c <= e2 * t + t
    BY <1>1, <1>2, <1>3, <1>5, Yields, ThirteenEntries DEF MarkBefore
  <2>3. e2 * t + b3 * c <= e3 * t + t
    BY <1>1, <1>2, <1>3, <1>5, Yields, ThirteenEntries DEF MarkBefore
  <2>4. e3 * t + b4 * c <= e4 * t + t
    BY <1>1, <1>2, <1>3, <1>5, Yields, ThirteenEntries DEF MarkBefore
  <2>5. e4 * t + b5 * c <= e5 * t + t
    BY <1>1, <1>2, <1>3, <1>5, Yields, ThirteenEntries DEF MarkBefore
  <2>6. e5 * t + b6 * c <= e6 * t + t
    BY <1>1, <1>2, <1>3, <1>5, Yields, ThirteenEntries DEF MarkBefore
  <2>7. e6 * t + b7 * c <= e7 * t + t
    BY <1>1, <1>2, <1>3, <1>5, Yields, ThirteenEntries DEF MarkBefore
  <2>8. e7 * t + b8 * c <= e8 * t + t
    BY <1>1, <1>2, <1>3, <1>5, Yields, ThirteenEntries DEF MarkBefore
  <2>9. e8 * t + b9 * c <= e9 * t + t
    BY <1>1, <1>2, <1>3, <1>5, Yields, ThirteenEntries DEF MarkBefore
  <2>10. e9 * t + b10 * c <= e10 * t + t
    BY <1>1, <1>2, <1>3, <1>5, Yields, ThirteenEntries DEF MarkBefore
  <2>11. e10 * t + b11 * c <= e11 * t + t
    BY <1>1, <1>2, <1>3, <1>5, Yields, ThirteenEntries DEF MarkBefore
  <2>12. e11 * t + b12 * c <= e12 * t + t
    BY <1>1, <1>2, <1>3, <1>5, Yields, ThirteenEntries DEF MarkBefore
  <2>13. e12 * t + b13 * c <= e13 * t + t
    BY <1>1, <1>2, <1>3, <1>5, Yields, ThirteenEntries DEF MarkBefore
  <2>14. t * c <= e13 * t + 13 * t
    BY <2>1, <2>2, <2>3, <2>4, <2>5, <2>6, <2>7,
       <2>8, <2>9, <2>10, <2>11, <2>12, <2>13, <1>s
  <2>15. c <= e13 + 13
    BY <1>5, <2>14
  <2>. QED
    BY <1>2, <1>3, <2>15
<1>. QED
  BY <1>4, <1>5

\* The result of generate_dataset is never longer than asked for, and at most one
\* example per entry shorter.
THEOREM ShortByRounding == DatasetSpec => []ShortByRoundingOnly
<1>1. DatasetInv => ShortByRoundingOnly
  <2>. SUFFICES ASSUME DatasetInv, examples # <<>>
                PROVE  examples[13] <= count /\ count <= examples[13] + 13
    BY ThirteenEntries DEF ShortByRoundingOnly
  <2>1. entry > 13 /\ examples = Trim(collected)
    BY DEF DatasetInv
  <2>2. 13 \in Entries
    BY ThirteenEntries
  <2>3. /\ count \in Nat /\ collected[13] \in Nat
        /\ examples[13] = IF collected[13] < count THEN collected[13] ELSE count
    BY <2>1, <2>2, Marks DEF Trim
  <2>. QED
    BY <2>1, <2>3, YieldsEnough
<1>. QED
  BY <1>1, DatasetInitial, DatasetStep, PTL DEF DatasetSpec

\* The ten entries before the last category leave it room.
LEMMA TenEntriesFit ==
  ASSUME DatasetInv, entry > 13, count >= 23
  PROVE  /\ collected[10] < count
         /\ \A i \in Categories : MarkBefore(collected, i) < collected[i]
         /\ \A i \in Categories : MarkBefore(collected, i) <= collected[10]
<1>0. count \in Nat /\ TotalBudget \in Nat /\ \A i \in Entries : collected[i] \in Nat
  BY Marks, Budgets
<1>1. PICK b1, b2, b3, b4, b5, b6, b7, b8, b9, b10, b11, b12, b13 \in Nat :
        /\ b1 = Budget(1) /\ b2 = Budget(2) /\ b3 = Budget(3) /\ b4 = Budget(4)
        /\ b5 = Budget(5) /\ b6 = Budget(6) /\ b7 = Budget(7) /\ b8 = Budget(8)
        /\ b9 = Budget(9) /\ b10 = Budget(10) /\ b11 = Budget(11) /\ b12 = Budget(12) /\ b13 = Budget(13)
  <2>1. /\ Budget(1) \in Nat /\ Budget(2) \in Nat /\ Budget(3) \in Nat /\ Budget(4) \in Nat
        /\ Budget(5) \in Nat /\ Budget(6) \in Nat /\ Budget(7) \in Nat /\ Budget(8) \in Nat
        /\ Budget(9) \in Nat /\ Budget(10) \in Nat /\ Budget(11) \in Nat /\ Budget(12) \in Nat /\ Budget(13) \in Nat
    BY <1>0, Budgets, ThirteenEntries
  <2>. QED
    BY <2>1, Zenon
<1>2. PICK e1, e2, e3, e4, e5, e6, e7, e8, e9, e10, e11 \in Nat :
        /\ e1 = collected[1] /\ e2 = collected[2] /\ e3 = collected[3] /\ e4 = collected[4]
        /\ e5 = collected[5] /\ e6 = collected[6] /\ e7 = collected[7] /\ e8 = collected[8]
        /\ e9 = collected[9] /\ e10 = collected[10] /\ e11 = collected[11]
  <2>1. /\ collected[1] \in Nat /\ collected[2] \in Nat /\ collected[3] \in Nat /\ collected[4] \in Nat
        /\ collected[5] \in Nat /\ collected[6] \in Nat /\ collected[7] \in Nat /\ collected[8] \in Nat
        /\ collected[9] \in Nat /\ collected[10] \in Nat /\ collected[11] \in Nat
    BY <1>0, ThirteenEntries
  <2>. QED
    BY <2>1, Zenon
<1>3. PICK c \in Nat, t \in Nat : c = count /\ t = TotalBudget
  BY <1>0
<1>4. t = b1 + b2 + b3 + b4 + b5 + b6 + b7 + b8 + b9 + b10 + b11 + b12 + b13
  BY <1>1, <1>3 DEF TotalBudget
<1>5. /\ b1 = (c * 30) \div 100 /\ b2 = (c * 20) \div 100 /\ b3 = (c * 12) \div 100
      /\ b4 = (c * 8) \div 100 /\ b5 = (c * 8) \div 100 /\ b6 = (c * 6) \div 100
      /\ b7 = (c * 6) \div 100 /\ b8 = (c * 4) \div 100 /\ b9 = (c * 3) \div 100
      /\ b10 = (c * 2) \div 100 /\ b11 = (c * 1) \div 100
      /\ b12 = (c * 2) \div 100 /\ b13 = (c * 2) \div 100
  BY <1>1, <1>3 DEF Budget, Shares
<1>6. t > 0
  BY <1>0, <1>3, <1>4, <1>5
<1>7. e1 > 0 /\ (e1 = 1 \/ e1 * t <= b1 * c)
  BY <1>1, <1>2, <1>3, <1>6, Yields, ThirteenEntries DEF MarkBefore
<1>8. e2 > e1 /\ (e2 = e1 + 1 \/ e2 * t <= e1 * t + b2 * c)
  BY <1>1, <1>2, <1>3, <1>6, Yields, ThirteenEntries DEF MarkBefore
<1>9. e3 > e2 /\ (e3 = e2 + 1 \/ e3 * t <= e2 * t + b3 * c)
  BY <1>1, <1>2, <1>3, <1>6, Yields, ThirteenEntries DEF MarkBefore
<1>10. e4 > e3 /\ (e4 = e3 + 1 \/ e4 * t <= e3 * t + b4 * c)
  BY <1>1, <1>2, <1>3, <1>6, Yields, ThirteenEntries DEF MarkBefore
<1>11. e5 > e4 /\ (e5 = e4 + 1 \/ e5 * t <= e4 * t + b5 * c)
  BY <1>1, <1>2, <1>3, <1>6, Yields, ThirteenEntries DEF MarkBefore
<1>12. e6 > e5 /\ (e6 = e5 + 1 \/ e6 * t <= e5 * t + b6 * c)
  BY <1>1, <1>2, <1>3, <1>6, Yields, ThirteenEntries DEF MarkBefore
<1>13. e7 > e6 /\ (e7 = e6 + 1 \/ e7 * t <= e6 * t + b7 * c)
  BY <1>1, <1>2, <1>3, <1>6, Yields, ThirteenEntries DEF MarkBefore
<1>14. e8 > e7 /\ (e8 = e7 + 1 \/ e8 * t <= e7 * t + b8 * c)
  BY <1>1, <1>2, <1>3, <1>6, Yields, ThirteenEntries DEF MarkBefore
<1>15. e9 > e8 /\ (e9 = e8 + 1 \/ e9 * t <= e8 * t + b9 * c)
  BY <1>1, <1>2, <1>3, <1>6, Yields, ThirteenEntries DEF MarkBefore
<1>16. e10 > e9 /\ (e10 = e9 + 1 \/ e10 * t <= e9 * t + b10 * c)
  BY <1>1, <1>2, <1>3, <1>6, Yields, ThirteenEntries DEF MarkBefore
<1>17. e11 > e10 /\ (e11 = e10 + 1 \/ e11 * t <= e10 * t + b11 * c)
  BY <1>1, <1>2, <1>3, <1>6, Yields, ThirteenEntries DEF MarkBefore
<1>. DEFINE Fits == /\ e1 = 1 \/ e1 * t <= b1 * c
                    /\ e2 = e1 + 1 \/ e2 * t <= e1 * t + b2 * c
                    /\ e3 = e2 + 1 \/ e3 * t <= e2 * t + b3 * c
                    /\ e4 = e3 + 1 \/ e4 * t <= e3 * t + b4 * c
                    /\ e5 = e4 + 1 \/ e5 * t <= e4 * t + b5 * c
                    /\ e6 = e5 + 1 \/ e6 * t <= e5 * t + b6 * c
                    /\ e7 = e6 + 1 \/ e7 * t <= e6 * t + b7 * c
                    /\ e8 = e7 + 1 \/ e8 * t <= e7 * t + b8 * c
                    /\ e9 = e8 + 1 \/ e9 * t <= e8 * t + b9 * c
                    /\ e10 = e9 + 1 \/ e10 * t <= e9 * t + b10 * c
<1>18. Fits
  BY <1>7, <1>8, <1>9, <1>10, <1>11, <1>12, <1>13, <1>14, <1>15, <1>16
<1>19. ASSUME c >= 50 PROVE e10 < c
  <2>1. /\ b1 >= 1 /\ b2 >= 1 /\ b3 >= 1 /\ b4 >= 1 /\ b5 >= 1 /\ b6 >= 1 /\ b7 >= 1 /\ b8 >= 1 /\ b9 >= 1 /\ b10 >= 1
        /\ b12 >= 1 /\ b13 >= 1
    BY <1>5, <1>19
  <2>2. 100 * t <= 104 * c
    BY <1>4, <1>5
  <2>3. /\ b1 * c >= c /\ b2 * c >= c /\ b3 * c >= c /\ b4 * c >= c /\ b5 * c >= c
        /\ b6 * c >= c /\ b7 * c >= c /\ b8 * c >= c /\ b9 * c >= c /\ b10 * c >= c
    BY <2>1
  <2>4. 100 * (e1 * t) <= 100 * (b1 * c) + 4 * c
    BY <1>18, <2>2, <2>3
  <2>5. 100 * (e2 * t) <= 100 * (e1 * t) + 100 * (b2 * c) + 4 * c
    BY <1>18, <2>2, <2>3
  <2>6. 100 * (e3 * t) <= 100 * (e2 * t) + 100 * (b3 * c) + 4 * c
    BY <1>18, <2>2, <2>3
  <2>7. 100 * (e4 * t) <= 100 * (e3 * t) + 100 * (b4 * c) + 4 * c
    BY <1>18, <2>2, <2>3
  <2>8. 100 * (e5 * t) <= 100 * (e4 * t) + 100 * (b5 * c) + 4 * c
    BY <1>18, <2>2, <2>3
  <2>9. 100 * (e6 * t) <= 100 * (e5 * t) + 100 * (b6 * c) + 4 * c
    BY <1>18, <2>2, <2>3
  <2>10. 100 * (e7 * t) <= 100 * (e6 * t) + 100 * (b7 * c) + 4 * c
    BY <1>18, <2>2, <2>3
  <2>11. 100 * (e8 * t) <= 100 * (e7 * t) + 100 * (b8 * c) + 4 * c
    BY <1>18, <2>2, <2>3
  <2>12. 100 * (e9 * t) <= 100 * (e8 * t) + 100 * (b9 * c) + 4 * c
    BY <1>18, <2>2, <2>3
  <2>13. 100 * (e10 * t) <= 100 * (e9 * t) + 100 * (b10 * c) + 4 * c
    BY <1>18, <2>2, <2>3
  <2>14. 100 * (e10 * t) <= 100 * (b1 * c + b2 * c + b3 * c + b4 * c + b5 * c + b6 * c + b7 * c + b8 * c + b9 * c + b10 * c) + 40 * c
    BY <2>4, <2>5, <2>6, <2>7, <2>8, <2>9, <2>10, <2>11, <2>12, <2>13
  <2>15. b1 * c + b2 * c + b3 * c + b4 * c + b5 * c + b6 * c + b7 * c + b8 * c + b9 * c + b10 * c + 2 * c <= t * c
    <3>1. b1 + b2 + b3 + b4 + b5 + b6 + b7 + b8 + b9 + b10 + 2 <= t
      BY <1>4, <2>1
    <3>. DEFINE s == b1 + b2 + b3 + b4 + b5 + b6 + b7 + b8 + b9 + b10
    <3>2. s * c = b1 * c + b2 * c + b3 * c + b4 * c + b5 * c + b6 * c + b7 * c + b8 * c + b9 * c + b10 * c
      OBVIOUS
    <3>3. (s + 2) * c <= t * c
      BY <3>1
    <3>. QED
      BY <3>2, <3>3
  <2>16. e10 * t < t * c
    BY <1>19, <2>14, <2>15
  <2>. QED
    BY <1>6, <2>16
<1>20. ASSUME c < 50 PROVE e10 < c
  <2>1. \/ c = 23 \/ c = 24 \/ c = 25 \/ c = 26 \/ c = 27 \/ c = 28 \/ c = 29 \/ c = 30 \/ c = 31
        \/ c = 32 \/ c = 33 \/ c = 34 \/ c = 35 \/ c = 36 \/ c = 37 \/ c = 38 \/ c = 39 \/ c = 40
        \/ c = 41 \/ c = 42 \/ c = 43 \/ c = 44 \/ c = 45 \/ c = 46 \/ c = 47 \/ c = 48 \/ c = 49
    BY <1>3, <1>20
  <2>23. CASE c = 23
    BY <1>4, <1>5, <1>18, <2>23
  <2>24. CASE c = 24
    BY <1>4, <1>5, <1>18, <2>24
  <2>25. CASE c = 25
    BY <1>4, <1>5, <1>18, <2>25
  <2>26. CASE c = 26
    BY <1>4, <1>5, <1>18, <2>26
  <2>27. CASE c = 27
    BY <1>4, <1>5, <1>18, <2>27
  <2>28. CASE c = 28
    BY <1>4, <1>5, <1>18, <2>28
  <2>29. CASE c = 29
    BY <1>4, <1>5, <1>18, <2>29
  <2>30. CASE c = 30
    BY <1>4, <1>5, <1>18, <2>30
  <2>31. CASE c = 31
    BY <1>4, <1>5, <1>18, <2>31
  <2>32. CASE c = 32
    BY <1>4, <1>5, <1>18, <2>32
  <2>33. CASE c = 33
    BY <1>4, <1>5, <1>18, <2>33
  <2>34. CASE c = 34
    BY <1>4, <1>5, <1>18, <2>34
  <2>35. CASE c = 35
    BY <1>4, <1>5, <1>18, <2>35
  <2>36. CASE c = 36
    BY <1>4, <1>5, <1>18, <2>36
  <2>37. CASE c = 37
    BY <1>4, <1>5, <1>18, <2>37
  <2>38. CASE c = 38
    BY <1>4, <1>5, <1>18, <2>38
  <2>39. CASE c = 39
    BY <1>4, <1>5, <1>18, <2>39
  <2>40. CASE c = 40
    BY <1>4, <1>5, <1>18, <2>40
  <2>41. CASE c = 41
    BY <1>4, <1>5, <1>18, <2>41
  <2>42. CASE c = 42
    BY <1>4, <1>5, <1>18, <2>42
  <2>43. CASE c = 43
    BY <1>4, <1>5, <1>18, <2>43
  <2>44. CASE c = 44
    BY <1>4, <1>5, <1>18, <2>44
  <2>45. CASE c = 45
    BY <1>4, <1>5, <1>18, <2>45
  <2>46. CASE c = 46
    BY <1>4, <1>5, <1>18, <2>46
  <2>47. CASE c = 47
    BY <1>4, <1>5, <1>18, <2>47
  <2>48. CASE c = 48
    BY <1>4, <1>5, <1>18, <2>48
  <2>49. CASE c = 49
    BY <1>4, <1>5, <1>18, <2>49
  <2>. QED
    BY <2>1, <2>23, <2>24, <2>25, <2>26, <2>27, <2>28, <2>29, <2>30, <2>31,
       <2>32, <2>33, <2>34, <2>35, <2>36, <2>37, <2>38, <2>39, <2>40,
       <2>41, <2>42, <2>43, <2>44, <2>45, <2>46, <2>47, <2>48, <2>49
<1>21. e10 < c
  BY <1>19, <1>20
<1>22. \A i \in Categories : MarkBefore(collected, i) < collected[i] /\ MarkBefore(collected, i) <= collected[10]
  BY <1>2, <1>7, <1>8, <1>9, <1>10, <1>11, <1>12, <1>13, <1>14, <1>15, <1>16, <1>17 DEF Categories, MarkBefore
<1>. QED
  BY <1>2, <1>3, <1>21, <1>22

\* From 23 examples on, every category is represented in the result.
THEOREM EveryCategoryIsRepresented == DatasetSpec => []CategoriesRepresented
<1>1. DatasetInv => CategoriesRepresented
  <2>. SUFFICES ASSUME DatasetInv, examples # << >>, count >= 23, NEW i \in Categories
                PROVE  MarkBefore(examples, i) < examples[i]
    BY DEF CategoriesRepresented
  <2>1. entry > 13 /\ examples = Trim(collected)
    BY DEF DatasetInv
  <2>2. i \in Entries /\ i \in Nat /\ (i # 1 => i - 1 \in Entries)
    BY ThirteenEntries DEF Categories
  <2>3. /\ count \in Nat /\ collected[i] \in Nat /\ MarkBefore(collected, i) \in Nat
        /\ collected[10] \in Nat
    BY <2>1, <2>2, Marks, ThirteenEntries
  <2>4. /\ MarkBefore(collected, i) < collected[i] /\ MarkBefore(collected, i) <= collected[10]
        /\ collected[10] < count
    BY <2>1, TenEntriesFit
  <2>5. examples[i] = IF collected[i] < count THEN collected[i] ELSE count
    BY <2>1, <2>2 DEF Trim
  <2>6. MarkBefore(examples, i) = MarkBefore(collected, i)
    <3>1. CASE i = 1
      BY <3>1 DEF MarkBefore
    <3>2. CASE i # 1
      <4>1. collected[i - 1] = MarkBefore(collected, i)
        BY <3>2 DEF MarkBefore
      <4>2. examples[i - 1] = IF collected[i - 1] < count THEN collected[i - 1] ELSE count
        BY <2>1, <2>2, <3>2 DEF Trim
      <4>3. collected[i - 1] < count
        BY <2>3, <2>4, <4>1
      <4>. QED
        BY <3>2, <4>2, <4>3 DEF MarkBefore
    <3>. QED
      BY <3>1, <3>2
  <2>. QED
    BY <2>3, <2>4, <2>5, <2>6
<1>. QED
  BY <1>1, DatasetInitial, DatasetStep, PTL DEF DatasetSpec

-----------------------------------------------------------------------------
(***************************************************************************)
(* Scheduler: for any number of loops, callers of stop() and database errors. *)
(***************************************************************************)
USE SchedulerAssumption

\* While nobody called start() inside a stop(), a caller that still waits in stop()
\* finds the scheduler stopped when it goes on.
WaitingIsStopped ==
    ~overlapped => \A c \in Callers : stopping[c] # NoLoop => ~running

\* The inductive invariant.
SchedulerInv == SchedulerTypeOK /\ RunningHasLoop /\ SoleLoop /\ WaitingIsStopped

-----------------------------------------------------------------------------
\* The errors of a round stay within their bound.
LEMMA FaultedType ==
    ASSUME SchedulerTypeOK, NEW results \in [Jobs -> Results], Faulted(results)
    PROVE  errors' \in 0..MaxErrors
<1>. DEFINE bad == {j \in Jobs : results[j] # "success"}
<1>1. IsFiniteSet(Jobs)
  <2>1. IsFiniteSet({"monitor_checks"}) /\ IsFiniteSet({"trend_tracker"})
    BY FS_Singleton
  <2>2. Jobs = {"monitor_checks"} \cup {"trend_tracker"}
    BY DEF Jobs
  <2>. QED
    BY <2>1, <2>2, FS_Union
<1>2. IsFiniteSet(bad)
  BY <1>1, FS_Subset
<1>3. Cardinality(bad) \in Nat
  BY <1>2, FS_CardinalityType
<1>. QED
  BY <1>3 DEF Faulted, SchedulerTypeOK

\* A round leaves a result or what was there.
LEMMA RunAllType ==
    ASSUME SchedulerTypeOK, NEW results \in [Jobs -> Results], RunAll(results)
    PROVE  runs' \in [Jobs -> {"none", "success", "failed"}]
<1>. SUFFICES ASSUME NEW j \in Jobs
              PROVE  Records(runs[j], results[j]) \in {"none", "success", "failed"}
  BY DEF RunAll, SchedulerTypeOK
<1>. QED
  BY DEF Records, Results, SchedulerTypeOK

\* The scheduler is created stopped, without a task.
LEMMA SchedulerInitial == SchedulerInit => SchedulerInv
<1>. SUFFICES ASSUME SchedulerInit PROVE SchedulerInv
  OBVIOUS
<1>1. SchedulerTypeOK
  <2>1. errors \in 0..MaxErrors /\ beat \in 0..1
    BY DEF SchedulerInit
  <2>2. runs \in [Jobs -> {"none", "success", "failed"}]
    BY DEF SchedulerInit
  <2>3. loop \in [Loops -> LoopStates] /\ stopping \in [Callers -> Loops \cup {NoLoop}]
    BY DEF SchedulerInit, LoopStates
  <2>. QED
    BY <2>1, <2>2, <2>3 DEF SchedulerInit, SchedulerTypeOK
<1>2. RunningHasLoop /\ SoleLoop /\ WaitingIsStopped
  BY DEF SchedulerInit, RunningHasLoop, SoleLoop, WaitingIsStopped, Live
<1>. QED
  BY <1>1, <1>2 DEF SchedulerInv

\* The loops that look at self._running are either new or asleep, a crashed one is
\* neither.
USE DEF Live, LoopStates

\* A round ends with the loop asleep or dead, and starts and stops nothing.
LEMMA RoundInv == ASSUME SchedulerInv, NEW l \in Loops, Round(l) PROVE SchedulerInv'
<1>1. PICK results \in [Jobs -> Results] :
          /\ RunAll(results) /\ Faulted(results)
          /\ \/ loop' = [loop EXCEPT ![l] = "crashed"] /\ beat' = beat
             \/ loop' = [loop EXCEPT ![l] = "sleeping"] /\ beat' = 1 - beat
  BY DEF Round
<1>2. SchedulerTypeOK'
  BY <1>1, FaultedType, RunAllType DEF SchedulerInv, SchedulerTypeOK, Round
<1>3. RunningHasLoop'
  BY <1>1 DEF SchedulerInv, SchedulerTypeOK, RunningHasLoop, Round
<1>4. SoleLoop' /\ WaitingIsStopped'
  BY <1>1 DEF SchedulerInv, SchedulerTypeOK, SoleLoop, WaitingIsStopped, Round
<1>. QED
  BY <1>2, <1>3, <1>4 DEF SchedulerInv

\* A loop that leaves, or takes its cancellation, was not the latest of a running
\* scheduler.
LEMMA EndInv ==
    ASSUME SchedulerInv, NEW l \in Loops, LeaveLoop(l) \/ TakeCancellation(l)
    PROVE  SchedulerInv'
<1>. USE DEF LeaveLoop, TakeCancellation
<1>1. SchedulerTypeOK'
  BY DEF SchedulerInv, SchedulerTypeOK
<1>2. RunningHasLoop'
  BY DEF SchedulerInv, SchedulerTypeOK, RunningHasLoop
<1>3. SoleLoop' /\ WaitingIsStopped'
  BY DEF SchedulerInv, SchedulerTypeOK, SoleLoop, WaitingIsStopped
<1>. QED
  BY <1>1, <1>2, <1>3 DEF SchedulerInv

\* run_all_monitors outside the loop leaves results only.
LEMMA ManualRunInv == ASSUME SchedulerInv, ManualRun PROVE SchedulerInv'
<1>1. PICK results \in [Jobs -> Results] : RunAll(results) /\ Faulted(results)
  BY DEF ManualRun
<1>2. SchedulerTypeOK'
  BY <1>1, FaultedType, RunAllType DEF SchedulerInv, SchedulerTypeOK, ManualRun
<1>3. RunningHasLoop' /\ SoleLoop' /\ WaitingIsStopped'
  BY DEF SchedulerInv, RunningHasLoop, SoleLoop, WaitingIsStopped, ManualRun
<1>. QED
  BY <1>2, <1>3 DEF SchedulerInv

\* start() makes its new loop the one stop() will reach.
LEMMA StartInv == ASSUME SchedulerInv, NEW l \in Loops, Start(l) PROVE SchedulerInv'
<1>. USE DEF Start, StartAllowed, StartCreates
<1>1. SchedulerTypeOK'
  BY DEF SchedulerInv, SchedulerTypeOK
<1>2. RunningHasLoop'
  BY DEF SchedulerInv, SchedulerTypeOK, RunningHasLoop
<1>3. SoleLoop' /\ WaitingIsStopped'
  BY DEF SchedulerInv, SchedulerTypeOK, SoleLoop, WaitingIsStopped
<1>. QED
  BY <1>1, <1>2, <1>3 DEF SchedulerInv

\* stop() reaches the sole live loop, if there is one.
LEMMA StopInv == ASSUME SchedulerInv, NEW c \in Callers, Stop(c) PROVE SchedulerInv'
<1>1. ~running'
  BY DEF Stop
<1>2. RunningHasLoop' /\ WaitingIsStopped'
  BY <1>1 DEF RunningHasLoop, WaitingIsStopped
<1>3. CASE UNCHANGED loop
  <2>1. SchedulerTypeOK'
    BY <1>3 DEF SchedulerInv, SchedulerTypeOK, Stop
  <2>2. task = NoLoop \/ loop[task] \notin Live
    BY <1>3 DEF SchedulerInv, SchedulerTypeOK, Stop
  <2>3. SoleLoop'
    BY <1>3, <2>2 DEF SchedulerInv, SchedulerTypeOK, SoleLoop, Stop
  <2>. QED
    BY <1>2, <2>1, <2>3 DEF SchedulerInv
<1>4. CASE /\ task \in Loops
           /\ loop' = [loop EXCEPT ![task] = "cancelled"]
           /\ stopping' = [stopping EXCEPT ![c] = task]
           /\ task' = task
  <2>1. SchedulerTypeOK'
    BY <1>4 DEF SchedulerInv, SchedulerTypeOK, Stop
  <2>2. SoleLoop'
    BY <1>4 DEF SchedulerInv, SchedulerTypeOK, SoleLoop, Stop
  <2>. QED
    BY <1>2, <2>1, <2>2 DEF SchedulerInv
<1>. QED
  BY <1>3, <1>4 DEF SchedulerInv, SchedulerTypeOK, Stop

\* When stop() goes on, the loop it waited for has ended.
LEMMA StopReturnsInv == ASSUME SchedulerInv, NEW c \in Callers, StopReturns(c) PROVE SchedulerInv'
<1>. USE DEF StopReturns
<1>1. SchedulerTypeOK'
  BY DEF SchedulerInv, SchedulerTypeOK
<1>2. RunningHasLoop'
  BY DEF SchedulerInv, SchedulerTypeOK, RunningHasLoop
<1>3. SoleLoop' /\ WaitingIsStopped'
  BY DEF SchedulerInv, SchedulerTypeOK, SoleLoop, WaitingIsStopped
<1>. QED
  BY <1>1, <1>2, <1>3 DEF SchedulerInv

\* Every step keeps the inductive invariant of the scheduler.
LEMMA SchedulerStep == SchedulerInv /\ [SchedulerNext]_schedulerVars => SchedulerInv'
<1>. SUFFICES ASSUME SchedulerInv, [SchedulerNext]_schedulerVars PROVE SchedulerInv'
  OBVIOUS
<1>1. CASE UNCHANGED schedulerVars
  BY <1>1 DEF schedulerVars, SchedulerInv, SchedulerTypeOK, RunningHasLoop, SoleLoop, WaitingIsStopped
<1>2. CASE SchedulerNext
  BY <1>2, ManualRunInv, StartInv, RoundInv, EndInv, StopInv, StopReturnsInv DEF SchedulerNext
<1>. QED
  BY <1>1, <1>2

\* The scheduler's inductive invariant holds.
LEMMA SchedulerInvariance == SchedulerSpec => []SchedulerInv
BY SchedulerInitial, SchedulerStep, PTL DEF SchedulerSpec

-----------------------------------------------------------------------------
\* The variables keep their types, and the error bound of the model is respected.
THEOREM SchedulerTypeCorrect == SchedulerSpec => []SchedulerTypeOK
BY SchedulerInvariance, PTL DEF SchedulerInv

\* A running scheduler has the loop of its last start(), and nobody cancelled it.
THEOREM SchedulerHasLoop == SchedulerSpec => []RunningHasLoop
BY SchedulerInvariance, PTL DEF SchedulerInv

\* Without a start() inside a stop() at most one loop lives, the one stop() reaches.
THEOREM SchedulerSoleLoop == SchedulerSpec => []SoleLoop
BY SchedulerInvariance, PTL DEF SchedulerInv
=============================================================================
