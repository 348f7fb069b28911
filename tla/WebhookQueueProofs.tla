------------------------- MODULE WebhookQueueProofs -------------------------
(***************************************************************************)
(* Proofs about the webhook queue, for every number of deliveries and      *)
(* pollers, every MaxRetries and every backoff table.  What needs no lock  *)
(* is proved for any Pollers and Admins; the contract needs a single       *)
(* poller and one retry at a time.                                         *)
(***************************************************************************)
EXTENDS WebhookQueue, TLAPS

USE WebhookAssumption

\* The inductive invariant: a success is recorded by a poller that holds an
\* accepted delivery, and a count is written by one with an attempt left.
IInv == TypeOK /\ PollerInv /\ DeliveredWasAccepted /\ StampFollowsStatus

\* A backoff is a number of seconds.
LEMMA BackoffIsNat ==
    ASSUME NEW n \in Nat, NEW e \in Nat
    PROVE  Remaining(CalculateBackoff(n), e) \in Nat
<1>1. Len(Backoff) \in Nat \ {0}
  OBVIOUS
<1>2. CalculateBackoff(n) \in Nat
  BY <1>1 DEF CalculateBackoff
<1>. QED
  BY <1>2 DEF Remaining

\* A sleeping poller and a recovered one are pollers.
LEMMA IdlePollers ==
    /\ Sleeping \in Poller
    /\ [Sleeping EXCEPT !.pc = "recovered"] \in Poller
    /\ Sleeping.pc = "sleeping"
    /\ [Sleeping EXCEPT !.pc = "recovered"].pc = "recovered"
BY DEF Sleeping, Poller, NoDelivery

\* The initial states satisfy the invariant.
LEMMA InitInv == Init => IInv
<1>. SUFFICES ASSUME Init PROVE IInv
  OBVIOUS
<1>1. TypeOK
  <2>1. 0 \in 0..MaxRetries /\ 0 \in 0..MaxRequeues /\ 0 \in 0..MaxAborts
    BY DEF WebhookAssumption
  <2>. QED
    BY <2>1, IdlePollers DEF Init, TypeOK, Status
<1>2. PollerInv
  BY IdlePollers DEF Init, PollerInv, WebhookAssumption
<1>. QED
  BY <1>1, <1>2 DEF Init, IInv, DeliveredWasAccepted, StampFollowsStatus

\* Enqueueing touches no row that a poller holds.
LEMMA EnqueueInv ==
    ASSUME IInv, NEW d \in Deliveries, Enqueue(d)
    PROVE  IInv'
<1>1. TypeOK'
  BY DEF Enqueue, history, IInv, TypeOK, Status
<1>3. PollerInv'
  BY DEF Enqueue, history, IInv, TypeOK, PollerInv
<1>. QED
  BY <1>1, <1>3 DEF Enqueue, history, IInv, TypeOK, DeliveredWasAccepted, StampFollowsStatus

\* A retry that begins, or is lost, touches no row.
LEMMA RetryInv ==
    ASSUME IInv, NEW a \in Admins, AbortRetry(a) \/ \E d \in Deliveries : RetryDeadLetter(a, d)
    PROVE  IInv'
<1>1. CASE AbortRetry(a)
  <2>1. /\ admin' = [admin EXCEPT ![a] = NoDelivery] /\ aborts' \in 0..MaxAborts
        /\ UNCHANGED <<status, retry_count, failed_at, wait, poller, accepted, failures, requeues>>
    BY <1>1 DEF AbortRetry, rows, history, IInv, TypeOK
  <2>. QED
    BY <2>1 DEF IInv, TypeOK, PollerInv, DeliveredWasAccepted, StampFollowsStatus
<1>2. ASSUME NEW d \in Deliveries, RetryDeadLetter(a, d)
      PROVE  IInv'
  <2>1. /\ admin' = [admin EXCEPT ![a] = d] /\ requeues' \in 0..MaxRequeues
        /\ status[d] # "absent"
        /\ UNCHANGED <<status, retry_count, failed_at, wait, poller, accepted, failures, aborts>>
    BY <1>2 DEF RetryDeadLetter, rows, history, IInv, TypeOK
  <2>. QED
    BY <2>1 DEF IInv, TypeOK, PollerInv, DeliveredWasAccepted, StampFollowsStatus
<1>. QED
  BY <1>1, <1>2

\* Re-queueing a delivery clears its stamp and its count together.
LEMMA RequeueInv ==
    ASSUME IInv, NEW a \in Admins, RequeueCommit(a)
    PROVE  IInv'
<1>. DEFINE d == admin[a]
<1>1. /\ d \in Deliveries
      /\ status' = [status EXCEPT ![d] = "pending"]
      /\ retry_count' = [retry_count EXCEPT ![d] = 0]
      /\ wait' = [wait EXCEPT ![d] = 0]
      /\ failed_at' = [failed_at EXCEPT ![d] = FALSE]
      /\ failures' = [failures EXCEPT ![d] = 0]
      /\ admin' = [admin EXCEPT ![a] = NoDelivery]
      /\ UNCHANGED <<poller, accepted, requeues, aborts>>
  BY DEF RequeueCommit, IInv, TypeOK
<1>. HIDE DEF d
<1>2. TypeOK'
  BY <1>1 DEF IInv, TypeOK, Status
<1>3. PollerInv'
  BY <1>1 DEF IInv, TypeOK, PollerInv
<1>. QED
  BY <1>1, <1>2, <1>3 DEF IInv, TypeOK, DeliveredWasAccepted, StampFollowsStatus

\* Recovering stuck rows changes no status.
LEMMA RecoverInv ==
    ASSUME IInv, NEW p \in Pollers, RecoverPending(p)
    PROVE  IInv'
BY IdlePollers DEF RecoverPending, history, IInv, TypeOK, PollerInv, DeliveredWasAccepted,
                   StampFollowsStatus

\* A poller that starts a send holds a pending delivery, which has an attempt left.
LEMMA SelectInv ==
    ASSUME IInv, NEW p \in Pollers, SelectNext(p)
    PROVE  IInv'
<1>1. CASE poller' = [poller EXCEPT ![p] = Sleeping]
  BY <1>1, IdlePollers DEF SelectNext, rows, history, IInv, TypeOK, PollerInv,
                           DeliveredWasAccepted, StampFollowsStatus
<1>2. CASE \E d \in Deliveries :
             /\ Due(d)
             /\ poller' = [poller EXCEPT ![p] = [pc |-> "sending", id |-> d,
                                                 count |-> retry_count[d], elapsed |-> 0]]
  <2>1. PICK d \in Deliveries :
             /\ Due(d)
             /\ poller' = [poller EXCEPT ![p] = [pc |-> "sending", id |-> d,
                                                 count |-> retry_count[d], elapsed |-> 0]]
    BY <1>2
  <2>2. [pc |-> "sending", id |-> d, count |-> retry_count[d], elapsed |-> 0] \in Poller
    BY DEF IInv, TypeOK, Poller
  <2>3. retry_count[d] < MaxRetries /\ status[d] # "absent"
    BY <2>1 DEF IInv, PollerInv, Due
  <2>4. UNCHANGED <<status, retry_count, failed_at, wait, admin, accepted, failures, requeues, aborts>>
    BY DEF SelectNext, rows, history
  <2>. QED
    BY <2>1, <2>2, <2>3, <2>4 DEF IInv, TypeOK, PollerInv, DeliveredWasAccepted, StampFollowsStatus
<1>. QED
  BY <1>1, <1>2 DEF SelectNext

\* A sending poller that turns to pc, an accepted delivery being noted.
LEMMA AnswerInv ==
    ASSUME IInv, NEW p \in Pollers, NEW pc \in {"sent_ok", "sent_failed"},
           poller[p].pc = "sending",
           [poller[p] EXCEPT !.pc = pc] \in Poller,
           poller' = [poller EXCEPT ![p] = [poller[p] EXCEPT !.pc = pc]],
           accepted' \in {accepted, accepted \cup {poller[p].id}},
           pc = "sent_ok" => poller[p].id \in accepted',
           failures' \in [Deliveries -> 0..MaxRetries],
           UNCHANGED <<status, retry_count, failed_at, wait, admin, requeues, aborts>>
    PROVE  IInv'
<1>1. poller[p].id \in Deliveries
  BY DEF IInv, PollerInv
<1>2. TypeOK'
  <2>1. poller' \in [Pollers -> Poller]
    BY DEF IInv, TypeOK
  <2>2. accepted' \subseteq Deliveries
    BY <1>1 DEF IInv, TypeOK
  <2>. QED
    BY <2>1, <2>2 DEF IInv, TypeOK
<1>3. \A q \in Pollers : /\ poller'[q].id = poller[q].id /\ poller'[q].count = poller[q].count
                         /\ poller'[q].pc = IF q = p THEN pc ELSE poller[q].pc
  BY DEF IInv, TypeOK, Poller
<1>4. PollerInv'
  BY <1>3 DEF IInv, PollerInv
<1>. QED
  BY <1>2, <1>4 DEF IInv, DeliveredWasAccepted, StampFollowsStatus

\* An answer moves the poller on and is noted in the history.
LEMMA SendInv ==
    ASSUME IInv, NEW p \in Pollers, SendAccepted(p) \/ SendFails(p)
    PROVE  IInv'
<1>1. CASE SendAccepted(p)
  <2>1. [poller[p] EXCEPT !.pc = "sent_ok"] \in Poller
    BY DEF IInv, TypeOK, Poller
  <2>2. poller' = [poller EXCEPT ![p] = [poller[p] EXCEPT !.pc = "sent_ok"]]
    BY <1>1 DEF SendAccepted, IInv, TypeOK
  <2>3. poller[p].id \in Deliveries
    BY <1>1 DEF SendAccepted, IInv, PollerInv
  <2>4. UNCHANGED <<rows, failures, admin, requeues, aborts>>
        /\ accepted' = accepted \cup {poller[p].id}
        /\ poller[p].pc = "sending"
    BY <1>1, Zenon DEF SendAccepted
  <2>5. UNCHANGED <<status, retry_count, failed_at, wait, admin, failures, requeues, aborts>>
    BY <2>4 DEF rows
  <2>6. failures' \in [Deliveries -> 0..MaxRetries]
    BY <2>5 DEF IInv, TypeOK
  <2>7. accepted' \in {accepted, accepted \cup {poller[p].id}} /\ poller[p].id \in accepted'
    BY <2>4
  <2>. QED
    BY <2>1, <2>2, <2>4, <2>5, <2>6, <2>7, AnswerInv
<1>2. CASE SendFails(p)
  <2>1. [poller[p] EXCEPT !.pc = "sent_failed"] \in Poller
    BY DEF IInv, TypeOK, Poller
  <2>2. poller' = [poller EXCEPT ![p] = [poller[p] EXCEPT !.pc = "sent_failed"]]
    BY <1>2 DEF SendFails, IInv, TypeOK
  <2>3. failures' \in [Deliveries -> 0..MaxRetries]
    <3>. DEFINE d == poller[p].id
                k == IF failures[d] < MaxRetries THEN failures[d] + 1 ELSE failures[d]
    <3>1. d \in Deliveries
      BY <1>2 DEF SendFails, IInv, PollerInv
    <3>2. k \in 0..MaxRetries
      BY <3>1 DEF IInv, TypeOK
    <3>3. failures' = [failures EXCEPT ![d] = k]
      BY <1>2, <3>1 DEF SendFails, IInv, TypeOK
    <3>. HIDE DEF k
    <3>. QED
      BY <3>2, <3>3 DEF IInv, TypeOK
  <2>4. UNCHANGED <<rows, accepted, admin, requeues, aborts>> /\ poller[p].pc = "sending"
    BY <1>2, Zenon DEF SendFails
  <2>5. UNCHANGED <<status, retry_count, failed_at, wait, admin, accepted, requeues, aborts>>
    BY <2>4 DEF rows
  <2>6. accepted' \in {accepted, accepted \cup {poller[p].id}}
    BY <2>5
  <2>. QED
    BY <2>1, <2>2, <2>3, <2>4, <2>5, <2>6, AnswerInv
<1>. QED
  BY <1>1, <1>2

\* Success is recorded only of what was accepted.
LEMMA SuccessInv ==
    ASSUME IInv, NEW p \in Pollers, RecordSuccess(p)
    PROVE  IInv'
<1>1. poller[p].id \in Deliveries /\ poller[p].id \in accepted
  BY DEF RecordSuccess, IInv, PollerInv
<1>. QED
  BY <1>1, IdlePollers DEF RecordSuccess, history, IInv, TypeOK, Status, PollerInv,
                           DeliveredWasAccepted, StampFollowsStatus

\* A failure is recorded with a count that leaves an attempt, or as a dead letter.
LEMMA FailureInv ==
    ASSUME IInv, NEW p \in Pollers, RecordFailure(p)
    PROVE  IInv'
<1>. DEFINE d == poller[p].id
            n == poller[p].count + 1
<1>1. d \in Deliveries /\ poller[p].count \in Nat /\ poller[p].count < MaxRetries
        /\ poller[p].elapsed \in Nat /\ status[d] # "absent"
  BY DEF RecordFailure, IInv, TypeOK, PollerInv, Poller
<1>2. n \in 1..MaxRetries
  BY <1>1
<1>3. /\ retry_count' = [retry_count EXCEPT ![d] = n]
      /\ poller' = [poller EXCEPT ![p] = Sleeping]
      /\ UNCHANGED <<admin, accepted, failures, requeues, aborts>>
  BY DEF RecordFailure, history
<1>6. retry_count' \in [Deliveries -> 0..MaxRetries]
  <2>1. n \in 0..MaxRetries
    BY <1>2
  <2>. HIDE WebhookAssumption DEF n, d
  <2>. QED
    BY <1>3, <2>1 DEF IInv, TypeOK
<1>4. CASE GivesUp(n)
  <2>1. /\ status' = [status EXCEPT ![d] = "dead_letter"]
        /\ failed_at' = [failed_at EXCEPT ![d] = TRUE]
        /\ wait' = wait
    BY <1>4 DEF RecordFailure
  <2>. HIDE DEF d, n
  <2>2. TypeOK'
    <3>1. status' \in [Deliveries -> Status]
      BY <2>1 DEF IInv, TypeOK, Status
    <3>2. failed_at' \in [Deliveries -> BOOLEAN]
      BY <2>1 DEF IInv, TypeOK
    <3>3. retry_count' \in [Deliveries -> 0..MaxRetries]
      BY <1>6
    <3>4. poller' \in [Pollers -> Poller]
      BY <1>3, IdlePollers DEF IInv, TypeOK
    <3>. QED
      BY <1>3, <2>1, <3>1, <3>2, <3>3, <3>4 DEF IInv, TypeOK
  <2>3. PollerInv'
    BY <1>1, <1>2, <1>3, <2>1, IdlePollers DEF IInv, TypeOK, PollerInv
  <2>. QED
    BY <1>1, <1>3, <2>1, <2>2, <2>3
       DEF IInv, TypeOK, DeliveredWasAccepted, StampFollowsStatus
<1>5. CASE ~GivesUp(n)
  <2>1. wait' = [wait EXCEPT ![d] = Remaining(CalculateBackoff(n), poller[p].elapsed)]
          /\ UNCHANGED <<status, failed_at>>
    BY <1>5 DEF RecordFailure
  <2>2. Remaining(CalculateBackoff(n), poller[p].elapsed) \in Nat
    <3>1. n \in Nat
      BY <1>2
    <3>. HIDE DEF n
    <3>. QED
      BY <1>1, <3>1, BackoffIsNat
  <2>3. n < MaxRetries
    BY <1>2, <1>5 DEF GivesUp
  <2>. HIDE DEF d, n
  <2>4. TypeOK'
    <3>1. wait' \in [Deliveries -> Nat \cup {Null}]
      <4>. DEFINE v == Remaining(CalculateBackoff(n), poller[p].elapsed)
      <4>1. v \in Nat /\ wait' = [wait EXCEPT ![d] = v]
        BY <2>1, <2>2
      <4>. HIDE DEF v
      <4>. QED
        BY <4>1 DEF IInv, TypeOK
    <3>2. retry_count' \in [Deliveries -> 0..MaxRetries]
      BY <1>6
    <3>3. poller' \in [Pollers -> Poller]
      BY <1>3, IdlePollers DEF IInv, TypeOK
    <3>. QED
      BY <1>3, <2>1, <3>1, <3>2, <3>3 DEF IInv, TypeOK
  <2>5. PollerInv'
    BY <1>1, <1>2, <1>3, <2>1, <2>3, IdlePollers DEF IInv, TypeOK, PollerInv
  <2>. QED
    BY <1>3, <2>1, <2>4, <2>5 DEF IInv, DeliveredWasAccepted, StampFollowsStatus
<1>. QED
  BY <1>4, <1>5

\* A lost iteration leaves the rows as they are.
LEMMA AbortInv ==
    ASSUME IInv, NEW p \in Pollers, Abort(p)
    PROVE  IInv'
BY IdlePollers DEF Abort, rows, history, IInv, TypeOK, PollerInv, DeliveredWasAccepted,
                   StampFollowsStatus

\* Time changes only clocks.
LEMMA TickInv ==
    ASSUME IInv, Tick
    PROVE  IInv'
<1>1. wait' \in [Deliveries -> Nat \cup {Null}]
  <2>1. wait' = [d \in Deliveries |-> IF wait[d] \in {0, Null} THEN wait[d] ELSE wait[d] - 1]
    BY DEF Tick
  <2>2. \A d \in Deliveries : wait[d] \in Nat \cup {Null}
    BY DEF IInv, TypeOK
  <2>. QED
    BY <2>1, <2>2
<1>2. poller' \in [Pollers -> Poller]
  <2>1. ASSUME NEW q \in Pollers, poller[q].pc = "sending"
        PROVE  [poller[q] EXCEPT !.elapsed = @ + 1] \in Poller
    <3>1. poller[q].elapsed < MaxSendTime /\ poller[q].elapsed \in 0..MaxSendTime
      <4>1. poller[q] \in Poller
        BY DEF IInv, TypeOK
      <4>. QED
        BY <2>1, <4>1 DEF Tick, Poller
    <3>2. poller[q].elapsed + 1 \in 0..MaxSendTime
      BY <3>1
    <3>3. poller[q] \in Poller
      BY DEF IInv, TypeOK
    <3>. QED
      BY <3>2, <3>3 DEF Poller
  <2>. QED
    BY <2>1 DEF Tick, IInv, TypeOK
<1>3. \A q \in Pollers : /\ poller'[q].pc = poller[q].pc /\ poller'[q].id = poller[q].id
                         /\ poller'[q].count = poller[q].count
  BY DEF Tick, IInv, TypeOK, Poller
<1>. QED
  BY <1>1, <1>2, <1>3 DEF Tick, history, IInv, TypeOK, PollerInv, DeliveredWasAccepted,
                          StampFollowsStatus

\* Every step preserves the invariant.
LEMMA NextInv == IInv /\ [Next]_vars => IInv'
<1>. SUFFICES ASSUME IInv, [Next]_vars PROVE IInv'
  OBVIOUS
<1>1. CASE UNCHANGED vars
  BY <1>1 DEF vars, IInv, TypeOK, PollerInv, DeliveredWasAccepted, StampFollowsStatus
<1>2. ASSUME NEW d \in Deliveries, Enqueue(d) \/ \E a \in Admins : RetryDeadLetter(a, d)
      PROVE  IInv'
  BY <1>2, EnqueueInv, RetryInv
<1>4. ASSUME NEW a \in Admins, RequeueCommit(a) \/ AbortRetry(a)
      PROVE  IInv'
  BY <1>4, RequeueInv, RetryInv
<1>3. ASSUME NEW p \in Pollers, PollerStep(p) \/ Abort(p)
      PROVE  IInv'
  BY <1>3, RecoverInv, SelectInv, SendInv, SuccessInv, FailureInv, AbortInv DEF PollerStep
<1>. QED
  BY <1>1, <1>2, <1>3, <1>4, TickInv DEF Next

\* The queue's rows and its pollers keep the inductive invariant.
THEOREM InductiveInvariant == Spec => []IInv
BY InitInv, NextInv, PTL DEF Spec

\* Every reachable state is well typed: no retry_count passes MaxRetries.
THEOREM TypeCorrect == Spec => []TypeOK
<1>1. IInv => TypeOK
  BY DEF IInv
<1>. QED
  BY <1>1, InductiveInvariant, PTL

\* A poller always holds a queued delivery with an attempt left, and so does a
\* pending row, for any number of pollers.
THEOREM PollersHoldWork == Spec => []PollerInv
<1>1. IInv => PollerInv
  BY DEF IInv
<1>. QED
  BY <1>1, InductiveInvariant, PTL

\* delivered means accepted by the endpoint, for any number of pollers.
THEOREM DeliveredMeansAccepted == Spec => []DeliveredWasAccepted
<1>1. IInv => DeliveredWasAccepted
  BY DEF IInv
<1>. QED
  BY <1>1, InductiveInvariant, PTL

\* A dead letter is stamped and a pending row is not, for any number of pollers.
THEOREM StampsFollow == Spec => []StampFollowsStatus
<1>1. IInv => StampFollowsStatus
  BY DEF IInv
<1>. QED
  BY <1>1, InductiveInvariant, PTL

-----------------------------------------------------------------------------
(* Any number of pollers, until an administrator comes in. *)

Holds(p) == poller[p].pc \in {"sending", "sent_ok", "sent_failed"}

\* A delivery that nobody put back is not given up before MaxRetries of its sends failed.
NeverGivenUpEarly ==
    requeues = 0 =>
        \A d \in Deliveries :
            /\ retry_count[d] <= failures[d]
            /\ status[d] = "dead_letter" => failures[d] = MaxRetries

\* What a poller read, however stale, and what it will write is covered by failures.
CoveredInv ==
    /\ NeverGivenUpEarly
    /\ requeues = 0 =>
         /\ \A p \in Pollers :
              Holds(p) => /\ poller[p].count <= failures[poller[p].id]
                          /\ poller[p].pc = "sent_failed" =>
                               poller[p].count < failures[poller[p].id]
         /\ \A a \in Admins : admin[a] = NoDelivery

\* Steps that write no count: no row is given up, no failure is forgotten, and a poller
\* that still holds a delivery learnt nothing new about it.
LEMMA QuietCovered ==
    ASSUME IInv, CoveredInv, requeues' = requeues,
           retry_count' = retry_count, failures' = failures,
           \A d \in Deliveries : status'[d] = "dead_letter" => status[d] = "dead_letter",
           \A p \in Pollers :
              Holds(p)' => /\ Holds(p) /\ poller'[p].id = poller[p].id
                           /\ poller'[p].count = poller[p].count
                           /\ poller'[p].pc = "sent_failed" => poller[p].pc = "sent_failed",
           \A a \in Admins : admin[a] = NoDelivery => admin'[a] = NoDelivery
    PROVE  CoveredInv'
<1>1. NeverGivenUpEarly'
  BY DEF CoveredInv, NeverGivenUpEarly
<1>. QED
  BY <1>1 DEF CoveredInv

\* A send that fails is one failure more, up to the maximum, and so more than were read.
LEMMA FailedSendCovered ==
    ASSUME IInv, CoveredInv, NEW p \in Pollers, SendFails(p)
    PROVE  CoveredInv'
<1>. DEFINE d == poller[p].id
            k == IF failures[d] < MaxRetries THEN failures[d] + 1 ELSE failures[d]
<1>1. /\ d \in Deliveries /\ poller[p].count \in Nat /\ poller[p].count < MaxRetries
      /\ failures \in [Deliveries -> 0..MaxRetries]
      /\ retry_count \in [Deliveries -> 0..MaxRetries]
      /\ UNCHANGED <<status, retry_count, admin, requeues>> /\ Holds(p)
  BY DEF SendFails, rows, Holds, IInv, TypeOK, PollerInv, Poller
<1>2. failures' = [failures EXCEPT ![d] = k]
  BY <1>1 DEF SendFails
<1>3. \A q \in Pollers : /\ Holds(q)' => Holds(q)
                         /\ poller'[q].id = poller[q].id /\ poller'[q].count = poller[q].count
                         /\ q # p => poller'[q].pc = poller[q].pc
  BY DEF SendFails, Holds, IInv, TypeOK, Poller
<1>4. \A q \in Pollers : Holds(q) => poller[q].id \in Deliveries /\ poller[q].count \in Nat
  BY DEF Holds, IInv, TypeOK, PollerInv, Poller
<1>5. \A e \in Deliveries : /\ failures[e] \in Nat /\ failures[e] <= MaxRetries
                            /\ failures'[e] \in Nat /\ failures'[e] <= MaxRetries
                            /\ failures[e] <= failures'[e]
                            /\ e = d => failures'[e] = k
  BY <1>1, <1>2
<1>6. NeverGivenUpEarly'
  BY <1>1, <1>5 DEF CoveredInv, NeverGivenUpEarly
<1>7. ASSUME requeues' = 0, NEW q \in Pollers, Holds(q)'
      PROVE  /\ poller'[q].count <= failures'[poller'[q].id]
             /\ poller'[q].pc = "sent_failed" => poller'[q].count < failures'[poller'[q].id]
  <2>. DEFINE c == poller[q].count
              e == poller[q].id
  <2>1. /\ c \in Nat /\ e \in Deliveries /\ c <= failures[e]
        /\ poller[q].pc = "sent_failed" => c < failures[e]
    BY <1>1, <1>3, <1>4, <1>7 DEF CoveredInv
  <2>2. CASE q = p
    <3>1. c <= failures[d] /\ c < MaxRetries
      BY <1>1, <2>1, <2>2
    <3>2. c < k
      BY <1>1, <1>5, <2>1, <3>1
    <3>. QED
      BY <1>3, <1>5, <2>1, <2>2, <3>2
  <2>3. CASE q # p
    BY <1>3, <1>5, <2>1, <2>3
  <2>. QED
    BY <2>2, <2>3
<1>. QED
  BY <1>1, <1>6, <1>7 DEF CoveredInv

\* The count that is written is one more than was read, and that many failures there were.
LEMMA RecordCovered ==
    ASSUME IInv, CoveredInv, NEW p \in Pollers, RecordFailure(p)
    PROVE  CoveredInv'
<1>. DEFINE d == poller[p].id
            n == poller[p].count + 1
<1>1. /\ d \in Deliveries /\ poller[p].count \in Nat /\ poller[p].count < MaxRetries
      /\ failures \in [Deliveries -> 0..MaxRetries] /\ Holds(p) /\ poller[p].pc = "sent_failed"
      /\ retry_count' = [retry_count EXCEPT ![d] = n]
      /\ poller' = [poller EXCEPT ![p] = Sleeping]
      /\ UNCHANGED <<admin, failures, requeues>>
  BY DEF RecordFailure, history, Holds, IInv, TypeOK, PollerInv, Poller
<1>2. \A e \in Deliveries : status'[e] = status[e] \/ (e = d /\ n >= MaxRetries)
  BY <1>1 DEF RecordFailure, GivesUp, IInv, TypeOK
<1>3. requeues = 0 => n <= failures[d]
  BY <1>1 DEF CoveredInv
<1>4. NeverGivenUpEarly'
  <2>. HIDE DEF d, n
  <2>1. \A e \in Deliveries : /\ retry_count'[e] = IF e = d THEN n ELSE retry_count[e]
                              /\ failures[e] \in Nat /\ failures[e] <= MaxRetries
    BY <1>1 DEF IInv, TypeOK
  <2>2. n \in Nat
    BY <1>1 DEF n
  <2>. QED
    BY <1>1, <1>2, <1>3, <2>1, <2>2 DEF CoveredInv, NeverGivenUpEarly
<1>5. \A q \in Pollers : Holds(q)' => q # p /\ Holds(q) /\ poller'[q] = poller[q]
  BY <1>1, IdlePollers DEF Holds, IInv, TypeOK
<1>. QED
  BY <1>1, <1>4, <1>5 DEF CoveredInv

\* A poller that selects a delivery reads a count that is covered.
LEMMA SelectCovered ==
    ASSUME IInv, CoveredInv, NEW p \in Pollers, SelectNext(p)
    PROVE  CoveredInv'
<1>1. UNCHANGED <<status, retry_count, failures, admin, requeues>>
  BY DEF SelectNext, rows, history
<1>2. \A q \in Pollers : q # p => poller'[q] = poller[q]
  BY DEF SelectNext, IInv, TypeOK
<1>3. \/ ~Holds(p)'
      \/ \E d \in Deliveries : /\ poller'[p].id = d /\ poller'[p].count = retry_count[d]
                               /\ poller'[p].pc = "sending"
  BY IdlePollers DEF SelectNext, Holds, IInv, TypeOK
<1>4. NeverGivenUpEarly'
  BY <1>1 DEF CoveredInv, NeverGivenUpEarly
<1>. QED
  BY <1>1, <1>2, <1>3, <1>4 DEF CoveredInv, NeverGivenUpEarly, Holds

\* Every step keeps what is read and written covered.
LEMMA CoveredStep == IInv /\ CoveredInv /\ [Next]_vars => CoveredInv'
<1>. SUFFICES ASSUME IInv, CoveredInv, [Next]_vars PROVE CoveredInv'
  OBVIOUS
<1>1. CASE UNCHANGED vars
  BY <1>1, QuietCovered DEF vars, Holds
<1>2. ASSUME NEW d \in Deliveries, Enqueue(d)
      PROVE  CoveredInv'
  <2>1. /\ UNCHANGED <<poller, admin, failures, requeues>>
        /\ \A e \in Deliveries : /\ retry_count'[e] = IF e = d THEN 0 ELSE retry_count[e]
                                 /\ status'[e] = IF e = d THEN "pending" ELSE status[e]
                                 /\ failures[e] \in Nat
    BY <1>2 DEF Enqueue, history, IInv, TypeOK
  <2>2. NeverGivenUpEarly'
    BY <2>1 DEF CoveredInv, NeverGivenUpEarly
  <2>. QED
    BY <2>1, <2>2 DEF CoveredInv, Holds
<1>3. ASSUME NEW a \in Admins, NEW d \in Deliveries, RetryDeadLetter(a, d)
      PROVE  CoveredInv'
  <2>1. requeues' # 0
    BY <1>3 DEF RetryDeadLetter, IInv, TypeOK
  <2>. QED
    BY <2>1 DEF CoveredInv, NeverGivenUpEarly
<1>4. ASSUME NEW a \in Admins, RequeueCommit(a)
      PROVE  CoveredInv'
  <2>1. requeues' # 0
    BY <1>4 DEF RequeueCommit, CoveredInv
  <2>. QED
    BY <2>1 DEF CoveredInv, NeverGivenUpEarly
<1>5. ASSUME NEW a \in Admins, AbortRetry(a)
      PROVE  CoveredInv'
  <2>1. /\ UNCHANGED <<status, retry_count, failures, poller, requeues>>
        /\ \A b \in Admins : admin'[b] = IF b = a THEN NoDelivery ELSE admin[b]
    BY <1>5 DEF AbortRetry, rows, history, IInv, TypeOK
  <2>. QED
    BY <2>1, QuietCovered DEF Holds
<1>6. ASSUME NEW p \in Pollers, RecoverPending(p) \/ Abort(p)
      PROVE  CoveredInv'
  <2>1. UNCHANGED <<status, retry_count, failures, admin, requeues>>
    BY <1>6 DEF RecoverPending, Abort, rows, history
  <2>2. \A q \in Pollers : Holds(q)' => q # p /\ poller'[q] = poller[q]
    BY <1>6, IdlePollers DEF RecoverPending, Abort, Holds, IInv, TypeOK
  <2>. QED
    BY <2>1, <2>2, QuietCovered DEF Holds
<1>7. ASSUME NEW p \in Pollers, SendAccepted(p)
      PROVE  CoveredInv'
  <2>1. UNCHANGED <<status, retry_count, failures, admin, requeues>> /\ poller[p].pc = "sending"
    BY <1>7, Zenon DEF SendAccepted, rows
  <2>2. \A q \in Pollers : /\ poller'[q].id = poller[q].id /\ poller'[q].count = poller[q].count
                           /\ poller'[q].pc = IF q = p THEN "sent_ok" ELSE poller[q].pc
    BY <1>7 DEF SendAccepted, IInv, TypeOK, Poller
  <2>. QED
    BY <2>1, <2>2, QuietCovered DEF Holds
<1>8. ASSUME NEW p \in Pollers, RecordSuccess(p)
      PROVE  CoveredInv'
  <2>1. UNCHANGED <<retry_count, failures, admin, requeues>>
    BY <1>8 DEF RecordSuccess, history
  <2>2. \A d \in Deliveries : status'[d] \in {status[d], "delivered"}
    BY <1>8 DEF RecordSuccess, IInv, TypeOK
  <2>3. \A q \in Pollers : Holds(q)' => q # p /\ poller'[q] = poller[q]
    BY <1>8, IdlePollers DEF RecordSuccess, Holds, IInv, TypeOK
  <2>. QED
    BY <2>1, <2>2, <2>3, QuietCovered DEF Holds
<1>9. CASE Tick
  <2>1. UNCHANGED <<status, retry_count, failures, admin, requeues>>
    BY <1>9 DEF Tick, history
  <2>2. \A q \in Pollers : /\ poller'[q].id = poller[q].id /\ poller'[q].count = poller[q].count
                           /\ poller'[q].pc = poller[q].pc
    BY <1>9 DEF Tick, IInv, TypeOK, Poller
  <2>. QED
    BY <2>1, <2>2, QuietCovered DEF Holds
<1>. QED
  BY <1>1, <1>2, <1>3, <1>4, <1>5, <1>6, <1>7, <1>8, <1>9, SelectCovered, FailedSendCovered,
     RecordCovered
  DEF Next, PollerStep

\* Several processes that poll without a lock write stale counts over fresh ones, and yet
\* err on the safe side: until an administrator puts a delivery back, none is given up
\* before MaxRetries of its sends failed.
THEOREM PollersNeverGiveUpEarly == Spec => []NeverGivenUpEarly
<1>1. Init => CoveredInv
  BY IdlePollers DEF Init, CoveredInv, NeverGivenUpEarly, Holds
<1>2. CoveredInv => NeverGivenUpEarly
  BY DEF CoveredInv
<1>. QED
  BY InductiveInvariant, <1>1, <1>2, CoveredStep, PTL DEF Spec

-----------------------------------------------------------------------------
(* One poller and one retry at a time: what each read is still true when it *)
(* writes, so that the queue keeps its contract.                            *)

\* What the sole poller and the sole retry read is current, and a failed send has been counted
\* in the history but not yet in the row.
SoleInv ==
    /\ \A p \in Pollers :
         Holds(p) => /\ status[poller[p].id] = "pending"
                     /\ poller[p].count = retry_count[poller[p].id]
                     /\ poller[p].pc = "sent_failed" => poller[p].count < failures[poller[p].id]
    /\ \A a \in Admins : admin[a] # NoDelivery => status[admin[a]] = "dead_letter"
    /\ \A d \in Deliveries : status[d] = "absent" => retry_count[d] = 0
    /\ DeadLetterEarned

\* The initial states satisfy it: nothing is held and nothing has failed.
LEMMA SoleInit == Init => SoleInv
BY IdlePollers DEF Init, SoleInv, Holds, DeadLetterEarned

\* A queued or re-queued delivery is not held by the sole poller, which holds a
\* pending one, nor by another retry.
LEMMA SolePutInv ==
    ASSUME IInv, SoleInv, NEW d \in Deliveries, status[d] \in {"absent", "dead_letter"},
           status' = [status EXCEPT ![d] = "pending"],
           retry_count' = [retry_count EXCEPT ![d] = 0],
           \A e \in Deliveries \ {d} : failures'[e] = failures[e],
           failures' \in [Deliveries -> Nat],
           poller' = poller,
           \A a \in Admins : admin'[a] # NoDelivery => admin'[a] = admin[a] /\ admin[a] # d
    PROVE  SoleInv'
<1>1. \A p \in Pollers : Holds(p) => poller[p].id # d /\ poller[p].id \in Deliveries
  BY DEF SoleInv, Holds, IInv, PollerInv
<1>3. /\ \A e \in Deliveries : status'[e] = IF e = d THEN "pending" ELSE status[e]
      /\ \A e \in Deliveries : retry_count'[e] = IF e = d THEN 0 ELSE retry_count[e]
  BY DEF IInv, TypeOK
<1>2. DeadLetterEarned'
  <2>1. ASSUME NEW e \in Deliveries
        PROVE  /\ retry_count'[e] <= failures'[e]
               /\ status'[e] = "dead_letter" => retry_count'[e] = MaxRetries
    <3>1. CASE e = d
      <4>1. status'[e] = "pending" /\ retry_count'[e] = 0 /\ failures'[e] \in Nat
        BY <1>3, <3>1
      <4>. QED
        BY <4>1
    <3>2. CASE e # d
      BY <1>3, <3>2 DEF SoleInv, DeadLetterEarned
    <3>. QED
      BY <3>1, <3>2
  <2>. QED
    BY <2>1 DEF DeadLetterEarned
<1>4. \A p \in Pollers :
         Holds(p)' => /\ status'[poller'[p].id] = "pending"
                      /\ poller'[p].count = retry_count'[poller'[p].id]
                      /\ poller'[p].pc = "sent_failed" => poller'[p].count < failures'[poller'[p].id]
  BY <1>1, <1>3 DEF SoleInv, Holds
<1>5. \A a \in Admins : admin'[a] # NoDelivery => status'[admin'[a]] = "dead_letter"
  <2>1. \A a \in Admins : admin[a] # NoDelivery => admin[a] \in Deliveries
    BY DEF IInv, TypeOK
  <2>. QED
    BY <1>3, <2>1 DEF SoleInv
<1>6. \A e \in Deliveries : status'[e] = "absent" => retry_count'[e] = 0
  BY <1>3 DEF SoleInv
<1>. QED
  BY <1>2, <1>4, <1>5, <1>6 DEF SoleInv

\* The steps of a retry, and the queueing of a delivery.
LEMMA SoleQueueInv ==
    ASSUME \A a, b \in Admins : a = b,
           IInv, SoleInv,
           \/ \E d \in Deliveries : Enqueue(d) \/ \E a \in Admins : RetryDeadLetter(a, d)
           \/ \E a \in Admins : RequeueCommit(a) \/ AbortRetry(a)
    PROVE  SoleInv'
<1>1. ASSUME NEW d \in Deliveries, Enqueue(d)
      PROVE  SoleInv'
  <2>1. /\ status[d] = "absent"
        /\ status' = [status EXCEPT ![d] = "pending"]
        /\ retry_count' = [retry_count EXCEPT ![d] = 0]
        /\ failures' = failures /\ poller' = poller /\ admin' = admin
    BY <1>1 DEF Enqueue, history
  <2>2. failures' \in [Deliveries -> Nat]
    BY <2>1 DEF IInv, TypeOK
  <2>3. \A a \in Admins : admin'[a] # NoDelivery => admin'[a] = admin[a] /\ admin[a] # d
    BY <2>1 DEF SoleInv
  <2>4. status[d] \in {"absent", "dead_letter"} /\ \A e \in Deliveries \ {d} : failures'[e] = failures[e]
    BY <2>1
  <2>. QED
    BY <2>1, <2>2, <2>3, <2>4, SolePutInv
<1>2. ASSUME NEW d \in Deliveries, NEW a \in Admins, RetryDeadLetter(a, d)
      PROVE  SoleInv'
  <2>1. /\ UNCHANGED <<status, retry_count, failures, poller>> /\ status[d] = "dead_letter"
        /\ admin' = [admin EXCEPT ![a] = d]
    BY <1>2 DEF RetryDeadLetter, rows, history
  <2>. QED
    BY <2>1 DEF SoleInv, Holds, DeadLetterEarned, IInv, TypeOK
<1>3. ASSUME NEW a \in Admins, RequeueCommit(a)
      PROVE  SoleInv'
  <2>. DEFINE d == admin[a]
  <2>1. /\ d \in Deliveries /\ status[d] = "dead_letter"
        /\ status' = [status EXCEPT ![d] = "pending"]
        /\ retry_count' = [retry_count EXCEPT ![d] = 0]
        /\ failures' = [failures EXCEPT ![d] = 0]
        /\ poller' = poller
        /\ admin' = [admin EXCEPT ![a] = NoDelivery]
    BY <1>3 DEF RequeueCommit, SoleInv, IInv, TypeOK
  <2>2. \A b \in Admins : admin'[b] # NoDelivery => admin'[b] = admin[b] /\ admin[b] # d
    BY <2>1 DEF IInv, TypeOK
  <2>4. status[d] \in {"absent", "dead_letter"}
    BY <2>1
  <2>. HIDE DEF d
  <2>3. /\ failures' \in [Deliveries -> Nat]
        /\ \A e \in Deliveries \ {d} : failures'[e] = failures[e]
    BY <2>1 DEF IInv, TypeOK
  <2>. QED
    BY <2>1, <2>2, <2>3, <2>4, SolePutInv
<1>4. ASSUME NEW a \in Admins, AbortRetry(a)
      PROVE  SoleInv'
  <2>1. /\ UNCHANGED <<status, retry_count, failures, poller>>
        /\ admin' = [admin EXCEPT ![a] = NoDelivery]
    BY <1>4 DEF AbortRetry, rows, history
  <2>. QED
    BY <2>1 DEF SoleInv, Holds, DeadLetterEarned, IInv, TypeOK
<1>. QED
  BY <1>1, <1>2, <1>3, <1>4

\* A poller that puts its delivery down without writing leaves the rows current.
LEMMA SoleIdleInv ==
    ASSUME IInv, SoleInv, NEW p \in Pollers,
           RecoverPending(p) \/ Abort(p)
    PROVE  SoleInv'
<1>1. UNCHANGED <<status, retry_count, failures>>
  BY DEF RecoverPending, Abort, rows, history
<1>3. admin' = admin
  BY DEF RecoverPending, Abort
<1>2. \A q \in Pollers : Holds(q)' => /\ Holds(q) /\ poller'[q].id = poller[q].id
                                      /\ poller'[q].count = poller[q].count
                                      /\ poller'[q].pc = poller[q].pc
  BY IdlePollers DEF RecoverPending, Abort, Holds, IInv, TypeOK, Poller
<1>. QED
  BY <1>1, <1>2, <1>3 DEF SoleInv, Holds, DeadLetterEarned

\* A selected delivery is pending and its count is the row's.
LEMMA SoleSelectInv ==
    ASSUME IInv, SoleInv, NEW p \in Pollers, SelectNext(p)
    PROVE  SoleInv'
<1>1. UNCHANGED <<status, retry_count, failures, admin>>
  BY DEF SelectNext, rows, history
<1>2. CASE poller' = [poller EXCEPT ![p] = Sleeping]
  BY <1>1, <1>2, IdlePollers DEF SoleInv, Holds, DeadLetterEarned, IInv, TypeOK
<1>3. CASE \E d \in Deliveries :
             /\ Due(d)
             /\ poller' = [poller EXCEPT ![p] = [pc |-> "sending", id |-> d,
                                                 count |-> retry_count[d], elapsed |-> 0]]
  BY <1>1, <1>3 DEF SoleInv, Holds, DeadLetterEarned, Due, IInv, TypeOK
<1>. QED
  BY <1>2, <1>3 DEF SelectNext

\* An answer changes no row, and a failed send is counted in the history.
LEMMA SoleSendInv ==
    ASSUME IInv, SoleInv, NEW p \in Pollers, SendAccepted(p) \/ SendFails(p)
    PROVE  SoleInv'
<1>. DEFINE d == poller[p].id
<1>1. /\ UNCHANGED <<status, retry_count, admin>> /\ d \in Deliveries /\ Holds(p)
      /\ poller[p].count \in Nat /\ poller[p].count < MaxRetries
  BY DEF SendAccepted, SendFails, rows, Holds, IInv, TypeOK, Poller, PollerInv
<1>2. \A q \in Pollers : /\ poller'[q].id = poller[q].id /\ poller'[q].count = poller[q].count
                         /\ Holds(q)' = Holds(q)
                         /\ q # p => poller'[q].pc = poller[q].pc
  BY DEF SendAccepted, SendFails, Holds, IInv, TypeOK, Poller
<1>3. /\ \A e \in Deliveries : failures[e] \in 0..MaxRetries
      /\ \A e \in Deliveries : retry_count[e] \in 0..MaxRetries
  BY DEF IInv, TypeOK
<1>4. CASE SendAccepted(p)
  <2>1. failures' = failures /\ poller'[p].pc = "sent_ok"
    BY <1>4 DEF SendAccepted, IInv, TypeOK, Poller
  <2>. QED
    BY <1>1, <1>2, <2>1 DEF SoleInv, DeadLetterEarned
<1>5. CASE SendFails(p)
  <2>1. failures' = [failures EXCEPT ![d] = IF failures[d] < MaxRetries THEN failures[d] + 1
                                                                        ELSE failures[d]]
    BY <1>5, <1>1 DEF SendFails, IInv, TypeOK
  <2>2. \A e \in Deliveries : /\ failures'[e] >= failures[e]
                              /\ e = d => poller[p].count < failures'[e]
    <3>1. poller[p].count <= failures[d]
      BY <1>1, <1>3 DEF SoleInv, DeadLetterEarned
    <3>2. failures \in [Deliveries -> 0..MaxRetries]
      BY DEF IInv, TypeOK
    <3>. HIDE DEF d
    <3>. QED
      BY <1>1, <1>3, <2>1, <3>1, <3>2
  <2>3. \A e \in Deliveries : failures'[e] \in Nat
    BY <1>1, <1>3, <2>1 DEF IInv, TypeOK
  <2>4. DeadLetterEarned'
    BY <1>1, <1>3, <2>2, <2>3 DEF SoleInv, DeadLetterEarned
  <2>5. ASSUME NEW q \in Pollers, Holds(q)', poller'[q].pc = "sent_failed"
        PROVE  poller'[q].count < failures'[poller'[q].id]
    <3>1. Holds(q) /\ poller[q].id \in Deliveries /\ poller[q].count \in Nat
      BY <1>2, <2>5 DEF Holds, IInv, TypeOK, Poller, PollerInv
    <3>2. CASE q = p
      BY <1>1, <1>2, <2>2, <3>2
    <3>3. CASE q # p
      <4>1. poller[q].count < failures[poller[q].id]
        BY <1>2, <2>5, <3>1, <3>3 DEF SoleInv
      <4>. QED
        BY <1>2, <1>3, <2>2, <2>3, <3>1, <4>1
    <3>. QED
      BY <3>2, <3>3
  <2>. QED
    BY <1>1, <1>2, <2>4, <2>5 DEF SoleInv
<1>. QED
  BY <1>4, <1>5

\* The sole poller writes the outcome of what it read; no other one holds the row.
LEMMA SoleRecordInv ==
    ASSUME \A p, q \in Pollers : p = q,
           IInv, SoleInv, NEW p \in Pollers, RecordSuccess(p) \/ RecordFailure(p)
    PROVE  SoleInv'
<1>. DEFINE d == poller[p].id
            n == poller[p].count + 1
<1>1. /\ d \in Deliveries /\ Holds(p) /\ status[d] = "pending"
      /\ poller[p].count \in Nat /\ poller[p].count < MaxRetries
      /\ failures' = failures /\ poller' = [poller EXCEPT ![p] = Sleeping] /\ admin' = admin
  BY DEF RecordSuccess, RecordFailure, history, Holds, SoleInv, IInv, TypeOK, Poller, PollerInv
<1>2. \A q \in Pollers : ~Holds(q)'
  BY <1>1, IdlePollers DEF Holds, IInv, TypeOK
<1>3. CASE RecordSuccess(p)
  BY <1>1, <1>2, <1>3 DEF RecordSuccess, SoleInv, DeadLetterEarned, IInv, TypeOK
<1>4. CASE RecordFailure(p)
  <2>1. retry_count' = [retry_count EXCEPT ![d] = n] /\ n <= failures[d] /\ n \in 1..MaxRetries
    BY <1>1, <1>4 DEF RecordFailure, Holds, SoleInv, IInv, TypeOK
  <2>2. status' = [status EXCEPT ![d] = IF n = MaxRetries THEN "dead_letter" ELSE @]
    BY <1>1, <1>4, <2>1 DEF RecordFailure, GivesUp, IInv, TypeOK
  <2>. HIDE DEF d, n
  <2>3. DeadLetterEarned'
    BY <1>1, <2>1, <2>2 DEF SoleInv, DeadLetterEarned, IInv, TypeOK
  <2>. QED
    BY <1>1, <1>2, <2>1, <2>2, <2>3 DEF SoleInv, IInv, TypeOK
<1>. QED
  BY <1>3, <1>4

\* Every step of a queue with one poller keeps what that poller read current.
LEMMA SoleNextInv ==
    ASSUME \A p, q \in Pollers : p = q, \A a, b \in Admins : a = b
    PROVE  IInv /\ SoleInv /\ [Next]_vars => SoleInv'
<1>. SUFFICES ASSUME IInv, SoleInv, [Next]_vars PROVE SoleInv'
  OBVIOUS
<1>1. CASE UNCHANGED vars
  BY <1>1 DEF vars, SoleInv, Holds, DeadLetterEarned
<1>2. CASE \/ \E d \in Deliveries : Enqueue(d) \/ \E a \in Admins : RetryDeadLetter(a, d)
           \/ \E a \in Admins : RequeueCommit(a) \/ AbortRetry(a)
  BY <1>2, SoleQueueInv
<1>3. ASSUME NEW p \in Pollers, PollerStep(p) \/ Abort(p)
      PROVE  SoleInv'
  BY <1>3, SoleIdleInv, SoleSelectInv, SoleSendInv, SoleRecordInv DEF PollerStep
<1>4. CASE Tick
  <2>1. UNCHANGED <<status, retry_count, failures, admin>>
    BY <1>4 DEF Tick, history
  <2>2. \A q \in Pollers : /\ Holds(q)' = Holds(q) /\ poller'[q].id = poller[q].id
                           /\ poller'[q].count = poller[q].count
                           /\ poller'[q].pc = poller[q].pc
    BY <1>4 DEF Tick, Holds, IInv, TypeOK, Poller
  <2>. QED
    BY <2>1, <2>2 DEF SoleInv, DeadLetterEarned
<1>. QED
  BY <1>1, <1>2, <1>3, <1>4 DEF Next

\* With one poller and one retry at a time no delivery is given up before
\* MaxRetries of its sends failed.
THEOREM DeadLettersAreEarned ==
    ASSUME \A p, q \in Pollers : p = q, \A a, b \in Admins : a = b
    PROVE  Spec => []DeadLetterEarned
<1>1. IInv /\ SoleInv /\ [Next]_vars => SoleInv'
  BY SoleNextInv
<1>2. SoleInv => DeadLetterEarned
  BY DEF SoleInv
<1>. QED
  BY InductiveInvariant, SoleInit, <1>1, <1>2, PTL DEF Spec

\* The initial rows are those of the contract.
LEMMA ContractInit == Init => Contract!Init
BY DEF Init, Contract!Init

\* Every step of a queue with one poller is a step of the contract or leaves
\* status, count and accepted alone.
LEMMA ContractStep ==
    ASSUME \A p, q \in Pollers : p = q, \A a, b \in Admins : a = b
    PROVE  IInv /\ SoleInv /\ [Next]_vars => [Contract!Next]_(Contract!vars)
<1>. SUFFICES ASSUME IInv, SoleInv, [Next]_vars
              PROVE  Contract!Next \/ UNCHANGED <<status, retry_count, accepted>>
  BY DEF Contract!vars
<1>1. CASE UNCHANGED vars
  BY <1>1 DEF vars
<1>2. CASE Tick
  BY <1>2 DEF Tick, history
<1>3. ASSUME NEW d \in Deliveries, Enqueue(d)
      PROVE  Contract!Next
  <2>1. retry_count' = retry_count
    BY <1>3 DEF Enqueue, SoleInv, IInv, TypeOK
  <2>. QED
    BY <1>3, <2>1 DEF Enqueue, history, Contract!Queue, Contract!Next
<1>4. ASSUME NEW a \in Admins, RequeueCommit(a)
      PROVE  Contract!Next
  <2>1. admin[a] \in Deliveries /\ status[admin[a]] = "dead_letter"
    BY <1>4 DEF RequeueCommit, SoleInv, IInv, TypeOK
  <2>. QED
    BY <1>4, <2>1 DEF RequeueCommit, Contract!Requeue, Contract!Next
<1>7. ASSUME NEW a \in Admins, AbortRetry(a) \/ \E d \in Deliveries : RetryDeadLetter(a, d)
      PROVE  UNCHANGED <<status, retry_count, accepted>>
  BY <1>7 DEF RetryDeadLetter, AbortRetry, rows, history
<1>5. ASSUME NEW p \in Pollers, RecoverPending(p) \/ SelectNext(p) \/ SendFails(p) \/ Abort(p)
      PROVE  UNCHANGED <<status, retry_count, accepted>>
  BY <1>5 DEF RecoverPending, SelectNext, SendFails, Abort, rows, history
<1>6. ASSUME NEW p \in Pollers, SendAccepted(p) \/ RecordSuccess(p) \/ RecordFailure(p)
      PROVE  Contract!Next
  <2>. DEFINE d == poller[p].id
  <2>1. /\ d \in Deliveries /\ Holds(p) /\ status[d] = "pending"
        /\ poller[p].count \in Nat /\ poller[p].count < MaxRetries
        /\ poller[p].count = retry_count[d]
        /\ poller[p].pc = "sent_ok" => d \in accepted
    BY <1>6 DEF SendAccepted, RecordSuccess, RecordFailure, Holds, SoleInv, IInv, TypeOK,
                Poller, PollerInv
  <2>2. CASE SendAccepted(p)
    BY <2>1, <2>2 DEF SendAccepted, rows, Contract!Accept, Contract!Next
  <2>3. CASE RecordSuccess(p)
    BY <2>1, <2>3 DEF RecordSuccess, history, Contract!Deliver, Contract!Next
  <2>4. CASE RecordFailure(p)
    <3>1. retry_count' = [retry_count EXCEPT ![d] = @ + 1] /\ accepted' = accepted
      BY <2>1, <2>4 DEF RecordFailure, history, IInv, TypeOK
    <3>2. status' = [status EXCEPT ![d] = IF retry_count[d] + 1 = MaxRetries
                                            THEN "dead_letter" ELSE @]
      <4>1. GivesUp(poller[p].count + 1) <=> retry_count[d] + 1 = MaxRetries
        BY <2>1 DEF GivesUp
      <4>2. CASE GivesUp(poller[p].count + 1)
        <5>1. status' = [status EXCEPT ![d] = "dead_letter"]
          BY <2>4, <4>2 DEF RecordFailure
        <5>. QED
          BY <4>1, <4>2, <5>1
      <4>3. CASE ~GivesUp(poller[p].count + 1)
        <5>1. status' = status
          BY <2>4, <4>3 DEF RecordFailure
        <5>2. status = [status EXCEPT ![d] = status[d]]
          BY DEF IInv, TypeOK
        <5>. QED
          BY <4>1, <4>3, <5>1, <5>2
      <4>. QED
        BY <4>2, <4>3
    <3>3. retry_count[d] < MaxRetries
      BY <2>1
    <3>. HIDE DEF d
    <3>4. Contract!CountFailure(d)
      BY <2>1, <3>1, <3>2, <3>3, SMTT(30) DEF Contract!CountFailure
    <3>. QED
      BY <2>1, <3>4 DEF Contract!Next
  <2>. QED
    BY <1>6, <2>2, <2>3, <2>4
<1>. QED
  BY <1>1, <1>2, <1>3, <1>4, <1>5, <1>6, <1>7 DEF Next, PollerStep

\* Refinement: a queue polled by one process implements the contract, whatever
\* iterations are lost and whenever an administrator, one at a time, retries a
\* dead letter.
THEOREM SolePollerImplementsContract ==
    ASSUME \A p, q \in Pollers : p = q, \A a, b \in Admins : a = b
    PROVE  Spec => ImplementsContract
<1>1. IInv /\ SoleInv /\ [Next]_vars => SoleInv'
  BY SoleNextInv
<1>2. IInv /\ SoleInv /\ [Next]_vars => [Contract!Next]_(Contract!vars)
  BY ContractStep
<1>. QED
  BY InductiveInvariant, SoleInit, ContractInit, <1>1, <1>2, PTL
     DEF Spec, ImplementsContract, Contract!Spec
=============================================================================
