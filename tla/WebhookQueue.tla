---------------------------- MODULE WebhookQueue ----------------------------
(***************************************************************************)
(* The webhook delivery queue: rows in webhook_deliveries, processes that  *)
(* run WebhookQueue.run_worker, and the administrator's retry of a dead    *)
(* letter.  A poller reads a row, sends for up to MaxSendTime seconds, and *)
(* then writes the columns it changed, and the retry handler reads a row    *)
(* before it writes it; nothing locks the row meanwhile.                   *)
(* Time is relative: next_retry_at is kept as the seconds still to wait.   *)
(***************************************************************************)
EXTENDS Naturals, Sequences

CONSTANTS
    NumDeliveries,  \* deliveries are numbered in the order of created_at
    Stuck,          \* rows found pending with next_retry_at NULL at start
    Pollers,        \* processes running run_worker
    Admins,         \* administrator retries that may be in progress at once
    MaxRetries,     \* MAX_RETRIES, 5 in the code
    Backoff,        \* BACKOFF_SECONDS, <<1, 2, 4, 8, 16>> in the code
    MaxSendTime,    \* how long one send may take (the httpx timeout)
    Null,           \* the SQL NULL
    MaxRequeues, MaxAborts   \* bounds on administrator retries and lost iterations or retries

Deliveries == 1..NumDeliveries

ASSUME WebhookAssumption ==
    /\ NumDeliveries \in Nat /\ Stuck \subseteq Deliveries
    /\ MaxRetries \in Nat \ {0}
    /\ Backoff \in Seq(Nat) /\ Backoff # <<>>
    /\ Null \notin Nat
    /\ MaxSendTime \in Nat /\ MaxRequeues \in Nat /\ MaxAborts \in Nat

VARIABLES
    status, retry_count, failed_at,  \* columns of webhook_deliveries
    wait,       \* seconds until next_retry_at; Null for the SQL NULL
    poller,     \* what each polling process is doing
    admin,      \* the delivery each retry in progress found dead-lettered
    accepted,   \* history: deliveries the endpoint answered below 400
    failures,   \* history: failed sends since (re)queued, up to MaxRetries
    requeues, aborts

rows == <<status, retry_count, failed_at, wait>>
history == <<accepted, failures>>
vars == <<status, retry_count, failed_at, wait, poller, admin, accepted, failures, requeues, aborts>>

NoDelivery == 0
Status == {"absent", "pending", "delivered", "dead_letter"}

Poller == [pc: {"sleeping", "recovered", "sending", "sent_ok", "sent_failed"},
           id: Deliveries \cup {NoDelivery},
           count: 0..MaxRetries,      \* retry_count as the poller read it
           elapsed: 0..MaxSendTime]   \* seconds since it took now
Sleeping == [pc |-> "sleeping", id |-> NoDelivery, count |-> 0, elapsed |-> 0]

\* _calculate_backoff; BACKOFF_SECONDS counts from 0.
CalculateBackoff(n) ==
    LET i == IF n < Len(Backoff) - 1 THEN n ELSE Len(Backoff) - 1 IN Backoff[i + 1]

\* The seconds left of a backoff that began elapsed seconds ago.
Remaining(backoff, elapsed) == IF elapsed < backoff THEN backoff - elapsed ELSE 0

-----------------------------------------------------------------------------
Init ==
    /\ status = [d \in Deliveries |-> IF d \in Stuck THEN "pending" ELSE "absent"]
    /\ retry_count = [d \in Deliveries |-> 0]
    /\ failed_at = [d \in Deliveries |-> FALSE]
    /\ wait = [d \in Deliveries |-> Null]
    /\ poller = [p \in Pollers |-> Sleeping]
    /\ admin = [a \in Admins |-> NoDelivery]
    /\ accepted = {}
    /\ failures = [d \in Deliveries |-> 0]
    /\ requeues = 0 /\ aborts = 0

Enqueue(d) ==
    /\ status[d] = "absent"
    /\ \A e \in 1..(d - 1) : status[e] # "absent"
    /\ status' = [status EXCEPT ![d] = "pending"]
    /\ retry_count' = [retry_count EXCEPT ![d] = 0]
    /\ failed_at' = [failed_at EXCEPT ![d] = FALSE]
    /\ wait' = [wait EXCEPT ![d] = 0]
    /\ UNCHANGED <<poller, admin, history, requeues, aborts>>

\* Mutant: rows without a next_retry_at are left alone.
RecoverNothing(p) ==
    /\ poller[p].pc = "sleeping"
    /\ poller' = [poller EXCEPT ![p] = [Sleeping EXCEPT !.pc = "recovered"]]
    /\ UNCHANGED <<rows, admin, history, requeues, aborts>>

\* recover_pending: pending rows without a next_retry_at become due now.
RecoverPending(p) ==
    /\ poller[p].pc = "sleeping"
    /\ wait' = [d \in Deliveries |-> IF status[d] = "pending" /\ wait[d] = Null
                                       THEN 0 ELSE wait[d]]
    /\ poller' = [poller EXCEPT ![p] = [Sleeping EXCEPT !.pc = "recovered"]]
    /\ UNCHANGED <<status, retry_count, failed_at, admin, history, requeues, aborts>>

Due(d) == status[d] = "pending" /\ wait[d] = 0

\* process_next selects the oldest due delivery and reads its row, or returns.
SelectNext(p) ==
    /\ poller[p].pc = "recovered"
    /\ \/ /\ \A d \in Deliveries : ~Due(d)
          /\ poller' = [poller EXCEPT ![p] = Sleeping]
       \/ \E d \in Deliveries :
            /\ Due(d) /\ \A e \in 1..(d - 1) : ~Due(e)
            /\ poller' = [poller EXCEPT ![p] = [pc |-> "sending", id |-> d,
                                                count |-> retry_count[d], elapsed |-> 0]]
    /\ UNCHANGED <<rows, admin, history, requeues, aborts>>

\* _send_webhook: the endpoint answers below 400, ...
SendAccepted(p) ==
    /\ poller[p].pc = "sending"
    /\ accepted' = accepted \cup {poller[p].id}
    /\ poller' = [poller EXCEPT ![p] = [@ EXCEPT !.pc = "sent_ok"]]
    /\ UNCHANGED <<rows, failures, admin, requeues, aborts>>

\* ... or with an error, or not in time.
SendFails(p) ==
    /\ poller[p].pc = "sending"
    /\ failures' = [failures EXCEPT ![poller[p].id] = IF @ < MaxRetries THEN @ + 1 ELSE @]
    /\ poller' = [poller EXCEPT ![p] = [@ EXCEPT !.pc = "sent_failed"]]
    /\ UNCHANGED <<rows, accepted, admin, requeues, aborts>>

\* Mutant: any answer counts as success.
RecordAnyAnswer(p) ==
    /\ poller[p].pc \in {"sent_ok", "sent_failed"}
    /\ status' = [status EXCEPT ![poller[p].id] = "delivered"]
    /\ poller' = [poller EXCEPT ![p] = Sleeping]
    /\ UNCHANGED <<retry_count, failed_at, wait, admin, history, requeues, aborts>>

RecordSuccess(p) ==
    /\ poller[p].pc = "sent_ok"
    /\ status' = [status EXCEPT ![poller[p].id] = "delivered"]
    /\ poller' = [poller EXCEPT ![p] = Sleeping]
    /\ UNCHANGED <<retry_count, failed_at, wait, admin, history, requeues, aborts>>

\* Mutant: one retry too many.
GivesUpLate(n) == n > MaxRetries
GivesUp(n) == n >= MaxRetries

\* Only the columns that change are written, computed from what was read.
RecordFailure(p) ==
    LET d == poller[p].id
        n == poller[p].count + 1 IN
    /\ poller[p].pc = "sent_failed"
    /\ retry_count' = [retry_count EXCEPT ![d] = n]
    /\ IF GivesUp(n)
         THEN /\ status' = [status EXCEPT ![d] = "dead_letter"]
              /\ failed_at' = [failed_at EXCEPT ![d] = TRUE]
              /\ UNCHANGED wait
         ELSE /\ wait' = [wait EXCEPT ![d] = Remaining(CalculateBackoff(n), poller[p].elapsed)]
              /\ UNCHANGED <<status, failed_at>>
    /\ poller' = [poller EXCEPT ![p] = Sleeping]
    /\ UNCHANGED <<admin, history, requeues, aborts>>

\* An iteration is lost: the process restarts, or a statement raises and
\* run_worker logs it and sleeps.
Abort(p) ==
    /\ aborts < MaxAborts
    /\ aborts' = aborts + 1
    /\ poller[p].pc # "sleeping"
    /\ poller' = [poller EXCEPT ![p] = Sleeping]
    /\ UNCHANGED <<rows, admin, history, requeues>>

\* POST /admin/webhooks/dead-letter/{id}/retry: any other status is a 400 ...
RetryDeadLetter(a, d) ==
    /\ requeues < MaxRequeues
    /\ requeues' = requeues + 1
    /\ admin[a] = NoDelivery
    /\ status[d] = "dead_letter"
    /\ admin' = [admin EXCEPT ![a] = d]
    /\ UNCHANGED <<rows, poller, history, aborts>>

\* Mutant: the retry keeps the old count.
RequeueKeepsCount(a) ==
    LET d == admin[a] IN
    /\ d # NoDelivery
    /\ status' = [status EXCEPT ![d] = "pending"]
    /\ wait' = [wait EXCEPT ![d] = 0]
    /\ failed_at' = [failed_at EXCEPT ![d] = FALSE]
    /\ failures' = [failures EXCEPT ![d] = 0]
    /\ admin' = [admin EXCEPT ![a] = NoDelivery]
    /\ UNCHANGED <<retry_count, poller, accepted, requeues, aborts>>

\* ... and one commit, with the log entry, puts the row back whatever it has
\* become: every column differs from what the handler read.
RequeueCommit(a) ==
    LET d == admin[a] IN
    /\ d # NoDelivery
    /\ status' = [status EXCEPT ![d] = "pending"]
    /\ retry_count' = [retry_count EXCEPT ![d] = 0]
    /\ wait' = [wait EXCEPT ![d] = 0]
    /\ failed_at' = [failed_at EXCEPT ![d] = FALSE]
    /\ failures' = [failures EXCEPT ![d] = 0]
    /\ admin' = [admin EXCEPT ![a] = NoDelivery]
    /\ UNCHANGED <<poller, accepted, requeues, aborts>>

\* The retry is lost with its worker, or its commit raises.
AbortRetry(a) ==
    /\ aborts < MaxAborts
    /\ aborts' = aborts + 1
    /\ admin[a] # NoDelivery
    /\ admin' = [admin EXCEPT ![a] = NoDelivery]
    /\ UNCHANGED <<rows, poller, history, requeues>>

\* A second passes; no send outlasts its timeout.
Tick ==
    /\ \/ \E d \in Deliveries : wait[d] \notin {0, Null}
       \/ \E p \in Pollers : poller[p].pc = "sending"
    /\ \A p \in Pollers : poller[p].pc = "sending" => poller[p].elapsed < MaxSendTime
    /\ wait' = [d \in Deliveries |-> IF wait[d] \in {0, Null} THEN wait[d] ELSE wait[d] - 1]
    /\ poller' = [p \in Pollers |-> IF poller[p].pc = "sending"
                                      THEN [poller[p] EXCEPT !.elapsed = @ + 1]
                                      ELSE poller[p]]
    /\ UNCHANGED <<status, retry_count, failed_at, admin, history, requeues, aborts>>

PollerStep(p) ==
    \/ RecoverPending(p) \/ SelectNext(p) \/ SendAccepted(p) \/ SendFails(p)
    \/ RecordSuccess(p) \/ RecordFailure(p)

Next ==
    \/ \E d \in Deliveries : Enqueue(d) \/ \E a \in Admins : RetryDeadLetter(a, d)
    \/ \E a \in Admins : RequeueCommit(a) \/ AbortRetry(a)
    \/ \E p \in Pollers : PollerStep(p) \/ Abort(p)
    \/ Tick

Spec == Init /\ [][Next]_vars

\* Time passes, and run_worker's loop never ends.
FairSpec == Spec /\ WF_vars(Tick) /\ \A p \in Pollers : WF_vars(PollerStep(p))

-----------------------------------------------------------------------------
(* Properties. *)

\* Type invariant; a pending row has attempts left.
TypeOK ==
    /\ status \in [Deliveries -> Status]
    /\ retry_count \in [Deliveries -> 0..MaxRetries]
    /\ failed_at \in [Deliveries -> BOOLEAN]
    /\ wait \in [Deliveries -> Nat \cup {Null}]
    /\ poller \in [Pollers -> Poller]
    /\ admin \in [Admins -> Deliveries \cup {NoDelivery}]
    /\ accepted \subseteq Deliveries
    /\ failures \in [Deliveries -> 0..MaxRetries]
    /\ requeues \in 0..MaxRequeues /\ aborts \in 0..MaxAborts

\* A poller holds a delivery and an attempt that is left for it, and a pending
\* row has attempts left, however stale what the poller read is.
PollerInv ==
    /\ \A p \in Pollers :
         poller[p].pc \in {"sending", "sent_ok", "sent_failed"}
           => /\ poller[p].id \in Deliveries /\ status[poller[p].id] # "absent"
              /\ poller[p].count < MaxRetries
              /\ poller[p].pc = "sent_ok" => poller[p].id \in accepted
    /\ \A d \in Deliveries : status[d] = "pending" => retry_count[d] < MaxRetries
    /\ \A a \in Admins : admin[a] # NoDelivery => status[admin[a]] # "absent"

\* Nothing is called delivered that the endpoint did not accept, whatever number
\* of processes polls and whatever iterations are lost.
DeliveredWasAccepted == \A d \in Deliveries : status[d] = "delivered" => d \in accepted

\* Every counted failure happened, and a dead letter had its MaxRetries failures
\* since it was queued: stale counts never give a delivery up early.
DeadLetterEarned ==
    \A d \in Deliveries :
        /\ retry_count[d] <= failures[d]
        /\ status[d] = "dead_letter" => retry_count[d] = MaxRetries

\* The dead-letter stamp follows the status through give-up and retry.
StampFollowsStatus ==
    \A d \in Deliveries : /\ status[d] = "dead_letter" => failed_at[d]
                          /\ status[d] = "pending" => ~failed_at[d]

\* Every queued delivery is eventually delivered or dead-lettered: the oldest
\* one cannot starve the others, and a lost iteration is made up for.
EveryDeliverySettles ==
    \A d \in Deliveries : status[d] = "pending" ~> status[d] \in {"delivered", "dead_letter"}

Contract == INSTANCE WebhookContract WITH count <- retry_count

\* Refinement: one poller and one retry at a time implement the contract.
ImplementsContract == Contract!Spec
=============================================================================
