-------------------------- MODULE WebhookContract ---------------------------
(***************************************************************************)
(* What the webhook queue promises for each delivery: it is attempted, at  *)
(* most MaxRetries failures are counted before it is dead-lettered, it is  *)
(* called delivered only after the endpoint accepted it, and delivered is  *)
(* final; an administrator may put a dead letter back with a fresh count.  *)
(* WebhookQueue implements it as long as one process polls the queue.      *)
(***************************************************************************)
EXTENDS Naturals

CONSTANTS Deliveries, MaxRetries

VARIABLES status,    \* of each delivery
          count,     \* failures counted since it was queued
          accepted   \* deliveries the endpoint has answered with success

vars == <<status, count, accepted>>

Status == {"absent", "pending", "delivered", "dead_letter"}

Init ==
    /\ status \in [Deliveries -> {"absent", "pending"}]
    /\ count = [d \in Deliveries |-> 0]
    /\ accepted = {}

Queue(d) ==
    /\ status[d] = "absent"
    /\ status' = [status EXCEPT ![d] = "pending"]
    /\ UNCHANGED <<count, accepted>>

\* The endpoint accepts; the queue may or may not live to record it.
Accept(d) ==
    /\ status[d] = "pending"
    /\ accepted' = accepted \cup {d}
    /\ UNCHANGED <<status, count>>

Deliver(d) ==
    /\ status[d] = "pending" /\ d \in accepted
    /\ status' = [status EXCEPT ![d] = "delivered"]
    /\ UNCHANGED <<count, accepted>>

\* A failure is counted; the MaxRetries-th one gives the delivery up.
CountFailure(d) ==
    /\ status[d] = "pending" /\ count[d] < MaxRetries
    /\ count' = [count EXCEPT ![d] = @ + 1]
    /\ status' = [status EXCEPT ![d] = IF count[d] + 1 = MaxRetries THEN "dead_letter" ELSE @]
    /\ UNCHANGED accepted

Requeue(d) ==
    /\ status[d] = "dead_letter"
    /\ status' = [status EXCEPT ![d] = "pending"]
    /\ count' = [count EXCEPT ![d] = 0]
    /\ UNCHANGED accepted

Next == \E d \in Deliveries : Queue(d) \/ Accept(d) \/ Deliver(d) \/ CountFailure(d) \/ Requeue(d)

Spec == Init /\ [][Next]_vars
=============================================================================
