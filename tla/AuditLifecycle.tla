--------------------------- MODULE AuditLifecycle ---------------------------
(***************************************************************************)
(* What the audit engine promises to a client that only looks at an audit: *)
(* a submitted audit is queued, its result is written by the one job that  *)
(* was started for it and only while that job lives, a result may be       *)
(* withdrawn to "failed" but never goes back to "queued", and an audit     *)
(* that was removed never comes back.  AuditTasks implements it.           *)
(***************************************************************************)
CONSTANT Audits

VARIABLES outcome,  \* what GET /audits/{id} tells of each audit
          live      \* the audits whose job may still act

vars == <<outcome, live>>

Outcome == {"none", "queued", "completed", "failed", "removed"}

LifecycleTypeOK == outcome \in [Audits -> Outcome] /\ live \subseteq Audits

Init == outcome = [a \in Audits |-> "none"] /\ live = {}

Submit(a) ==
    /\ outcome[a] = "none"
    /\ outcome' = [outcome EXCEPT ![a] = "queued"]
    /\ live' = live \cup {a}

\* The job settles the audit; a completed one may still turn into a failed one.
Settle(a, o) ==
    /\ a \in live
    /\ <<outcome[a], o>> \in {<<"queued", "completed">>, <<"queued", "failed">>,
                              <<"completed", "failed">>}
    /\ outcome' = [outcome EXCEPT ![a] = o]
    /\ UNCHANGED live

\* Jobs end: on their own one by one, or several at once with their worker.
Retire(ended) ==
    /\ ended # {} /\ ended \subseteq live
    /\ live' = live \ ended
    /\ UNCHANGED outcome

Remove(a) ==
    /\ outcome[a] \in {"queued", "completed", "failed"}
    /\ outcome' = [outcome EXCEPT ![a] = "removed"]
    /\ UNCHANGED live

Next ==
    \/ \E a \in Audits : Submit(a) \/ Remove(a) \/ Settle(a, "completed") \/ Settle(a, "failed")
    \/ \E ended \in SUBSET live : Retire(ended)

Spec == Init /\ [][Next]_vars

RetireWith(a) == \E ended \in SUBSET live : a \in ended /\ Retire(ended)

\* Every job comes to an end.
FairSpec == Spec /\ \A a \in Audits : WF_vars(RetireWith(a))
=============================================================================
