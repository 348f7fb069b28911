---------------------------- MODULE MCAuditTasks ----------------------------
(* The instances of AuditTasks that TLC checks. *)
EXTENDS AuditTasks, TLC

\* Audits, workers and requests are interchangeable, and no invariant names one.
MCSymmetry == Permutations(Audits) \cup Permutations(Workers) \cup Permutations(Clients)
=============================================================================
