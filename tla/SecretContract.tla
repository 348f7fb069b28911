--------------------------- MODULE SecretContract ---------------------------
(***************************************************************************)
(* What the secret vault promises: a register per name.  A request takes   *)
(* effect at most once, at an instant between its call and its answer; an  *)
(* answered request did take effect, and a read answers the value the name *)
(* had at that instant.  A request that is refused or lost may or may not  *)
(* have taken effect, but never does so later.                             *)
(***************************************************************************)
CONSTANTS Requests, Names, Secrets, NoRow

VARIABLES value,   \* of each name; NoRow before it is first set
          job,     \* what each request asks for
          state    \* how far each request is

vars == <<value, job, state>>

NoJob == [op |-> "none", name |-> NoRow, value |-> NoRow]
WriteJobs == [op: {"write"}, name: Names, value: Secrets]
ReadJobs == [op: {"read"}, name: Names, value: {NoRow}]   \* not yet read

Init ==
    /\ value = [n \in Names |-> NoRow]
    /\ job = [r \in Requests |-> NoJob]
    /\ state = [r \in Requests |-> "new"]

Call(r) ==
    /\ state[r] = "new"
    /\ state' = [state EXCEPT ![r] = "open"]
    /\ \E j \in WriteJobs \cup ReadJobs : job' = [job EXCEPT ![r] = j]
    /\ UNCHANGED value

Write(r) ==
    /\ state[r] = "open" /\ job[r].op = "write"
    /\ value' = [value EXCEPT ![job[r].name] = job[r].value]
    /\ state' = [state EXCEPT ![r] = "applied"]
    /\ UNCHANGED job

\* A read remembers the value it will answer.
Read(r) ==
    /\ state[r] = "open" /\ job[r].op = "read" /\ value[job[r].name] # NoRow
    /\ job' = [job EXCEPT ![r] = [@ EXCEPT !.value = value[job[r].name]]]
    /\ state' = [state EXCEPT ![r] = "applied"]
    /\ UNCHANGED value

Answer(r) ==
    /\ state[r] = "applied"
    /\ state' = [state EXCEPT ![r] = "answered"]
    /\ UNCHANGED <<value, job>>

\* Refused with an error, or lost with the worker that served them.
Refuse(R) ==
    /\ state' = [r \in Requests |-> IF r \in R /\ state[r] \in {"open", "applied"}
                                      THEN "refused" ELSE state[r]]
    /\ UNCHANGED <<value, job>>

Next ==
    \/ \E r \in Requests : Call(r) \/ Write(r) \/ Read(r) \/ Answer(r)
    \/ \E R \in SUBSET Requests : Refuse(R)

Spec == Init /\ [][Next]_vars
=============================================================================
