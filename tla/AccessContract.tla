--------------------------- MODULE AccessContract ---------------------------
(***************************************************************************)
(* What the key check promises of the keys: each is made once and revoked  *)
(* for good, and every change is the doing of one request.  That request   *)
(* came with a key that was active, was cleared at a later instant at      *)
(* which this key was active still and an administrator's, and changes one *)
(* key, the one it named, or makes one.                                    *)
(*                                                                         *)
(* What is not promised: that its own key is active when it takes effect.  *)
(* A cleared request of a key that is revoked meanwhile goes on.           *)
(***************************************************************************)
CONSTANTS Requests, Keys, NoKey, InitialKeys, AdminKeys

VARIABLES key,      \* the state of each key
          request   \* how far each request is, and what it asks for with which key

vars == <<key, request>>

Idle(state) == [state |-> state, op |-> "none", by |-> NoKey, target |-> NoKey]

\* To revoke is to name a key.
Asks == [op: {"none", "create"}, target: {NoKey}] \cup [op: {"revoke"}, target: Keys]

Init ==
    /\ key = [k \in Keys |-> IF k \in InitialKeys THEN "active" ELSE "absent"]
    /\ request = [r \in Requests |-> Idle("new")]

Present(r) ==
    /\ request[r].state = "new"
    /\ \E k \in Keys, ask \in Asks :
         /\ key[k] = "active"
         /\ request' = [request EXCEPT ![r] = [state |-> "waiting", op |-> ask.op,
                                               by |-> k, target |-> ask.target]]
    /\ UNCHANGED key

Clear(r) ==
    /\ request[r].state = "waiting"
    /\ key[request[r].by] = "active" /\ request[r].by \in AdminKeys
    /\ request' = [request EXCEPT ![r] = [@ EXCEPT !.state = "cleared"]]
    /\ UNCHANGED key

\* An effect is the end of the request: there is no second one.
TakesEffect(r, op, k, from, to) ==
    /\ request[r].state = "cleared" /\ request[r].op = op
    /\ key[k] \in from
    /\ key' = [key EXCEPT ![k] = to]
    /\ request' = [request EXCEPT ![r] = Idle("over")]

Create(r) == \E k \in Keys : TakesEffect(r, "create", k, {"absent"}, "active")
Revoke(r) == TakesEffect(r, "revoke", request[r].target, {"active", "revoked"}, "revoked")

\* Served without an effect, refused, failed, or lost with the worker.
End(R) ==
    /\ request' = [r \in Requests |-> IF r \in R THEN Idle("over") ELSE request[r]]
    /\ UNCHANGED key

Next ==
    \/ \E R \in SUBSET Requests : End(R)
    \/ \E r \in Requests : Present(r) \/ Clear(r) \/ Create(r) \/ Revoke(r)

Spec == Init /\ [][Next]_vars
=============================================================================
