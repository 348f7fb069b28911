------------------------------ MODULE ApiAccess ------------------------------
(***************************************************************************)
(* Who is let in: the dependencies every protected endpoint runs first     *)
(* (look the key up, check its expiry, ask the rate limiter, stamp         *)
(* last_used_at; for administrators look it up again and check the scope)  *)
(* and the two handlers that create and revoke keys.                       *)
(*                                                                         *)
(* A handler never awaits, so a worker runs one request at a time; those   *)
(* of different workers interleave at every database statement.  Each      *)
(* process has two rate limiters in its memory: that of backend.main, for  *)
(* the endpoints defined there, and that of backend.dependencies, for the  *)
(* routers.                                                                *)
(***************************************************************************)
EXTENDS Naturals, FiniteSets

CONSTANTS
    Requests,     \* requests; each is made once
    Workers, NoWorker,
    Keys, NoKey,
    InitialKeys,  \* keys that are in the table at the start
    AdminKeys,    \* keys with the scope admin
    Limit,        \* rate_limit of each key
    ExpiresAt,    \* expires_at of each key
    Never,        \* no expiry (None)
    Window,       \* length of the limiters' window
    MaxClock, MaxRestarts, MaxDbErrors   \* bounds on time and faults

ASSUME AccessAssumption ==
    /\ IsFiniteSet(Requests)
    /\ NoWorker \notin Workers /\ NoKey \notin Keys
    /\ InitialKeys \subseteq Keys /\ AdminKeys \subseteq Keys
    /\ Limit \in [Keys -> Nat]
    /\ Never \notin Nat /\ ExpiresAt \in [Keys -> Nat \cup {Never}]
    /\ Window \in Nat /\ MaxClock \in Nat
    /\ MaxRestarts \in Nat /\ MaxDbErrors \in Nat

VARIABLES
    key,       \* table api_keys: the state of each key
    log,       \* table admin_audit_logs: entries of the key handlers
    request,   \* the handlers
    hits,      \* the limiters: the requests whose times they remember
    admitted,  \* history: the requests each limiter let through since its process began
    clock, restarts, dbErrors

vars == <<key, log, request, hits, admitted, clock, restarts, dbErrors>>
limits == <<hits, admitted>>
world == <<clock, restarts, dbErrors>>

KeyState == {"absent", "active", "revoked"}

\* Endpoints, and the limiter that each one asks: those defined in main.py
\* (dashboard and metrics, scheduler and dead letters) and those of the routers.
UserOps == {"dashboard", "use"}
AdminOps == {"scheduler", "create", "revoke"}
Ops == UserOps \cup AdminOps
Copies == {"main", "dependencies"}
CopyOf(op) == IF op \in {"dashboard", "scheduler"} THEN "main" ELSE "dependencies"
Limiters == Workers \X Copies

\* counted: past the limiter; stamped: before the second look-up; inside: in the
\* handler; logged, revoking, broken: in the handlers of keys.py; how it ended.
OpenPC == {"counted", "stamped", "inside", "logged", "revoking", "broken"}
EndPC == {"served", "refused", "failed", "lost"}
Request == [pc: {"new"} \cup OpenPC \cup EndPC, op: Ops \cup {"none"},
            key: Keys \cup {NoKey}, target: Keys \cup {NoKey},
            at: 0..MaxClock,                \* when it came
            worker: Workers \cup {NoWorker}]   \* the worker it occupies
NewRequest == [pc |-> "new", op |-> "none", key |-> NoKey, target |-> NoKey,
               at |-> 0, worker |-> NoWorker]

WorkerFree(w) == \A r \in Requests : request[r].worker # w
Entry(r, action) == [request |-> r, action |-> action]
Goto(r, pc) == request' = [request EXCEPT ![r] = [@ EXCEPT !.pc = pc]]
Ended(q, pc) == [q EXCEPT !.pc = pc, !.op = "none", !.worker = NoWorker]
Finish(r, pc) == request' = [request EXCEPT ![r] = Ended(@, pc)]

\* What is_allowed keeps of one key, and of the limiter as a whole.
Recent(l, k) == {q \in hits[l] : request[q].key = k /\ clock - request[q].at < Window}
Pruned(l, k) == Recent(l, k) \cup {q \in hits[l] : request[q].key # k}

-----------------------------------------------------------------------------
Init ==
    /\ key = [k \in Keys |-> IF k \in InitialKeys THEN "active" ELSE "absent"]
    /\ log = {}
    /\ request = [r \in Requests |-> NewRequest]
    /\ hits = [l \in Limiters |-> {}] /\ admitted = [l \in Limiters |-> {}]
    /\ clock = 0 /\ restarts = 0 /\ dbErrors = 0

\* A request comes to a worker that is free; nobody knows a key before it is made.
Comes(r, w, k) ==
    /\ request[r].pc = "new"
    /\ WorkerFree(w)
    /\ key[k] # "absent"

\* 403: no row with this key and revoked == False.
RefuseRevoked(r, w, k) ==
    /\ Comes(r, w, k)
    /\ key[k] = "revoked"
    /\ Finish(r, "refused")
    /\ UNCHANGED <<key, log, limits, world>>

\* expires_at is read back without a time zone and compared with a time that has
\* one: the comparison raises, before the expiry and after it.
CompareExpiry(r, w, k) ==
    /\ Comes(r, w, k)
    /\ key[k] = "active"
    /\ ExpiresAt[k] # Never
    /\ request' = [request EXCEPT ![r] = [@ EXCEPT !.pc = "failed", !.key = k, !.at = clock]]
    /\ UNCHANGED <<key, log, limits, world>>

AsksLimiter(r, w, k) ==
    /\ Comes(r, w, k)
    /\ key[k] = "active"
    /\ ExpiresAt[k] = Never

\* 429: a request that is refused is not counted.
Throttle(r, w, op, k) ==
    LET l == <<w, CopyOf(op)>> IN
    /\ AsksLimiter(r, w, k)
    /\ Cardinality(Recent(l, k)) >= Limit[k]
    /\ hits' = [hits EXCEPT ![l] = Pruned(l, k)]
    /\ Finish(r, "refused")
    /\ UNCHANGED <<key, log, admitted, world>>

\* Mutant: a full window admits one request more.
AdmitOneMore(r, w, op, k, target) ==
    LET l == <<w, CopyOf(op)>> IN
    /\ AsksLimiter(r, w, k)
    /\ Cardinality(Recent(l, k)) <= Limit[k]
    /\ hits' = [hits EXCEPT ![l] = Pruned(l, k) \cup {r}]
    /\ admitted' = [admitted EXCEPT ![l] = @ \cup {r}]
    /\ request' = [request EXCEPT ![r] =
                     [pc |-> "counted", op |-> op, key |-> k, target |-> target,
                      at |-> clock, worker |-> w]]
    /\ UNCHANGED <<key, log, world>>

Admit(r, w, op, k, target) ==
    LET l == <<w, CopyOf(op)>> IN
    /\ AsksLimiter(r, w, k)
    /\ Cardinality(Recent(l, k)) < Limit[k]
    /\ hits' = [hits EXCEPT ![l] = Pruned(l, k) \cup {r}]
    /\ admitted' = [admitted EXCEPT ![l] = @ \cup {r}]
    /\ request' = [request EXCEPT ![r] =
                     [pc |-> "counted", op |-> op, key |-> k, target |-> target,
                      at |-> clock, worker |-> w]]
    /\ UNCHANGED <<key, log, world>>

\* Mutant: the row is written back as it was read, revoked = False included.
StampWritesRow(r) ==
    /\ request[r].pc = "counted"
    /\ key' = [key EXCEPT ![request[r].key] = "active"]
    /\ IF request[r].op \in UserOps THEN Finish(r, "served") ELSE Goto(r, "stamped")
    /\ UNCHANGED <<log, limits, world>>

\* The commit of last_used_at writes that column only.  An ordinary endpoint
\* runs now; what it does is the matter of the other modules.
Stamp(r) ==
    /\ request[r].pc = "counted"
    /\ IF request[r].op \in UserOps THEN Finish(r, "served") ELSE Goto(r, "stamped")
    /\ UNCHANGED <<key, log, limits, world>>

\* Mutant: the scope is that of the first look-up.
EnterOnFirstLook(r) ==
    /\ request[r].pc = "stamped"
    /\ request[r].key \in AdminKeys
    /\ IF request[r].op = "scheduler" THEN Finish(r, "served") ELSE Goto(r, "inside")
    /\ UNCHANGED <<key, log, limits, world>>

\* verify_admin_api_key looks the key up again ...
EnterAdmin(r) ==
    /\ request[r].pc = "stamped"
    /\ key[request[r].key] = "active" /\ request[r].key \in AdminKeys
    /\ IF request[r].op = "scheduler" THEN Finish(r, "served") ELSE Goto(r, "inside")
    /\ UNCHANGED <<key, log, limits, world>>

\* ... and a key revoked meanwhile is None, which has no scopes (500); one
\* without the scope is refused (403).
KeepOut(r) ==
    /\ request[r].pc = "stamped"
    /\ \/ key[request[r].key] # "active" /\ Finish(r, "failed")
       \/ /\ key[request[r].key] = "active" /\ request[r].key \notin AdminKeys
          /\ Finish(r, "refused")
    /\ UNCHANGED <<key, log, limits, world>>

-----------------------------------------------------------------------------
\* POST /keys logs the creation in a commit of its own ...
LogCreate(r) ==
    /\ request[r].pc = "inside" /\ request[r].op = "create"
    /\ log' = log \cup {Entry(r, "api_key.create")}
    /\ Goto(r, "logged")
    /\ UNCHANGED <<key, limits, world>>

\* ... and inserts a fresh key.
InsertKey(r, k) ==
    /\ request[r].pc = "logged"
    /\ key[k] = "absent"
    /\ key' = [key EXCEPT ![k] = "active"]
    /\ request' = [request EXCEPT ![r] = Ended([@ EXCEPT !.target = k], "served")]
    /\ UNCHANGED <<log, limits, world>>

\* DELETE /keys/{api_key}: 404, or the row is flagged in the session ...
FindKey(r) ==
    /\ request[r].pc = "inside" /\ request[r].op = "revoke"
    /\ IF key[request[r].target] = "absent" THEN Finish(r, "refused") ELSE Goto(r, "revoking")
    /\ UNCHANGED <<key, log, limits, world>>

\* ... and the commit of the log entry writes both.  The commit at the end of
\* the handler finds nothing to do.
RevokeCommit(r) ==
    /\ request[r].pc = "revoking"
    /\ key' = [key EXCEPT ![request[r].target] = "revoked"]
    /\ log' = log \cup {Entry(r, "api_key.revoke")}
    /\ Finish(r, "served")
    /\ UNCHANGED <<limits, world>>

\* Mutant: the except block rolls back, and the handler goes on without the entry.
FinishBrokenAnyway(r) ==
    /\ request[r].pc = "broken"
    /\ IF request[r].op = "create"
         THEN \E k \in Keys :
                /\ key[k] = "absent"
                /\ key' = [key EXCEPT ![k] = "active"]
                /\ request' = [request EXCEPT ![r] = Ended([@ EXCEPT !.target = k], "served")]
         ELSE /\ key' = [key EXCEPT ![request[r].target] = "revoked"]
              /\ Finish(r, "served")
    /\ UNCHANGED <<log, limits, world>>

\* The log entry failed and the handler swallowed the exception: the session
\* awaits a rollback nobody asks for, so that the next commit raises.
FinishBroken(r) ==
    /\ request[r].pc = "broken"
    /\ Finish(r, "failed")
    /\ UNCHANGED <<key, log, limits, world>>

-----------------------------------------------------------------------------
LogsNow(r) == \/ request[r].pc = "inside" /\ request[r].op = "create"
              \/ request[r].pc = "revoking"

\* A statement raises: swallowed where the entry is written, a 500 elsewhere.
DbError(r) ==
    /\ dbErrors < MaxDbErrors
    /\ dbErrors' = dbErrors + 1
    /\ request[r].pc \in OpenPC \ {"broken"}
    /\ IF LogsNow(r) THEN Goto(r, "broken") ELSE Finish(r, "failed")
    /\ UNCHANGED <<key, log, limits, clock, restarts>>

\* A worker dies and begins again with empty limiters.
Restart(w) ==
    /\ restarts < MaxRestarts
    /\ restarts' = restarts + 1
    /\ request' = [r \in Requests |-> IF request[r].worker = w
                                         THEN Ended(request[r], "lost")
                                         ELSE request[r]]
    /\ hits' = [l \in Limiters |-> IF l[1] = w THEN {} ELSE hits[l]]
    /\ admitted' = [l \in Limiters |-> IF l[1] = w THEN {} ELSE admitted[l]]
    /\ UNCHANGED <<key, log, clock, dbErrors>>

Tick ==
    /\ clock < MaxClock
    /\ clock' = clock + 1
    /\ UNCHANGED <<key, log, request, limits, restarts, dbErrors>>

Arrive(r, w, k) ==
    \/ RefuseRevoked(r, w, k) \/ CompareExpiry(r, w, k)
    \/ \E op \in Ops : Throttle(r, w, op, k)
    \/ \E op \in Ops \ {"revoke"} : Admit(r, w, op, k, NoKey)
    \/ \E target \in Keys : Admit(r, w, "revoke", k, target)

HandlerStep(r) ==
    \/ Stamp(r) \/ EnterAdmin(r) \/ KeepOut(r)
    \/ LogCreate(r) \/ (\E k \in Keys : InsertKey(r, k))
    \/ FindKey(r) \/ RevokeCommit(r) \/ FinishBroken(r)

Next ==
    \/ \E r \in Requests, w \in Workers, k \in Keys : Arrive(r, w, k)
    \/ \E r \in Requests : HandlerStep(r) \/ DbError(r)
    \/ \E w \in Workers : Restart(w)
    \/ Tick

Spec == Init /\ [][Next]_vars

-----------------------------------------------------------------------------
(* Properties. *)

\* Type invariant.
TypeOK ==
    /\ key \in [Keys -> KeyState]
    /\ log \subseteq [request: Requests, action: {"api_key.create", "api_key.revoke"}]
    /\ request \in [Requests -> Request]
    /\ hits \in [Limiters -> SUBSET Requests] /\ admitted \in [Limiters -> SUBSET Requests]
    /\ clock \in 0..MaxClock /\ restarts \in 0..MaxRestarts /\ dbErrors \in 0..MaxDbErrors

\* The rate limit: in every window, wherever it begins, a limiter lets through
\* at most rate_limit requests of a key, although it forgets times only when the
\* same key calls again, and refused requests leave no trace.
InWindow(l, k, t) ==
    {r \in admitted[l] : request[r].key = k /\ request[r].at <= t /\ t - request[r].at < Window}
WindowBound ==
    \A l \in Limiters, k \in Keys, t \in 0..MaxClock :
        t <= clock => Cardinality(InWindow(l, k, t)) <= Limit[k]

Created(k) == \E r \in Requests : request[r].target = k /\ Entry(r, "api_key.create") \in log
Revoked(k) == \E r \in Requests : request[r].target = k /\ Entry(r, "api_key.revoke") \in log

\* Administrators' log: every key that was made, and every key that was revoked,
\* has the entry of the request that did it, also where the handler swallows the
\* failure of the entry.
KeyChangesAreLogged ==
    \A k \in Keys : /\ k \notin InitialKeys /\ key[k] # "absent" => Created(k)
                    /\ key[k] = "revoked" => Revoked(k)

\* Revocation is final: a key whose revocation is on record does not come back,
\* although requests that read its row before write to it later.
RevocationIsFinal == \A k \in Keys : Revoked(k) => key[k] = "revoked"

\* A request as the contract knows it: waiting for its second look-up, or cleared.
Waiting == {"counted", "stamped"}
View(r) ==
    LET q == request[r] IN
    IF q.pc \in OpenPC
      THEN [state |-> IF q.pc \in Waiting THEN "waiting" ELSE "cleared",
            op |-> IF q.op \in {"create", "revoke"} THEN q.op ELSE "none",
            by |-> q.key, target |-> q.target]
      ELSE [state |-> IF q.pc = "new" THEN "new" ELSE "over",
            op |-> "none", by |-> NoKey, target |-> NoKey]

Contract == INSTANCE AccessContract WITH request <- [r \in Requests |-> View(r)]

\* Refinement: every key is made once and revoked for good, each change the doing of one
\* request whose key was looked up twice, whatever other workers commit between the two
\* look-ups, the log entry and the write (dependencies.py:127-164, keys.py:13-66).
ImplementsContract == Contract!Spec
=============================================================================
