----------------------------- MODULE AdminVault -----------------------------
(***************************************************************************)
(* The secret vault and the administrators' action log: the handlers that  *)
(* write, rotate and read a secret, each a sequence of database statements *)
(* with a commit of its own for the log entry.  A handler never awaits, so *)
(* a worker runs one at a time; handlers of different workers interleave   *)
(* at every statement.                                                     *)
(***************************************************************************)
EXTENDS Naturals

CONSTANTS
    Requests,    \* admin requests; each is made once
    Workers, NoWorker,
    Names,       \* names of secrets
    Values,      \* values a client may send
    Empty,       \* the empty string, the one that is falsy; a client may send it or not
    NoRow,       \* no row of that name (None)
    MaxRestarts, MaxDbErrors   \* bounds on the faults of a behaviour

ASSUME VaultAssumption ==
    /\ NoWorker \notin Workers
    /\ NoRow \notin Values \cup Requests \cup Names
    /\ Values \cap Requests = {}
    /\ MaxRestarts \in Nat /\ MaxDbErrors \in Nat

VARIABLES
    vault,     \* table secret_vault: the value of each name
    log,       \* table admin_audit_logs: entries, all with success = True
    request,   \* the handlers
    restarts, dbErrors

vars == <<vault, log, request, restarts, dbErrors>>
faults == <<restarts, dbErrors>>

\* rotate_secret draws a fresh token: the request itself stands for it.
Secrets == Values \cup Requests

Ops == {"upsert", "rotate", "read"}
Action == {"secret.create", "secret.update", "secret.rotate", "secret.read"}

\* Where a handler is: before its first query; after upsert's own look-up; in
\* _set_secret; after the value is set; and how it ended.
SetPC == {"setting", "selecting", "inserting", "changing", "unchanged"}
OpenPC == {"called", "looked", "found", "set"} \cup SetPC
EndPC == {"answered", "failed", "lost"}
Request == [pc: {"new"} \cup OpenPC \cup EndPC, op: Ops \cup {"none"},
            name: Names \cup {NoRow}, value: Secrets \cup {NoRow},
            worker: Workers \cup {NoWorker},
            existing: BOOLEAN,     \* the look-up found a truthy value
            applied: BOOLEAN]      \* history: the handler took effect
NewRequest == [pc |-> "new", op |-> "none", name |-> NoRow, value |-> NoRow,
               worker |-> NoWorker, existing |-> FALSE, applied |-> FALSE]

Open(r) == request[r].pc \in OpenPC
WorkerFree(w) == \A r \in Requests : Open(r) => request[r].worker # w
Truthy(v) == v \notin {NoRow, Empty}
Entry(r, action) == [request |-> r, action |-> action]
Logged(r) == \E e \in log : e.request = r

Goto(r, pc) == request' = [request EXCEPT ![r] = [@ EXCEPT !.pc = pc]]
Took(r, pc) == request' = [request EXCEPT ![r] = [@ EXCEPT !.pc = pc, !.applied = TRUE]]

-----------------------------------------------------------------------------
Init ==
    /\ vault = [n \in Names |-> NoRow]
    /\ log = {}
    /\ request = [r \in Requests |-> NewRequest]
    /\ restarts = 0 /\ dbErrors = 0

Call(r, w, op, n, v) ==
    /\ request[r].pc = "new"
    /\ WorkerFree(w)
    /\ request' = [request EXCEPT ![r] =
                     [pc |-> IF op = "rotate" THEN "setting" ELSE "called", op |-> op,
                      name |-> n, value |-> v, worker |-> w,
                      existing |-> FALSE, applied |-> FALSE]]
    /\ UNCHANGED <<vault, log, faults>>

\* POST /secrets/{name}: look the name up, log what is about to happen ...
LookUp(r) ==
    /\ request[r].pc = "called" /\ request[r].op = "upsert"
    /\ request' = [request EXCEPT ![r] = [@ EXCEPT !.pc = "looked",
                                           !.existing = Truthy(vault[request[r].name])]]
    /\ UNCHANGED <<vault, log, faults>>

\* Mutant: only the creation of a secret is logged.
LogUpsertCreatesOnly(r) ==
    /\ request[r].pc = "looked"
    /\ log' = IF request[r].existing THEN log ELSE log \cup {Entry(r, "secret.create")}
    /\ Goto(r, "setting")
    /\ UNCHANGED <<vault, faults>>

\* ... with success, in a commit of its own, before it is tried.
LogUpsert(r) ==
    /\ request[r].pc = "looked"
    /\ log' = log \cup {Entry(r, IF request[r].existing THEN "secret.update"
                                                      ELSE "secret.create")}
    /\ Goto(r, "setting")
    /\ UNCHANGED <<vault, faults>>

\* _set_secret looks the name up again; an empty value counts as none.
SetSecret(r) ==
    /\ request[r].pc = "setting"
    /\ Goto(r, IF Truthy(vault[request[r].name]) THEN "selecting" ELSE "inserting")
    /\ UNCHANGED <<vault, log, faults>>

\* Mutant: the row is taken for the new value without being compared.
SelectRowUncompared(r) ==
    /\ request[r].pc = "selecting"
    /\ Took(r, "unchanged")
    /\ UNCHANGED <<vault, log, faults>>

\* It loads the row; an assignment of the value the row has issues no UPDATE.
SelectRow(r) ==
    /\ request[r].pc = "selecting"
    /\ IF vault[request[r].name] = request[r].value
         THEN Took(r, "unchanged")
         ELSE Goto(r, "changing")
    /\ UNCHANGED <<vault, log, faults>>

UpdateRow(r) ==
    /\ request[r].pc \in {"changing", "unchanged"}
    /\ vault' = IF request[r].pc = "changing"
                  THEN [vault EXCEPT ![request[r].name] = request[r].value]
                  ELSE vault
    /\ Took(r, "set")
    /\ UNCHANGED <<log, faults>>

\* Mutant: a duplicate name is ignored, and the request answered.
InsertOrIgnore(r) ==
    LET n == request[r].name IN
    /\ request[r].pc = "inserting"
    /\ vault' = [vault EXCEPT ![n] = IF @ = NoRow THEN request[r].value ELSE @]
    /\ IF vault[n] = NoRow THEN Took(r, "set") ELSE Goto(r, "set")
    /\ UNCHANGED <<log, faults>>

\* name is unique: the INSERT raises if the row is there, empty or inserted since.
InsertRow(r) ==
    LET n == request[r].name IN
    /\ request[r].pc = "inserting"
    /\ IF vault[n] = NoRow
         THEN /\ vault' = [vault EXCEPT ![n] = request[r].value]
              /\ Took(r, "set")
         ELSE /\ Goto(r, "failed")
              /\ UNCHANGED vault
    /\ UNCHANGED <<log, faults>>

AnswerUpsert(r) ==
    /\ request[r].pc = "set" /\ request[r].op = "upsert"
    /\ Goto(r, "answered")
    /\ UNCHANGED <<vault, log, faults>>

\* POST /secrets/{name}/rotate logs after the change.
LogRotate(r) ==
    /\ request[r].pc = "set" /\ request[r].op = "rotate"
    /\ log' = log \cup {Entry(r, "secret.rotate")}
    /\ Goto(r, "answered")
    /\ UNCHANGED <<vault, faults>>

\* GET /secrets/{name}: 404 without a row; an empty value is a value.
ReadSecret(r) ==
    LET v == vault[request[r].name] IN
    /\ request[r].pc = "called" /\ request[r].op = "read"
    /\ request' = [request EXCEPT ![r] =
                     IF v = NoRow
                       THEN [@ EXCEPT !.pc = "failed"]
                       ELSE [@ EXCEPT !.pc = "found", !.value = v, !.applied = TRUE]]
    /\ UNCHANGED <<vault, log, faults>>

LogRead(r) ==
    /\ request[r].pc = "found"
    /\ log' = log \cup {Entry(r, "secret.read")}
    /\ Goto(r, "answered")
    /\ UNCHANGED <<vault, faults>>

-----------------------------------------------------------------------------
\* A statement raises: the handler answers 500, its transaction is rolled back.
DbError(r) ==
    /\ dbErrors < MaxDbErrors
    /\ dbErrors' = dbErrors + 1
    /\ Open(r)
    /\ Goto(r, "failed")
    /\ UNCHANGED <<vault, log, restarts>>

Restart(w) ==
    /\ restarts < MaxRestarts
    /\ restarts' = restarts + 1
    /\ request' = [r \in Requests |-> IF Open(r) /\ request[r].worker = w
                                         THEN [request[r] EXCEPT !.pc = "lost"]
                                         ELSE request[r]]
    /\ UNCHANGED <<vault, log, dbErrors>>

HandlerStep(r) ==
    \/ LookUp(r) \/ LogUpsert(r) \/ SetSecret(r) \/ SelectRow(r) \/ UpdateRow(r)
    \/ InsertRow(r) \/ AnswerUpsert(r) \/ LogRotate(r) \/ ReadSecret(r) \/ LogRead(r)

Next ==
    \/ \E r \in Requests : HandlerStep(r) \/ DbError(r)
    \/ \E w \in Workers : Restart(w)
    \/ \E r \in Requests, w \in Workers, n \in Names :
         \/ \E v \in Values : Call(r, w, "upsert", n, v)
         \/ Call(r, w, "rotate", n, r)
         \/ Call(r, w, "read", n, NoRow)

Spec == Init /\ [][Next]_vars

-----------------------------------------------------------------------------
(* Properties. *)

\* Type invariant.
TypeOK ==
    /\ vault \in [Names -> Secrets \cup {NoRow}]
    /\ log \subseteq [request: Requests, action: Action]
    /\ request \in [Requests -> Request]
    /\ restarts \in 0..MaxRestarts /\ dbErrors \in 0..MaxDbErrors

\* What a handler may rely on between two statements: it has taken effect from
\* the statement that sets the value on, and not before; an upsert that got past
\* its look-up is logged.
HandlerOK(r) ==
    /\ request[r].pc \in {"called", "looked", "setting", "selecting", "inserting", "changing"}
         => ~request[r].applied
    /\ request[r].pc \in {"unchanged", "set", "found"} => request[r].applied
    /\ request[r].op = "upsert" /\ (request[r].pc \in SetPC \/ request[r].applied) => Logged(r)
    /\ request[r].op = "read" => /\ request[r].pc \in {"called", "found"} \cup EndPC
                                 /\ ~request[r].applied => request[r].value = NoRow
    /\ request[r].op = "rotate" => request[r].pc \in SetPC \cup {"set"} \cup EndPC
    /\ request[r].op = "upsert" => request[r].pc # "found"
    /\ request[r].op \in {"upsert", "rotate"} => request[r].value \in Secrets
    /\ request[r].pc = "new" => request[r] = NewRequest
    /\ request[r].pc # "new" => request[r].op \in Ops /\ request[r].name \in Names
HandlerInv == \A r \in Requests : HandlerOK(r)

\* Every value in the vault is the one some request asked for and took effect
\* with, and an upsert takes effect only after its log entry is committed.
EveryChangeHasAnAuthor ==
    /\ \A n \in Names : vault[n] # NoRow =>
         \E r \in Requests : /\ request[r].op \in {"upsert", "rotate"}
                             /\ request[r].name = n /\ request[r].value = vault[n]
                             /\ request[r].applied
    /\ \A r \in Requests : request[r].op = "upsert" /\ request[r].applied => Logged(r)

\* No answer leaves the server without its log entry, and none that claims to
\* have set a value without having set it: neither a race nor a fault in
\* between lets one through.
AnswersAreAccountable ==
    \A r \in Requests : request[r].pc = "answered" => Logged(r) /\ request[r].applied

\* The log records outcomes: an entry of a request that ended tells of something done.
LoggedSuccessHappened ==
    \A r \in Requests : Logged(r) /\ request[r].pc \in EndPC => request[r].applied

State(r) ==
    CASE request[r].pc = "new" -> "new"
      [] Open(r) -> IF request[r].applied THEN "applied" ELSE "open"
      [] request[r].pc = "answered" -> "answered"
      [] OTHER -> "refused"

Job(r) == [op |-> IF request[r].op \in {"upsert", "rotate"} THEN "write" ELSE request[r].op,
           name |-> request[r].name, value |-> request[r].value]

Contract == INSTANCE SecretContract
              WITH value <- vault,
                   job <- [r \in Requests |-> Job(r)],
                   state <- [r \in Requests |-> State(r)]

\* Refinement: each request takes effect at one instant between its call and its answer.
ImplementsContract == Contract!Spec
=============================================================================
