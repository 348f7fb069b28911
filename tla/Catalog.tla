------------------------------ MODULE Catalog ------------------------------
(***************************************************************************)
(* Agents, the audits that refer to them, and the handlers that list,      *)
(* count, delete and restore them.                                         *)
(*                                                                         *)
(* Handlers run on several workers, so that their statements interleave.   *)
(* A session reads a row again after each of its commits: what a handler   *)
(* returns after it wrote its log entry is fetched row by row once more.   *)
(* Deleting an agent loads its audits and sets their agent_id to NULL,     *)
(* which is what a relationship without a cascade does.  PostgreSQL        *)
(* enforces audits.agent_id; SQLite, as configured, does not.              *)
(***************************************************************************)
EXTENDS Naturals, FiniteSets

CONSTANTS
    Agents, Audits, Requests,
    NoAgent,      \* agent_id is NULL
    File          \* the agents in the file that an administrator restores

ASSUME CatalogAssumption ==
    /\ NoAgent \notin Agents
    /\ File \subseteq Agents
    /\ IsFiniteSet(Audits)

VARIABLES
    database,   \* which database the server runs on
    agents,     \* the rows of table agents
    audits,     \* the rows of table audits: agent_id and status
    request,    \* the handlers in progress
    born        \* history: every agent id that was ever used

vars == <<database, agents, audits, request, born>>

-----------------------------------------------------------------------------
AuditRow == [agent: Agents \cup {NoAgent},
             status: {"none", "queued", "completed", "failed", "deleted"}]
NoRow == [agent |-> NoAgent, status |-> "none"]
Gone == [agent |-> NoAgent, status |-> "deleted"]
Present(a) == audits[a].status \in {"queued", "completed", "failed"}
AuditsOf(g) == {a \in Audits : Present(a) /\ audits[a].agent = g}
WithStatus(s) == {a \in Audits : audits[a].status = s}

FreePC == {"idle", "answered", "refused"}
Request == [pc: FreePC \cup {"found", "loaded", "deleting", "listed", "refreshing",
                             "restoring", "restored", "totalled", "half"},
            agent: Agents \cup {NoAgent},   \* the agent to delete
            audits: SUBSET Audits,          \* its audits as loaded; the audit to delete
            todo: SUBSET Agents,            \* rows still to be read
            seen: SUBSET Agents,            \* rows read, or missing, so far
            total: 0..Cardinality(Audits), done: 0..Cardinality(Audits),
            alive: SUBSET Agents,           \* history: agents since the log entry
            late: SUBSET Audits]            \* history: audits since the first count
Free == [pc |-> "idle", agent |-> NoAgent, audits |-> {}, todo |-> {}, seen |-> {},
         total |-> 0, done |-> 0, alive |-> {}, late |-> {}]

TypeOK ==
    /\ database \in {"sqlite", "postgresql"}
    /\ agents \subseteq Agents /\ born \subseteq Agents
    /\ audits \in [Audits -> AuditRow]
    /\ request \in [Requests -> Request]

Init ==
    /\ database \in {"sqlite", "postgresql"}
    /\ agents = {} /\ born = File
    /\ audits = [a \in Audits |-> NoRow]
    /\ request = [r \in Requests |-> Free]

Ends(r, pc) == request' = [request EXCEPT ![r] = [Free EXCEPT !.pc = pc]]

-----------------------------------------------------------------------------
(* The audits. *)

\* Mutant: audits.agent_id is declared without its foreign key.
MayReferUnchecked(g) == g = g
MayRefer(g) == database = "postgresql" => g \in agents

\* POST /audit takes the agent_id of the body as it is.
CreateAudit(a, g) ==
    /\ audits[a] = NoRow
    /\ MayRefer(g)
    /\ audits' = [audits EXCEPT ![a] = [agent |-> g, status |-> "queued"]]
    /\ request' = [r \in Requests |-> IF request[r].pc = "totalled"
                                       THEN [request[r] EXCEPT !.late = @ \cup {a}]
                                       ELSE request[r]]
    /\ UNCHANGED <<database, agents, born>>

\* The audit engine (AuditTasks) gives the audit its result.
Settle(a, status) ==
    /\ audits[a].status = "queued"
    /\ audits' = [audits EXCEPT ![a].status = status]
    /\ UNCHANGED <<database, agents, request, born>>

DeleteAudit(r, a) ==
    /\ Present(a)
    /\ request[r].pc \in FreePC
    /\ request' = [request EXCEPT ![r] = [Free EXCEPT !.pc = "deleting", !.audits = {a}]]
    /\ UNCHANGED <<database, agents, audits, born>>

\* The task row that still refers to the audit keeps it on PostgreSQL.
DeleteAuditCommit(r) ==
    /\ request[r].pc = "deleting"
    /\ IF database = "postgresql"
       THEN Ends(r, "refused") /\ UNCHANGED audits
       ELSE /\ audits' = [a \in Audits |-> IF a \in request[r].audits THEN Gone ELSE audits[a]]
            /\ Ends(r, "answered")
    /\ UNCHANGED <<database, agents, born>>

-----------------------------------------------------------------------------
(* The agents. *)

\* History: the requests whose entry is written see these agents come.
Informed(new) ==
    [r \in Requests |-> IF request[r].pc = "refreshing"
                        THEN [request[r] EXCEPT !.alive = @ \cup new] ELSE request[r]]

\* POST /agents: the id is fresh; the new row is read back after the commit.
CreateAgent(r, g) ==
    /\ g \notin born
    /\ request[r].pc \in FreePC
    /\ agents' = agents \cup {g} /\ born' = born \cup {g}
    /\ request' = [Informed({g}) EXCEPT ![r] = [Free EXCEPT !.pc = "refreshing", !.todo = {g},
                                                             !.alive = {g}]]
    /\ UNCHANGED <<database, audits>>

FindAgent(r, g) ==
    /\ g \in agents
    /\ request[r].pc \in FreePC
    /\ request' = [request EXCEPT ![r] = [Free EXCEPT !.pc = "found", !.agent = g]]
    /\ UNCHANGED <<database, agents, audits, born>>

\* The flush of the deletion loads agent.audits...
LoadAudits(r) ==
    /\ request[r].pc = "found"
    /\ request' = [request EXCEPT ![r] = [@ EXCEPT !.pc = "loaded",
                                                    !.audits = AuditsOf(request[r].agent)]]
    /\ UNCHANGED <<database, agents, audits, born>>

Detached(loaded) ==
    [a \in Audits |-> IF a \in loaded THEN [audits[a] EXCEPT !.agent = NoAgent] ELSE audits[a]]

\* Mutant: the audits are detached in a transaction of their own, before the agent.
DetachFirst(r, ok) == audits' = Detached(request[r].audits)
DetachLoaded(r, ok) ==
    audits' = IF ok THEN Detached(request[r].audits) ELSE audits

\* ...and one transaction detaches those and deletes the agent.  It is rolled back
\* if one of them is gone, or if an audit it did not load refers to the agent and
\* the database enforces the key.  That the agent is gone already only warns.
DeleteAgentCommit(r) ==
    LET g == request[r].agent
        loaded == request[r].audits
        ok == /\ \A a \in loaded : Present(a)
              /\ database = "postgresql" => AuditsOf(g) \subseteq loaded
    IN  /\ request[r].pc = "loaded"
        /\ DetachLoaded(r, ok)
        /\ agents' = IF ok THEN agents \ {g} ELSE agents
        /\ Ends(r, IF ok THEN "answered" ELSE "refused")
        /\ UNCHANGED <<database, born>>

\* GET /admin/agents reads the rows, commits its log entry, and reads every row
\* again while it builds the answer.
ListAgentsAdmin(r) ==
    /\ request[r].pc \in FreePC
    /\ request' = [request EXCEPT ![r] = [Free EXCEPT !.pc = "listed", !.todo = agents]]
    /\ UNCHANGED <<database, agents, audits, born>>

LogListing(r) ==
    /\ request[r].pc = "listed"
    /\ request' = [request EXCEPT ![r] = [@ EXCEPT !.pc = "refreshing", !.alive = agents]]
    /\ UNCHANGED <<database, agents, audits, born>>

\* Mutant: the rows of the first query are returned (expire_on_commit off).
RefreshStale(r, g) ==
    request' = [request EXCEPT ![r].todo = @ \ {g}, ![r].seen = @ \cup {g}]

\* A row that is gone raises, and the request fails.
Refresh(r, g) ==
    IF g \in agents THEN request' = [request EXCEPT ![r].todo = @ \ {g}, ![r].seen = @ \cup {g}]
                    ELSE Ends(r, "refused")

RefreshAgent(r, g) ==
    /\ request[r].pc = "refreshing"
    /\ g \in request[r].todo
    /\ Refresh(r, g)
    /\ UNCHANGED <<database, agents, audits, born>>

AnswerListing(r) ==
    /\ request[r].pc = "refreshing" /\ request[r].todo = {}
    /\ request' = [request EXCEPT ![r].pc = "answered"]
    /\ UNCHANGED <<database, agents, audits, born>>

-----------------------------------------------------------------------------
(* POST /admin/backup and POST /admin/restore. *)

\* The backup names the class Audit, which its module does not import: every request
\* fails, before it writes a file, a record or an entry.
Backup(r) ==
    /\ request[r].pc \in FreePC
    /\ Ends(r, "refused")
    /\ UNCHANGED <<database, agents, audits, born>>

Restore(r) ==
    /\ request[r].pc \in FreePC
    /\ request' = [request EXCEPT ![r] = [Free EXCEPT !.pc = "restoring", !.todo = File]]
    /\ UNCHANGED <<database, agents, audits, born>>

\* One query for each agent of the file; "seen" keeps those that are missing.
CheckAgent(r, g) ==
    /\ request[r].pc = "restoring"
    /\ g \in request[r].todo
    /\ request' = [request EXCEPT ![r].todo = @ \ {g},
                                  ![r].seen = IF g \in agents THEN @ ELSE @ \cup {g}]
    /\ UNCHANGED <<database, agents, audits, born>>

\* One commit adds all of them or none: another restore may have come first, and
\* SQLite does not take the created_at of a file, which is a string.
RestoreCommit(r) ==
    LET missing == request[r].seen
        ok == /\ missing \cap agents = {}
              /\ database = "sqlite" => missing = {}
    IN  /\ request[r].pc = "restoring" /\ request[r].todo = {}
        /\ agents' = IF ok THEN agents \cup missing ELSE agents
        /\ request' = [Informed(IF ok THEN missing ELSE {}) EXCEPT
                          ![r] = [Free EXCEPT !.pc = IF ok THEN "restored" ELSE "refused"]]
        /\ UNCHANGED <<database, audits, born>>

LogRestore(r) ==
    /\ request[r].pc = "restored"
    /\ Ends(r, "answered")
    /\ UNCHANGED <<database, agents, audits, born>>

-----------------------------------------------------------------------------
(* GET /dashboard and GET /metrics count in separate statements.  *)

\* Mutant: the total leaves out the audits that still run.
CountSettled(r) ==
    /\ request[r].pc \in FreePC
    /\ request' = [request EXCEPT ![r] =
         [Free EXCEPT !.pc = "totalled",
                      !.total = Cardinality(WithStatus("completed") \cup WithStatus("failed"))]]
    /\ UNCHANGED <<database, agents, audits, born>>

CountAudits(r) ==
    /\ request[r].pc \in FreePC
    /\ request' = [request EXCEPT ![r] =
         [Free EXCEPT !.pc = "totalled", !.total = Cardinality({a \in Audits : Present(a)})]]
    /\ UNCHANGED <<database, agents, audits, born>>

CountCompleted(r) ==
    /\ request[r].pc = "totalled"
    /\ request' = [request EXCEPT ![r] =
         [@ EXCEPT !.pc = "half", !.done = Cardinality(WithStatus("completed"))]]
    /\ UNCHANGED <<database, agents, audits, born>>

\* The count of failed audits enters no other number; the division has its guard.
AnswerCounts(r) ==
    /\ request[r].pc = "half"
    /\ request' = [request EXCEPT ![r].pc = "answered"]
    /\ UNCHANGED <<database, agents, audits, born>>

-----------------------------------------------------------------------------
Next ==
    \/ \E a \in Audits, g \in Agents : CreateAudit(a, g)
    \/ \E a \in Audits, status \in {"completed", "failed"} : Settle(a, status)
    \/ \E r \in Requests, a \in Audits : DeleteAudit(r, a)
    \/ \E r \in Requests : DeleteAuditCommit(r)
    \/ \E r \in Requests, g \in Agents : CreateAgent(r, g)
    \/ \E r \in Requests, g \in Agents : FindAgent(r, g)
    \/ \E r \in Requests : LoadAudits(r)
    \/ \E r \in Requests : DeleteAgentCommit(r)
    \/ \E r \in Requests : ListAgentsAdmin(r)
    \/ \E r \in Requests : LogListing(r)
    \/ \E r \in Requests, g \in Agents : RefreshAgent(r, g)
    \/ \E r \in Requests : AnswerListing(r)
    \/ \E r \in Requests : Backup(r)
    \/ \E r \in Requests : Restore(r)
    \/ \E r \in Requests, g \in File : CheckAgent(r, g)
    \/ \E r \in Requests : RestoreCommit(r)
    \/ \E r \in Requests : LogRestore(r)
    \/ \E r \in Requests : CountAudits(r)
    \/ \E r \in Requests : CountCompleted(r)
    \/ \E r \in Requests : AnswerCounts(r)

Spec == Init /\ [][Next]_vars

-----------------------------------------------------------------------------
\* On PostgreSQL no audit refers to an agent that does not exist: the deletion of
\* an agent detaches every audit in the transaction that deletes it, or fails
\* (routers/agents.py:75-79, database.py:63).
ReferencesHold ==
    database = "postgresql" =>
        \A a \in Audits : Present(a) => audits[a].agent \in agents \cup {NoAgent}

\* An audit loses its agent only in the step after which that agent is gone: a
\* deletion that fails because an audit was deleted or created meanwhile, or that
\* races with another deletion or a restore, detaches nothing.
DetachedOnlyByDeletion ==
    [][\A a \in Audits :
          Present(a) /\ audits[a].agent # NoAgent /\ audits'[a].agent = NoAgent
            => audits'[a] = Gone \/ audits[a].agent \notin agents']_vars

\* An administrator is never shown an agent, and its api_key, that was deleted
\* before the entry of the request was logged (routers/admin.py:94-121).
ListingIsFresh ==
    \A r \in Requests :
        request[r].pc \in {"refreshing", "answered"} => request[r].seen \subseteq request[r].alive

\* The success rate of the dashboard exceeds one only by audits that were created
\* after the total was counted (main.py:415-428).
RateOverrunsByNewcomers ==
    \A r \in Requests :
        request[r].pc \in {"half", "answered"}
          => request[r].done <= request[r].total + Cardinality(request[r].late)
=============================================================================
