---------------------------- MODULE CatalogProofs ----------------------------
(***************************************************************************)
(* Proofs about agents, audits and the handlers that read and delete them, *)
(* for any number of each.                                                 *)
(***************************************************************************)
EXTENDS Catalog, FiniteSetTheorems, TLAPS

USE CatalogAssumption

PresentAudits == {a \in Audits : Present(a)}

\* What a handler knows between two of its statements: what it has still to read and
\* exists was there after its log entry; the audits that are older than its count are
\* not more than it counted; the audits it loaded belong to its agent or to none.
Knows(q) ==
    /\ q.pc \in {"refreshing", "answered"} => q.seen \subseteq q.alive
    /\ q.pc = "refreshing" => q.todo \cap agents \subseteq q.alive
    /\ q.pc \in {"listed", "totalled", "half"} => q.seen = {}
    /\ q.pc = "totalled" => Cardinality(PresentAudits \ q.late) <= q.total
    /\ q.pc \in {"half", "answered"} => q.done <= q.total + Cardinality(q.late)
    /\ q.pc \in {"listed", "refreshing"} => q.done = 0
    /\ q.pc = "loaded" =>
         \A a \in q.audits : audits[a].status # "none" /\ audits[a].agent \in {q.agent, NoAgent}

\* The inductive invariant.
IInv == TypeOK /\ ReferencesHold /\ \A r \in Requests : Knows(request[r])

-----------------------------------------------------------------------------
\* Sets of audits and their sizes.
LEMMA Sizes ==
    ASSUME NEW S \in SUBSET Audits
    PROVE  IsFiniteSet(S) /\ Cardinality(S) \in Nat /\ Cardinality(S) \in 0..Cardinality(Audits)
<1>1. IsFiniteSet(S) /\ Cardinality(S) <= Cardinality(Audits)
  BY FS_Subset
<1>2. Cardinality(S) \in Nat /\ Cardinality(Audits) \in Nat
  BY <1>1, FS_CardinalityType
<1>. QED
  BY <1>1, <1>2

LEMMA SmallerSize ==
    ASSUME NEW S \in SUBSET Audits, NEW T \in SUBSET S
    PROVE  Cardinality(T) <= Cardinality(S)
<1>1. IsFiniteSet(S)
  BY Sizes
<1>. QED
  BY <1>1, FS_Subset

LEMMA NoneIsEmpty == Cardinality({}) = 0
BY FS_EmptySet

LEMMA ZeroIsASize == 0 \in 0..Cardinality(Audits)
BY Sizes, NoneIsEmpty

\* A request that is free, or has ended.
LEMMA FreeType ==
    /\ Free \in Request /\ Free.pc = "idle"
    /\ \A pc \in FreePC :
         LET q == [Free EXCEPT !.pc = pc]
         IN  q \in Request /\ q.pc = pc /\ q.seen = {} /\ q.alive = {} /\ q.total = 0
               /\ q.done = 0 /\ q.late = {}
<1>1. 0 \in 0..Cardinality(Audits)
  BY Sizes, NoneIsEmpty
<1>2. Free \in Request /\ Free.pc = "idle"
  BY <1>1 DEF Free, Request, FreePC
<1>3. ASSUME NEW pc \in FreePC
      PROVE  LET q == [Free EXCEPT !.pc = pc]
             IN  q \in Request /\ q.pc = pc /\ q.seen = {} /\ q.alive = {} /\ q.total = 0
                   /\ q.done = 0 /\ q.late = {}
  BY <1>1 DEF Free, Request
<1>. QED
  BY <1>2, <1>3

\* A request that has ended knows all there is to know.
LEMMA FreeKnows ==
    ASSUME NEW pc \in FreePC
    PROVE  Knows([Free EXCEPT !.pc = pc]) /\ Knows([Free EXCEPT !.pc = pc])'
<1>. DEFINE q == [Free EXCEPT !.pc = pc]
<1>1. q.pc = pc /\ q.seen = {} /\ q.alive = {} /\ q.total = 0 /\ q.done = 0 /\ q.late = {}
  BY FreeType
<1>. HIDE DEF q
<1>2. Knows(q) /\ Knows(q)'
  BY <1>1, NoneIsEmpty DEF Knows, FreePC
<1>. QED
  BY <1>2 DEF q

LEMMA InitInv == Init => IInv
<1>. SUFFICES ASSUME Init PROVE IInv
  OBVIOUS
<1>1. audits \in [Audits -> AuditRow] /\ \A a \in Audits : ~Present(a)
  BY DEF Init, NoRow, AuditRow, Present
<1>2. request \in [Requests -> Request] /\ \A r \in Requests : request[r] = Free
  BY FreeType DEF Init
<1>3. TypeOK /\ ReferencesHold
  BY <1>1, <1>2 DEF Init, TypeOK, ReferencesHold
<1>4. Knows(Free)
  BY NoneIsEmpty DEF Knows, Free
<1>. QED
  BY <1>2, <1>3, <1>4 DEF IInv

\* A step of one request that writes nothing to the database.
LEMMA OwnStep ==
    ASSUME IInv, NEW r \in Requests, NEW q \in Request, Knows(q),
           request' = [request EXCEPT ![r] = q], UNCHANGED <<database, agents, audits, born>>
    PROVE  IInv'
<1>1. TypeOK' /\ ReferencesHold'
  BY DEF IInv, TypeOK, ReferencesHold, Present
<1>2. \A s \in Requests : request'[s] = request[s] \/ request'[s] = q
  BY DEF IInv, TypeOK
<1>3. \A s \in Requests : Knows(request'[s])
  BY <1>2 DEF IInv
<1>4. \A s \in Requests : Knows(request[s])'
  BY <1>3 DEF Knows, PresentAudits, Present
<1>. QED
  BY <1>1, <1>4 DEF IInv

LEMMA EndsInv ==
    ASSUME IInv, NEW r \in Requests, NEW pc \in FreePC, Ends(r, pc),
           UNCHANGED <<database, agents, audits, born>>
    PROVE  IInv'
BY OwnStep, FreeType, FreeKnows DEF Ends
-----------------------------------------------------------------------------
\* The statements that only read.
LEMMA DeleteAuditInv ==
    ASSUME IInv, NEW r \in Requests, NEW a \in Audits, DeleteAudit(r, a) PROVE IInv'
<1>. DEFINE q == [Free EXCEPT !.pc = "deleting", !.audits = {a}]
<1>1. q \in Request /\ q.pc = "deleting"
  BY ZeroIsASize DEF Request, Free
<1>2. request' = [request EXCEPT ![r] = q] /\ UNCHANGED <<database, agents, audits, born>>
  BY DEF DeleteAudit
<1>. HIDE DEF q
<1>3. Knows(q)
  BY <1>1 DEF Knows
<1>. QED
  BY <1>1, <1>2, <1>3, OwnStep

LEMMA FindAgentInv ==
    ASSUME IInv, NEW r \in Requests, NEW g \in Agents, FindAgent(r, g) PROVE IInv'
<1>. DEFINE q == [Free EXCEPT !.pc = "found", !.agent = g]
<1>1. q \in Request /\ q.pc = "found"
  BY ZeroIsASize DEF Request, Free
<1>2. request' = [request EXCEPT ![r] = q] /\ UNCHANGED <<database, agents, audits, born>>
  BY DEF FindAgent
<1>. HIDE DEF q
<1>3. Knows(q)
  BY <1>1 DEF Knows
<1>. QED
  BY <1>1, <1>2, <1>3, OwnStep

LEMMA LoadAuditsInv == ASSUME IInv, NEW r \in Requests, LoadAudits(r) PROVE IInv'
<1>. DEFINE q == [request[r] EXCEPT !.pc = "loaded", !.audits = AuditsOf(request[r].agent)]
<1>0. AuditsOf(request[r].agent) \in SUBSET Audits
  BY DEF AuditsOf
<1>1. /\ q \in Request /\ q.pc = "loaded" /\ q.audits = AuditsOf(request[r].agent)
      /\ q.agent = request[r].agent
  BY <1>0 DEF IInv, TypeOK, Request
<1>2. request' = [request EXCEPT ![r] = q] /\ UNCHANGED <<database, agents, audits, born>>
  BY DEF LoadAudits
<1>. HIDE DEF q
<1>3. Knows(q)
  BY <1>1 DEF Knows, AuditsOf, Present
<1>. QED
  BY <1>1, <1>2, <1>3, OwnStep

LEMMA ListAgentsInv == ASSUME IInv, NEW r \in Requests, ListAgentsAdmin(r) PROVE IInv'
<1>. DEFINE q == [Free EXCEPT !.pc = "listed", !.todo = agents]
<1>1. q \in Request /\ q.pc = "listed" /\ q.seen = {} /\ q.done = 0
  BY ZeroIsASize DEF IInv, TypeOK, Request, Free
<1>2. request' = [request EXCEPT ![r] = q] /\ UNCHANGED <<database, agents, audits, born>>
  BY DEF ListAgentsAdmin
<1>. HIDE DEF q
<1>3. Knows(q)
  BY <1>1 DEF Knows
<1>. QED
  BY <1>1, <1>2, <1>3, OwnStep

LEMMA LogListingInv == ASSUME IInv, NEW r \in Requests, LogListing(r) PROVE IInv'
<1>. DEFINE q == [request[r] EXCEPT !.pc = "refreshing", !.alive = agents]
<1>1. /\ q \in Request /\ q.pc = "refreshing" /\ q.alive = agents
      /\ q.seen = request[r].seen /\ q.done = request[r].done
  BY DEF IInv, TypeOK, Request
<1>2. request' = [request EXCEPT ![r] = q] /\ UNCHANGED <<database, agents, audits, born>>
  BY DEF LogListing
<1>. HIDE DEF q
<1>3. Knows(q)
  BY <1>1 DEF IInv, Knows, LogListing
<1>. QED
  BY <1>1, <1>2, <1>3, OwnStep

LEMMA RefreshInv ==
    ASSUME IInv, NEW r \in Requests, NEW g \in Agents, RefreshAgent(r, g) PROVE IInv'
<1>1. CASE g \notin agents
  <2>1. Ends(r, "refused")
    BY <1>1 DEF RefreshAgent, Refresh
  <2>. QED
    BY <2>1, EndsInv DEF RefreshAgent, FreePC
<1>2. CASE g \in agents
  <2>. DEFINE q == [request[r] EXCEPT !.todo = @ \ {g}, !.seen = @ \cup {g}]
  <2>1. /\ q \in Request /\ q.pc = request[r].pc /\ q.todo = request[r].todo \ {g}
        /\ q.seen = request[r].seen \cup {g} /\ q.alive = request[r].alive
        /\ q.done = request[r].done
    BY DEF IInv, TypeOK, Request
  <2>2. request' = [request EXCEPT ![r] = q] /\ UNCHANGED <<database, agents, audits, born>>
    BY <1>2 DEF RefreshAgent, Refresh
  <2>. HIDE DEF q
  <2>3. Knows(request[r]) /\ request[r].pc = "refreshing" /\ g \in request[r].todo
    BY DEF IInv, RefreshAgent
  <2>4. Knows(q)
    BY <1>2, <2>1, <2>3 DEF Knows
  <2>. QED
    BY <2>1, <2>2, <2>4, OwnStep
<1>. QED
  BY <1>1, <1>2

LEMMA AnswerListingInv == ASSUME IInv, NEW r \in Requests, AnswerListing(r) PROVE IInv'
<1>. DEFINE q == [request[r] EXCEPT !.pc = "answered"]
<1>1. /\ q \in Request /\ q.pc = "answered" /\ q.seen = request[r].seen
      /\ q.alive = request[r].alive /\ q.done = request[r].done
      /\ q.total = request[r].total /\ q.late = request[r].late
  BY DEF IInv, TypeOK, Request, FreePC
<1>2. request' = [request EXCEPT ![r] = q] /\ UNCHANGED <<database, agents, audits, born>>
  BY DEF AnswerListing
<1>3. Knows(request[r]) /\ request[r].pc = "refreshing"
  BY DEF IInv, AnswerListing
<1>4. q.done = 0 /\ q.total \in Nat /\ Cardinality(q.late) \in Nat
  <2>1. q.late \in SUBSET Audits /\ q.total \in 0..Cardinality(Audits)
    BY <1>1 DEF Request
  <2>. QED
    BY <1>1, <1>3, <2>1, Sizes DEF Knows
<1>. HIDE DEF q
<1>5. Knows(q)
  BY <1>1, <1>3, <1>4 DEF Knows
<1>. QED
  BY <1>1, <1>2, <1>5, OwnStep

LEMMA RestoreInv == ASSUME IInv, NEW r \in Requests, Restore(r) PROVE IInv'
<1>. DEFINE q == [Free EXCEPT !.pc = "restoring", !.todo = File]
<1>1. q \in Request /\ q.pc = "restoring"
  BY ZeroIsASize DEF Request, Free
<1>2. request' = [request EXCEPT ![r] = q] /\ UNCHANGED <<database, agents, audits, born>>
  BY DEF Restore
<1>. HIDE DEF q
<1>3. Knows(q)
  BY <1>1 DEF Knows
<1>. QED
  BY <1>1, <1>2, <1>3, OwnStep

LEMMA CheckAgentInv ==
    ASSUME IInv, NEW r \in Requests, NEW g \in File, CheckAgent(r, g) PROVE IInv'
<1>. DEFINE q == [request[r] EXCEPT !.todo = @ \ {g},
                                    !.seen = IF g \in agents THEN @ ELSE @ \cup {g}]
<1>1. q \in Request /\ q.pc = request[r].pc
  BY DEF IInv, TypeOK, Request
<1>2. request' = [request EXCEPT ![r] = q] /\ UNCHANGED <<database, agents, audits, born>>
  BY DEF CheckAgent
<1>3. q.pc = "restoring"
  BY <1>1 DEF CheckAgent
<1>. HIDE DEF q
<1>4. Knows(q)
  BY <1>3 DEF Knows
<1>. QED
  BY <1>1, <1>2, <1>4, OwnStep

-----------------------------------------------------------------------------
\* The counts.
LEMMA CountAuditsInv == ASSUME IInv, NEW r \in Requests, CountAudits(r) PROVE IInv'
<1>. DEFINE n == Cardinality(PresentAudits)
            q == [Free EXCEPT !.pc = "totalled", !.total = n]
<1>0. PresentAudits \in SUBSET Audits /\ n \in 0..Cardinality(Audits) /\ n \in Nat
  <2>1. PresentAudits \in SUBSET Audits
    BY DEF PresentAudits
  <2>. QED
    BY <2>1, Sizes
<1>. HIDE DEF n
<1>1. q \in Request /\ q.pc = "totalled" /\ q.seen = {} /\ q.total = n /\ q.late = {}
  BY <1>0, ZeroIsASize DEF Request, Free
<1>2. request' = [request EXCEPT ![r] = q] /\ UNCHANGED <<database, agents, audits, born>>
  BY DEF CountAudits, PresentAudits, n
<1>. HIDE DEF q
<1>3. Cardinality(PresentAudits \ q.late) <= q.total
  <2>1. PresentAudits \ q.late = PresentAudits
    BY <1>1
  <2>. QED
    BY <1>0, <1>1, <2>1 DEF n
<1>4. Knows(q)
  BY <1>1, <1>3 DEF Knows
<1>. QED
  BY <1>1, <1>2, <1>4, OwnStep

LEMMA CountCompletedInv == ASSUME IInv, NEW r \in Requests, CountCompleted(r) PROVE IInv'
<1>. DEFINE n == Cardinality(WithStatus("completed"))
            late == request[r].late
            old == PresentAudits \ late
            q == [request[r] EXCEPT !.pc = "half", !.done = n]
<1>0. /\ request[r] \in Request /\ request[r].pc = "totalled" /\ Knows(request[r])
      /\ late \in SUBSET Audits /\ request[r].total \in Nat
  BY Sizes DEF IInv, TypeOK, CountCompleted, Request
<1>1. WithStatus("completed") \in SUBSET (old \cup late) /\ WithStatus("completed") \in SUBSET Audits
  BY DEF WithStatus, PresentAudits, Present
<1>2. old \in SUBSET Audits /\ old \cap late = {}
  BY DEF PresentAudits
<1>3. n <= Cardinality(old) + Cardinality(late)
  <2>1. Cardinality(old \cup late) = Cardinality(old) + Cardinality(late)
    <3>1. Cardinality(old \cup late) = Cardinality(old) + Cardinality(late) - Cardinality(old \cap late)
      BY <1>0, <1>2, Sizes, FS_Union
    <3>2. Cardinality(old \cap late) = 0
      BY <1>2, NoneIsEmpty
    <3>. QED
      BY <1>0, <1>2, <3>1, <3>2, Sizes
  <2>2. old \cup late \in SUBSET Audits
    BY <1>0, <1>2
  <2>. QED
    BY <1>1, <2>1, <2>2, SmallerSize
<1>4. n \in 0..Cardinality(Audits)
  BY <1>1, Sizes
<1>5. Cardinality(old) <= request[r].total
  BY <1>0 DEF Knows
<1>6. Cardinality(old) \in Nat /\ Cardinality(late) \in Nat /\ n \in Nat
  BY <1>0, <1>1, <1>2, Sizes
<1>. HIDE DEF n, old
<1>7. /\ q \in Request /\ q.pc = "half" /\ q.done = n /\ q.total = request[r].total
      /\ q.late = late /\ q.seen = request[r].seen
  BY <1>0, <1>4 DEF Request
<1>8. request' = [request EXCEPT ![r] = q] /\ UNCHANGED <<database, agents, audits, born>>
  BY DEF CountCompleted, n
<1>. HIDE DEF q
<1>9. q.done <= q.total + Cardinality(q.late)
  BY <1>0, <1>3, <1>5, <1>6, <1>7
<1>10. Knows(q)
  BY <1>0, <1>7, <1>9 DEF Knows
<1>. QED
  BY <1>7, <1>8, <1>10, OwnStep

LEMMA AnswerCountsInv == ASSUME IInv, NEW r \in Requests, AnswerCounts(r) PROVE IInv'
<1>. DEFINE q == [request[r] EXCEPT !.pc = "answered"]
<1>1. /\ q \in Request /\ q.pc = "answered" /\ q.seen = request[r].seen
      /\ q.done = request[r].done
      /\ q.total = request[r].total /\ q.late = request[r].late
  BY DEF IInv, TypeOK, Request, FreePC
<1>2. request' = [request EXCEPT ![r] = q] /\ UNCHANGED <<database, agents, audits, born>>
  BY DEF AnswerCounts
<1>3. Knows(request[r]) /\ request[r].pc = "half"
  BY DEF IInv, AnswerCounts
<1>. HIDE DEF q
<1>4. Knows(q)
  BY <1>1, <1>3 DEF Knows
<1>. QED
  BY <1>1, <1>2, <1>4, OwnStep
-----------------------------------------------------------------------------
\* The audits.  What no handler but the loading one looks at may change.
LEMMA KnowsOn ==
    ASSUME IInv, NEW q \in Request, Knows(q), agents' \subseteq agents,
           audits' \in [Audits -> AuditRow],
           \A a \in Audits : Present(a)' => Present(a),
           \A a \in Audits : audits[a].status # "none" =>
              audits'[a].status # "none" /\ audits'[a].agent \in {audits[a].agent, NoAgent}
    PROVE  Knows(q)'
<1>1. PresentAudits' \ q.late \in SUBSET (PresentAudits \ q.late) /\ PresentAudits \in SUBSET Audits
  BY DEF PresentAudits
<1>2. /\ Cardinality(PresentAudits' \ q.late) <= Cardinality(PresentAudits \ q.late)
      /\ Cardinality(PresentAudits' \ q.late) \in Nat /\ Cardinality(PresentAudits \ q.late) \in Nat
  BY <1>1, Sizes, SmallerSize
<1>3. q.audits \subseteq Audits /\ q.total \in Nat
  BY Sizes DEF Request
<1>4. q.pc = "totalled" => (Cardinality(PresentAudits \ q.late) <= q.total)'
  BY <1>2, <1>3 DEF Knows
<1>5. q.pc = "loaded" =>
        \A a \in q.audits : audits'[a].status # "none" /\ audits'[a].agent \in {q.agent, NoAgent}
  BY <1>3 DEF Knows
<1>. QED
  BY <1>4, <1>5 DEF Knows

LEMMA SettleInv ==
    ASSUME IInv, NEW a \in Audits, NEW status \in {"completed", "failed"}, Settle(a, status)
    PROVE  IInv'
<1>. DEFINE row == [audits[a] EXCEPT !.status = status]
<1>1. row \in AuditRow /\ row.agent = audits[a].agent /\ row.status = status
  BY DEF IInv, TypeOK, AuditRow
<1>2. audits' = [audits EXCEPT ![a] = row] /\ UNCHANGED <<database, agents, request, born>>
  BY DEF Settle
<1>3. Present(a)
  BY DEF Settle, Present
<1>. HIDE DEF row
<1>4. TypeOK'
  BY <1>1, <1>2 DEF IInv, TypeOK
<1>5. \A b \in Audits : /\ audits'[b].agent = audits[b].agent /\ Present(b)' = Present(b)
                        /\ audits[b].status # "none" => audits'[b].status # "none"
  BY <1>1, <1>2, <1>3 DEF IInv, TypeOK, Present
<1>6. ReferencesHold'
  BY <1>2, <1>5 DEF IInv, ReferencesHold
<1>7. \A r \in Requests : Knows(request[r])'
  BY <1>2, <1>4, <1>5, KnowsOn DEF IInv, TypeOK
<1>. QED
  BY <1>4, <1>6, <1>7 DEF IInv

LEMMA CreateAuditInv ==
    ASSUME IInv, NEW a \in Audits, NEW g \in Agents, CreateAudit(a, g) PROVE IInv'
<1>0. request \in [Requests -> Request] /\ ~Present(a) /\ audits[a].status = "none"
  BY DEF IInv, TypeOK, CreateAudit, NoRow, Present
<1>1. [agent |-> g, status |-> "queued"] \in AuditRow
  BY DEF AuditRow
<1>2. /\ audits' \in [Audits -> AuditRow] /\ audits'[a] = [agent |-> g, status |-> "queued"]
      /\ \A b \in Audits \ {a} : audits'[b] = audits[b]
      /\ UNCHANGED <<database, agents, born>>
  BY <1>1 DEF IInv, TypeOK, CreateAudit
<1>3. ReferencesHold'
  BY <1>2 DEF IInv, ReferencesHold, Present, CreateAudit, MayRefer
<1>4. ASSUME NEW r \in Requests PROVE request'[r] \in Request /\ Knows(request[r])'
  <2>. DEFINE q == [request[r] EXCEPT !.late = @ \cup {a}]
  <2>1. request[r] \in Request /\ Knows(request[r])
    BY <1>0 DEF IInv
  <2>2. CASE request[r].pc = "totalled"
    <3>1. /\ q \in Request /\ q.pc = "totalled" /\ q.late = request[r].late \cup {a}
          /\ q.total = request[r].total /\ q.seen = request[r].seen
      BY <2>1, <2>2 DEF Request
    <3>2. request'[r] = q
      BY <2>2 DEF CreateAudit
    <3>. HIDE DEF q
    <3>3. PresentAudits' \ q.late \in SUBSET (PresentAudits \ request[r].late)
      BY <1>2, <3>1 DEF PresentAudits, Present
    <3>4. PresentAudits \ request[r].late \in SUBSET Audits
      BY DEF PresentAudits
    <3>5. /\ Cardinality(PresentAudits' \ q.late) <= Cardinality(PresentAudits \ request[r].late)
          /\ Cardinality(PresentAudits' \ q.late) \in Nat
          /\ Cardinality(PresentAudits \ request[r].late) \in Nat
      BY <3>3, <3>4, Sizes, SmallerSize
    <3>6. Cardinality(PresentAudits' \ q.late) <= q.total
      <4>1. Cardinality(PresentAudits \ request[r].late) <= request[r].total
        BY <2>1, <2>2 DEF Knows
      <4>2. request[r].total \in Nat
        BY <2>1, Sizes DEF Request
      <4>. QED
        BY <3>1, <3>5, <4>1, <4>2
    <3>7. Knows(request[r])'
      BY <2>1, <2>2, <3>1, <3>2, <3>6 DEF Knows
    <3>. QED
      BY <3>1, <3>2, <3>7
  <2>3. CASE request[r].pc # "totalled"
    <3>1. request'[r] = request[r]
      BY <2>3 DEF CreateAudit
    <3>2. request[r].audits \subseteq Audits
      BY <2>1 DEF Request
    <3>. QED
      BY <1>0, <1>2, <2>1, <2>3, <3>1, <3>2 DEF Knows
  <2>. QED
    BY <2>2, <2>3
<1>5. request' \in [Requests -> Request]
  BY <1>4 DEF CreateAudit
<1>6. TypeOK'
  BY <1>2, <1>5 DEF IInv, TypeOK
<1>. QED
  BY <1>3, <1>4, <1>6 DEF IInv

\* What the end of a request leaves of the others.
LEMMA EndOthers ==
    ASSUME IInv, NEW r \in Requests, NEW pc \in FreePC, Ends(r, pc), UNCHANGED <<database, born>>,
           agents' \subseteq agents,
           audits' \in [Audits -> AuditRow],
           \A a \in Audits : Present(a)' => Present(a),
           \A a \in Audits : audits[a].status # "none" =>
              audits'[a].status # "none" /\ audits'[a].agent \in {audits[a].agent, NoAgent}
    PROVE  TypeOK' /\ \A s \in Requests : Knows(request[s])'
<1>. DEFINE q == [Free EXCEPT !.pc = pc]
<1>1. q \in Request /\ Knows(q)'
  BY FreeType, FreeKnows
<1>2. request' = [request EXCEPT ![r] = q]
  BY DEF Ends
<1>. HIDE DEF q
<1>3. TypeOK'
  BY <1>1, <1>2 DEF IInv, TypeOK
<1>4. ASSUME NEW s \in Requests, request'[s] = request[s] PROVE Knows(request[s])'
  <2>1. request[s] \in Request /\ Knows(request[s])
    BY DEF IInv, TypeOK
  <2>. QED
    BY <1>4, <2>1, KnowsOn DEF Knows
<1>5. \A s \in Requests : request'[s] = request[s] \/ request'[s] = q
  BY <1>2 DEF IInv, TypeOK
<1>6. \A s \in Requests : request'[s] = q => Knows(request[s])'
  BY <1>1 DEF Knows
<1>. QED
  BY <1>3, <1>4, <1>5, <1>6
LEMMA DeleteAuditCommitInv == ASSUME IInv, NEW r \in Requests, DeleteAuditCommit(r) PROVE IInv'
<1>0. audits \in [Audits -> AuditRow] /\ agents' \subseteq agents /\ UNCHANGED <<database, born, agents>>
  BY DEF IInv, TypeOK, DeleteAuditCommit
<1>1. CASE database = "postgresql"
  BY <1>1, EndsInv DEF DeleteAuditCommit, FreePC
<1>2. CASE database # "postgresql"
  <2>1. /\ audits' = [a \in Audits |-> IF a \in request[r].audits THEN Gone ELSE audits[a]]
        /\ Ends(r, "answered") /\ "answered" \in FreePC
    BY <1>2 DEF DeleteAuditCommit, FreePC
  <2>2. Gone \in AuditRow /\ Gone.status = "deleted" /\ Gone.agent = NoAgent
    BY DEF Gone, AuditRow
  <2>3. audits' \in [Audits -> AuditRow] /\ \A a \in Audits : audits'[a] \in {audits[a], Gone}
    BY <1>0, <2>1, <2>2
  <2>4. \A a \in Audits : Present(a)' => Present(a)
    BY <2>2, <2>3 DEF Present
  <2>5. \A a \in Audits : audits[a].status # "none" =>
          audits'[a].status # "none" /\ audits'[a].agent \in {audits[a].agent, NoAgent}
    BY <2>2, <2>3
  <2>6. TypeOK' /\ \A s \in Requests : Knows(request[s])'
    BY <1>0, <2>1, <2>3, <2>4, <2>5, EndOthers
  <2>7. ReferencesHold'
    BY <1>0, <1>2 DEF ReferencesHold
  <2>. QED
    BY <2>6, <2>7 DEF IInv
<1>. QED
  BY <1>1, <1>2

\* The conditions under which the deletion of an agent commits.
Commits(r) ==
    /\ \A a \in request[r].audits : Present(a)
    /\ database = "postgresql" => AuditsOf(request[r].agent) \subseteq request[r].audits

LEMMA Detaching ==
    ASSUME TypeOK, NEW loaded \in SUBSET Audits, audits' = Detached(loaded)
    PROVE  /\ audits' \in [Audits -> AuditRow]
           /\ \A a \in loaded : audits'[a].agent = NoAgent /\ audits'[a].status = audits[a].status
           /\ \A a \in Audits \ loaded : audits'[a] = audits[a]
<1>1. ASSUME NEW a \in loaded
      PROVE  /\ audits'[a] \in AuditRow /\ audits'[a].agent = NoAgent
             /\ audits'[a].status = audits[a].status
  <2>1. audits'[a] = [audits[a] EXCEPT !.agent = NoAgent]
    BY DEF Detached
  <2>. QED
    BY <2>1 DEF TypeOK, AuditRow
<1>2. \A a \in Audits \ loaded : audits'[a] = audits[a] /\ audits'[a] \in AuditRow
  BY DEF Detached, TypeOK
<1>3. audits' \in [Audits -> AuditRow]
  BY <1>1, <1>2 DEF Detached
<1>. QED
  BY <1>1, <1>2, <1>3

LEMMA DeleteAgentFacts ==
    ASSUME IInv, NEW r \in Requests, DeleteAgentCommit(r), Commits(r)
    PROVE  /\ audits' = Detached(request[r].audits) /\ request[r].audits \in SUBSET Audits
           /\ agents' = agents \ {request[r].agent} /\ Ends(r, "answered")
           /\ UNCHANGED <<database, born>>
BY DEF IInv, TypeOK, Request, DeleteAgentCommit, DetachLoaded, Commits

LEMMA DeleteAgentFails ==
    ASSUME NEW r \in Requests, DeleteAgentCommit(r), ~Commits(r)
    PROVE  UNCHANGED <<database, agents, audits, born>> /\ Ends(r, "refused")
BY DEF DeleteAgentCommit, DetachLoaded, Commits

LEMMA DeleteAgentCommitInv == ASSUME IInv, NEW r \in Requests, DeleteAgentCommit(r) PROVE IInv'
<1>1. CASE ~Commits(r)
  BY <1>1, DeleteAgentFails, EndsInv DEF FreePC
<1>2. CASE Commits(r)
  <2>. DEFINE loaded == request[r].audits
              g == request[r].agent
  <2>1. /\ audits' = Detached(loaded) /\ loaded \in SUBSET Audits /\ agents' = agents \ {g}
        /\ Ends(r, "answered") /\ UNCHANGED <<database, born>> /\ "answered" \in FreePC
    BY <1>2, DeleteAgentFacts DEF FreePC
  <2>2. /\ audits' \in [Audits -> AuditRow]
        /\ \A a \in loaded : audits'[a].agent = NoAgent /\ audits'[a].status = audits[a].status
        /\ \A a \in Audits \ loaded : audits'[a] = audits[a]
    BY <2>1, Detaching DEF IInv
  <2>3. \A a \in Audits : Present(a)' => Present(a)
    BY <2>1, <2>2 DEF Present
  <2>4. \A a \in Audits : audits[a].status # "none" =>
          audits'[a].status # "none" /\ audits'[a].agent \in {audits[a].agent, NoAgent}
    BY <2>1, <2>2
  <2>5. TypeOK' /\ \A s \in Requests : Knows(request[s])'
    BY <2>1, <2>2, <2>3, <2>4, EndOthers
  <2>6. ReferencesHold'
    <3>. SUFFICES ASSUME database = "postgresql", NEW a \in Audits, Present(a)'
                  PROVE  audits'[a].agent \in agents' \cup {NoAgent}
      BY <2>1 DEF ReferencesHold
    <3>1. CASE a \in loaded
      BY <2>2, <3>1
    <3>2. CASE a \notin loaded
      <4>1. audits[a].agent # g
        BY <1>2, <2>3, <3>2 DEF Commits, AuditsOf
      <4>2. audits[a].agent \in agents \cup {NoAgent}
        BY <2>3 DEF IInv, ReferencesHold
      <4>. QED
        BY <2>1, <2>2, <3>2, <4>1, <4>2
    <3>. QED
      BY <3>1, <3>2
  <2>. QED
    BY <2>5, <2>6 DEF IInv
<1>. QED
  BY <1>1, <1>2

-----------------------------------------------------------------------------
\* The agents that come: by creation or by a restore.
LEMMA ComingKnows ==
    ASSUME NEW new \in SUBSET Agents, agents' = agents \cup new, audits' = audits,
           NEW q \in Request, Knows(q)
    PROVE  /\ q.pc # "refreshing" => Knows(q)'
           /\ q.pc = "refreshing" =>
                LET e == [q EXCEPT !.alive = @ \cup new] IN e \in Request /\ Knows(e)'
<1>1. PresentAudits' = PresentAudits
  BY DEF PresentAudits, Present
<1>2. CASE q.pc # "refreshing"
  BY <1>1, <1>2 DEF Knows
<1>3. CASE q.pc = "refreshing"
  <2>. DEFINE e == [q EXCEPT !.alive = @ \cup new]
  <2>1. /\ e \in Request /\ e.pc = "refreshing" /\ e.alive = q.alive \cup new
        /\ e.seen = q.seen /\ e.todo = q.todo /\ e.done = q.done
    BY <1>3 DEF Request
  <2>. HIDE DEF e
  <2>2. Knows(e)'
    BY <1>3, <2>1 DEF Knows
  <2>. QED
    BY <1>3, <2>1, <2>2 DEF e
<1>. QED
  BY <1>2, <1>3

LEMMA Coming ==
    ASSUME IInv, NEW r \in Requests, NEW q \in Request, NEW new \in SUBSET Agents, Knows(q)',
           agents' = agents \cup new, born' \subseteq Agents, UNCHANGED <<database, audits>>,
           request' = [Informed(new) EXCEPT ![r] = q]
    PROVE  IInv'
<1>1. request'[r] = q /\ request' = [s \in Requests |-> request'[s]]
  BY DEF Informed
<1>2. ASSUME NEW s \in Requests \ {r} PROVE request'[s] \in Request /\ Knows(request[s])'
  <2>1. request[s] \in Request /\ Knows(request[s])
    BY DEF IInv, TypeOK
  <2>2. request'[s] = IF request[s].pc = "refreshing"
                      THEN [request[s] EXCEPT !.alive = @ \cup new] ELSE request[s]
    BY DEF Informed
  <2>. DEFINE e == [request[s] EXCEPT !.alive = @ \cup new]
  <2>3. CASE request[s].pc # "refreshing"
    BY <2>1, <2>2, <2>3, ComingKnows DEF Knows
  <2>4. CASE request[s].pc = "refreshing"
    <3>1. PICK f \in Request : f = e /\ Knows(f)'
      BY <2>1, <2>4, ComingKnows
    <3>2. request'[s] = f
      BY <2>2, <2>4, <3>1
    <3>. QED
      BY <3>1, <3>2 DEF Knows
  <2>. QED
    BY <2>3, <2>4
<1>3. Knows(request[r])'
  BY <1>1 DEF Knows
<1>4. TypeOK'
  BY <1>1, <1>2 DEF IInv, TypeOK
<1>5. ReferencesHold'
  BY DEF IInv, ReferencesHold, Present
<1>. QED
  BY <1>2, <1>3, <1>4, <1>5 DEF IInv

LEMMA CreateAgentInv ==
    ASSUME IInv, NEW r \in Requests, NEW g \in Agents, CreateAgent(r, g) PROVE IInv'
<1>. DEFINE q == [Free EXCEPT !.pc = "refreshing", !.todo = {g}, !.alive = {g}]
<1>1. /\ q \in Request /\ q.pc = "refreshing" /\ q.todo = {g} /\ q.alive = {g} /\ q.seen = {}
      /\ q.done = 0
  BY ZeroIsASize DEF Request, Free
<1>2. /\ agents' = agents \cup {g} /\ born' \subseteq Agents /\ UNCHANGED <<database, audits>>
      /\ request' = [Informed({g}) EXCEPT ![r] = q] /\ {g} \in SUBSET Agents
  BY DEF IInv, TypeOK, CreateAgent
<1>3. PICK f \in Request : f = q
  BY <1>1
<1>. HIDE DEF q
<1>4. Knows(f)'
  BY <1>1, <1>3 DEF Knows
<1>. QED
  BY <1>2, <1>3, <1>4, Coming

LEMMA RestoreCommitInv == ASSUME IInv, NEW r \in Requests, RestoreCommit(r) PROVE IInv'
<1>1. PICK new \in SUBSET Agents, pc \in {"restored", "refused"} :
        /\ agents' = agents \cup new /\ UNCHANGED <<database, audits, born>>
        /\ request' = [Informed(new) EXCEPT ![r] = [Free EXCEPT !.pc = pc]]
  <2>. DEFINE missing == request[r].seen
              ok == missing \cap agents = {} /\ (database = "sqlite" => missing = {})
  <2>1. missing \in SUBSET Agents
    BY DEF IInv, TypeOK, Request
  <2>2. /\ agents' = IF ok THEN agents \cup missing ELSE agents
        /\ request' = [Informed(IF ok THEN missing ELSE {}) EXCEPT
                          ![r] = [Free EXCEPT !.pc = IF ok THEN "restored" ELSE "refused"]]
        /\ UNCHANGED <<database, audits, born>>
    BY DEF RestoreCommit
  <2>. HIDE DEF missing, ok
  <2>3. CASE ok
    BY <2>1, <2>2, <2>3
  <2>4. CASE ~ok
    <3>1. agents' = agents \cup {} /\ {} \in SUBSET Agents
      BY <2>2, <2>4
    <3>. QED
      BY <2>2, <2>4, <3>1
  <2>. QED
    BY <2>3, <2>4
<1>2. PICK f \in Request : f = [Free EXCEPT !.pc = pc] /\ f.pc = pc
  <2>. DEFINE q == [Free EXCEPT !.pc = pc]
  <2>1. q \in Request /\ q.pc = pc
    BY ZeroIsASize DEF Request, Free, FreePC
  <2>. QED
    BY <2>1
<1>3. Knows(f)'
  BY <1>2 DEF Knows
<1>4. born' \subseteq Agents
  BY <1>1 DEF IInv, TypeOK
<1>. QED
  BY <1>1, <1>2, <1>3, <1>4, Coming
-----------------------------------------------------------------------------
LEMMA StepInv == ASSUME IInv, [Next]_vars PROVE IInv'
<1>1. CASE UNCHANGED vars
  BY <1>1 DEF IInv, TypeOK, ReferencesHold, Knows, PresentAudits, Present, vars
<1>2. CASE \/ \E a \in Audits, g \in Agents : CreateAudit(a, g)
           \/ \E a \in Audits, status \in {"completed", "failed"} : Settle(a, status)
  BY <1>2, CreateAuditInv, SettleInv
<1>3. CASE \E r \in Requests : \/ \E a \in Audits : DeleteAudit(r, a)
                               \/ DeleteAuditCommit(r) \/ LoadAudits(r) \/ DeleteAgentCommit(r)
  BY <1>3, DeleteAuditInv, DeleteAuditCommitInv, LoadAuditsInv, DeleteAgentCommitInv
<1>4. CASE \E r \in Requests, g \in Agents :
             CreateAgent(r, g) \/ FindAgent(r, g) \/ RefreshAgent(r, g)
  BY <1>4, CreateAgentInv, FindAgentInv, RefreshInv
<1>5. CASE \E r \in Requests : ListAgentsAdmin(r) \/ LogListing(r) \/ AnswerListing(r)
  BY <1>5, ListAgentsInv, LogListingInv, AnswerListingInv
<1>6. CASE \E r \in Requests : \/ \E g \in File : CheckAgent(r, g)
                               \/ Restore(r) \/ RestoreCommit(r)
  BY <1>6, RestoreInv, CheckAgentInv, RestoreCommitInv
<1>7. CASE \E r \in Requests : Backup(r) \/ LogRestore(r)
  BY <1>7, EndsInv DEF Backup, LogRestore, FreePC
<1>8. CASE \E r \in Requests : CountAudits(r) \/ CountCompleted(r) \/ AnswerCounts(r)
  BY <1>8, CountAuditsInv, CountCompletedInv, AnswerCountsInv
<1>. QED
  BY <1>1, <1>2, <1>3, <1>4, <1>5, <1>6, <1>7, <1>8 DEF Next

LEMMA Invariance == Spec => []IInv
<1>. QED
  BY InitInv, StepInv, PTL DEF Spec

\* Agents, audits and requests stay of their types.
THEOREM CatalogTypeCorrect == Spec => []TypeOK
<1>1. IInv => TypeOK
  BY DEF IInv
<1>. QED
  BY <1>1, Invariance, PTL

\* Referential integrity, with any number of deletions, creations and restores in
\* progress at once.
THEOREM ReferencesAlwaysHold == Spec => []ReferencesHold
<1>1. IInv => ReferencesHold
  BY DEF IInv
<1>. QED
  BY <1>1, Invariance, PTL

\* An answer shows only agents that were there when the request was logged.
THEOREM ListingsAreFresh == Spec => []ListingIsFresh
<1>1. IInv => ListingIsFresh
  BY DEF IInv, Knows, ListingIsFresh
<1>. QED
  BY <1>1, Invariance, PTL

\* The two counts of the dashboard differ the wrong way by newcomers at most.
THEOREM RatesOverrunByNewcomers == Spec => []RateOverrunsByNewcomers
<1>1. IInv => RateOverrunsByNewcomers
  BY DEF IInv, Knows, RateOverrunsByNewcomers
<1>. QED
  BY <1>1, Invariance, PTL

\* Only the step that deletes an agent takes it from an audit.
LEMMA StepDetaches ==
    ASSUME IInv, [Next]_vars, NEW a \in Audits, Present(a), audits[a].agent # NoAgent,
           audits'[a].agent = NoAgent
    PROVE  audits'[a] = Gone \/ audits[a].agent \notin agents'
<1>0. audits \in [Audits -> AuditRow]
  BY DEF IInv, TypeOK
<1>1. CASE \E r \in Requests : DeleteAgentCommit(r)
  <2>1. PICK r \in Requests : DeleteAgentCommit(r)
    BY <1>1
  <2>2. Commits(r)
    BY <2>1, DeleteAgentFails
  <2>3. /\ audits' = Detached(request[r].audits) /\ request[r].audits \in SUBSET Audits
        /\ agents' = agents \ {request[r].agent}
    BY <2>1, <2>2, DeleteAgentFacts
  <2>4. a \in request[r].audits
    BY <2>3, Detaching DEF IInv
  <2>5. audits[a].agent = request[r].agent
    <3>1. Knows(request[r]) /\ request[r].pc = "loaded"
      BY <2>1 DEF IInv, DeleteAgentCommit
    <3>. QED
      BY <2>4, <3>1 DEF Knows
  <2>. QED
    BY <2>3, <2>5
<1>2. CASE \E r \in Requests : DeleteAuditCommit(r)
  BY <1>2 DEF DeleteAuditCommit
<1>3. CASE \E b \in Audits, g \in Agents : CreateAudit(b, g)
  <2>1. PICK b \in Audits, g \in Agents : CreateAudit(b, g)
    BY <1>3
  <2>2. b # a
    BY <2>1 DEF CreateAudit, NoRow, Present
  <2>. QED
    BY <1>0, <2>1, <2>2 DEF CreateAudit
<1>4. CASE \E b \in Audits, status \in {"completed", "failed"} : Settle(b, status)
  <2>1. PICK b \in Audits, status \in {"completed", "failed"} : Settle(b, status)
    BY <1>4
  <2>2. audits' = [audits EXCEPT ![b] = [audits[b] EXCEPT !.status = status]]
    BY <1>0, <2>1 DEF Settle
  <2>3. [audits[b] EXCEPT !.status = status].agent = audits[b].agent
    BY <1>0 DEF AuditRow
  <2>. QED
    BY <1>0, <2>2, <2>3
<1>5. CASE UNCHANGED audits
  BY <1>5
<1>. QED
  BY <1>1, <1>2, <1>3, <1>4, <1>5
  DEF Next, vars, DeleteAudit, CreateAgent, FindAgent, LoadAudits, ListAgentsAdmin, LogListing,
      RefreshAgent, AnswerListing, Backup, Restore, CheckAgent, RestoreCommit, LogRestore, CountAudits,
      CountCompleted, AnswerCounts

\* Whatever races with it, the deletion of an agent detaches its audits in the step
\* that deletes it, or none at all.
THEOREM OnlyDeletionDetaches == Spec => DetachedOnlyByDeletion
<1>1. ASSUME IInv, [Next]_vars
      PROVE  [\A a \in Audits :
                Present(a) /\ audits[a].agent # NoAgent /\ audits'[a].agent = NoAgent
                  => audits'[a] = Gone \/ audits[a].agent \notin agents']_vars
  BY <1>1, StepDetaches
<1>. QED
  BY <1>1, Invariance, PTL DEF Spec, DetachedOnlyByDeletion
=============================================================================
