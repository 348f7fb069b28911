-------------------------- MODULE AdminVaultProofs --------------------------
(***************************************************************************)
(* Proofs about the secret vault, for any requests, workers, names, values *)
(* and fault bounds.                                                       *)
(***************************************************************************)
EXTENDS AdminVault, TLAPS

USE VaultAssumption

\* The inductive invariant.
IInv == TypeOK /\ HandlerInv /\ EveryChangeHasAnAuthor /\ AnswersAreAccountable

\* Handler r goes to pc and the others stay where they are; of its record only
\* existing may change beside value and applied.
Becomes(r, pc, value, applied) ==
    /\ request' \in [Requests -> Request]
    /\ \A q \in Requests \ {r} : request'[q] = request[q]
    /\ request'[r].pc = pc /\ request'[r].op = request[r].op
    /\ request'[r].name = request[r].name /\ request'[r].value = value
    /\ request'[r].worker = request[r].worker /\ request'[r].applied = applied

\* Goto changes the position only.
LEMMA GotoBecomes ==
    ASSUME TypeOK, NEW r \in Requests, NEW pc \in OpenPC \cup EndPC, Goto(r, pc)
    PROVE  Becomes(r, pc, request[r].value, request[r].applied)
<1>1. [request[r] EXCEPT !.pc = pc] \in Request
  BY DEF TypeOK, Request
<1>2. request' = [request EXCEPT ![r] = [request[r] EXCEPT !.pc = pc]]
  BY DEF Goto, TypeOK
<1>. QED
  BY <1>1, <1>2 DEF Becomes, TypeOK, Request

\* Took also notes that the handler took effect.
LEMMA TookBecomes ==
    ASSUME TypeOK, NEW r \in Requests, NEW pc \in OpenPC \cup EndPC, Took(r, pc)
    PROVE  Becomes(r, pc, request[r].value, TRUE)
<1>. DEFINE new == [request[r] EXCEPT !.pc = pc, !.applied = TRUE]
<1>0. request[r] \in Request
  BY DEF TypeOK
<1>1. /\ new \in Request /\ new.pc = pc /\ new.applied = TRUE
      /\ new.value = request[r].value /\ new.op = request[r].op
      /\ new.name = request[r].name /\ new.worker = request[r].worker
  BY <1>0 DEF Request
<1>2. request' = [request EXCEPT ![r] = new]
  BY DEF Took, TypeOK
<1>. HIDE DEF new
<1>. QED
  BY <1>1, <1>2 DEF Becomes, TypeOK

USE DEF OpenPC, SetPC, EndPC

\* What each handler step makes of its request.
LEMMA LookUpBecomes ==
    ASSUME TypeOK, NEW r \in Requests, LookUp(r)
    PROVE  Becomes(r, "looked", request[r].value, request[r].applied)
<1>. DEFINE new == [request[r] EXCEPT !.pc = "looked", !.existing = Truthy(vault[request[r].name])]
<1>0. request[r] \in Request
  BY DEF TypeOK
<1>1. /\ new \in Request /\ new.pc = "looked" /\ new.applied = request[r].applied
      /\ new.value = request[r].value /\ new.op = request[r].op
      /\ new.name = request[r].name /\ new.worker = request[r].worker
  BY <1>0 DEF Request, Truthy
<1>2. request' = [request EXCEPT ![r] = new]
  BY DEF LookUp, TypeOK
<1>. HIDE DEF new
<1>. QED
  BY <1>1, <1>2 DEF Becomes, TypeOK

\* A read that finds its name remembers the value; one that does not fails.
LEMMA ReadBecomes ==
    ASSUME TypeOK, HandlerInv, NEW r \in Requests, ReadSecret(r)
    PROVE  LET v == vault[request[r].name] IN
           IF v = NoRow THEN Becomes(r, "failed", request[r].value, request[r].applied)
                        ELSE Becomes(r, "found", v, TRUE)
<1>. DEFINE v == vault[request[r].name]
<1>0. request[r].name \in Names /\ v \in Secrets \cup {NoRow}
  BY DEF ReadSecret, TypeOK, HandlerInv, HandlerOK
<1>1. CASE v = NoRow
  <2>1. [request[r] EXCEPT !.pc = "failed"] \in Request
    BY DEF TypeOK, Request
  <2>2. request' = [request EXCEPT ![r] = [request[r] EXCEPT !.pc = "failed"]]
    BY <1>1 DEF ReadSecret, TypeOK
  <2>. QED
    BY <1>1, <2>1, <2>2 DEF Becomes, TypeOK, Request
<1>2. CASE v # NoRow
  <2>. DEFINE new == [request[r] EXCEPT !.pc = "found", !.value = v, !.applied = TRUE]
  <2>1. new \in Request
    <3>1. request[r] \in Request
      BY DEF TypeOK
    <3>. HIDE DEF v
    <3>. QED
      BY <1>0, <3>1 DEF Request
  <2>2. request' = [request EXCEPT ![r] = new]
    BY <1>2 DEF ReadSecret, TypeOK
  <2>. QED
    BY <1>2, <2>1, <2>2 DEF Becomes, TypeOK, Request
<1>. QED
  BY <1>1, <1>2

-----------------------------------------------------------------------------
\* A handler step disturbs no other handler: the log only grows.
LEMMA OthersKeep ==
    ASSUME TypeOK, HandlerInv, NEW r \in Requests, NEW pc, NEW value, NEW applied,
           Becomes(r, pc, value, applied), log \subseteq log', HandlerOK(r)'
    PROVE  HandlerInv'
<1>. SUFFICES ASSUME NEW q \in Requests, q # r PROVE HandlerOK(q)'
  BY DEF HandlerInv
<1>1. request'[q] = request[q] /\ HandlerOK(q)
  BY DEF Becomes, HandlerInv
<1>2. Logged(q) => Logged(q)'
  BY DEF Logged
<1>. QED
  BY <1>1, <1>2 DEF HandlerOK

\* The same for the two properties, while no value changes.
LEMMA AuthorsKeep ==
    ASSUME IInv, NEW r \in Requests, NEW pc, NEW value, NEW applied,
           Becomes(r, pc, value, applied), log \subseteq log', vault' = vault,
           request[r].op \in {"upsert", "rotate"} => value = request[r].value,
           request[r].applied => applied,
           request[r].op = "upsert" /\ applied => Logged(r)',
           pc = "answered" => applied /\ Logged(r)'
    PROVE  EveryChangeHasAnAuthor' /\ AnswersAreAccountable'
<1>1. \A q \in Requests : Logged(q) => Logged(q)'
  BY DEF Logged
<1>2. \A q \in Requests : /\ request'[q].op = request[q].op /\ request'[q].name = request[q].name
                          /\ request[q].applied => request'[q].applied
                          /\ request[q].op \in {"upsert", "rotate"}
                               => request'[q].value = request[q].value
                          /\ q # r => request'[q] = request[q]
  BY DEF Becomes
<1>3. EveryChangeHasAnAuthor'
  BY <1>1, <1>2 DEF EveryChangeHasAnAuthor, IInv, Becomes
<1>4. AnswersAreAccountable'
  BY <1>1, <1>2 DEF AnswersAreAccountable, IInv, Becomes
<1>. QED
  BY <1>3, <1>4

\* The initial states satisfy the invariant.
LEMMA InitInv == Init => IInv
<1>. SUFFICES ASSUME Init PROVE IInv
  OBVIOUS
<1>1. NewRequest \in Request
  BY DEF NewRequest, Request
<1>2. TypeOK
  BY <1>1 DEF Init, TypeOK
<1>3. HandlerInv
  BY DEF Init, HandlerInv, HandlerOK, NewRequest
<1>. QED
  BY <1>2, <1>3 DEF Init, IInv, EveryChangeHasAnAuthor, AnswersAreAccountable, NewRequest

\* A call makes a new request a handler that has done nothing yet.
LEMMA CallInv ==
    ASSUME IInv, NEW r \in Requests, NEW w \in Workers, NEW n \in Names, NEW op, NEW v,
           \/ op = "upsert" /\ v \in Values
           \/ op = "rotate" /\ v = r
           \/ op = "read" /\ v = NoRow,
           Call(r, w, op, n, v)
    PROVE  IInv'
<1>. DEFINE new == [pc |-> IF op = "rotate" THEN "setting" ELSE "called", op |-> op, name |-> n,
                    value |-> v, worker |-> w, existing |-> FALSE, applied |-> FALSE]
<1>1. request' = [request EXCEPT ![r] = new]
  BY DEF Call
<1>2. new \in Request
  BY DEF Request, Ops, Secrets
<1>3. request[r].pc = "new" /\ request[r].op = "none"
  BY DEF Call, IInv, HandlerInv, HandlerOK, NewRequest
<1>4. UNCHANGED <<vault, log, restarts, dbErrors>>
  BY DEF Call, faults
<1>5. /\ request'[r] = new /\ \A q \in Requests \ {r} : request'[q] = request[q]
      /\ TypeOK'
  BY <1>1, <1>2, <1>4 DEF IInv, TypeOK
<1>6. HandlerInv'
  <2>1. HandlerOK(r)'
    BY <1>5 DEF HandlerOK, Ops, Secrets
  <2>2. ASSUME NEW q \in Requests, q # r PROVE HandlerOK(q)'
    BY <1>4, <1>5, <2>2 DEF HandlerOK, HandlerInv, IInv, Logged
  <2>. QED
    BY <2>1, <2>2 DEF HandlerInv
<1>7. EveryChangeHasAnAuthor' /\ AnswersAreAccountable'
  BY <1>3, <1>4, <1>5 DEF EveryChangeHasAnAuthor, AnswersAreAccountable, Logged, IInv
<1>. QED
  BY <1>5, <1>6, <1>7 DEF IInv

\* The handler steps that change no value of the vault.
LEMMA LogAndLookInv ==
    ASSUME IInv, NEW r \in Requests,
           \/ LookUp(r) \/ LogUpsert(r) \/ SetSecret(r) \/ SelectRow(r)
           \/ AnswerUpsert(r) \/ LogRotate(r) \/ ReadSecret(r) \/ LogRead(r)
    PROVE  IInv'
<1>0. /\ TypeOK /\ HandlerInv /\ HandlerOK(r)
      /\ vault' = vault /\ UNCHANGED <<restarts, dbErrors>>
  BY DEF IInv, HandlerInv, LookUp, LogUpsert, SetSecret, SelectRow, AnswerUpsert, LogRotate,
         ReadSecret, LogRead, faults
<1>1. ASSUME NEW pc, NEW value, NEW applied, Becomes(r, pc, value, applied),
             log' \in {log} \cup {log \cup {Entry(r, a)} : a \in Action},
             HandlerOK(r)',
             request[r].op \in {"upsert", "rotate"} => value = request[r].value,
             request[r].applied => applied,
             pc = "answered" => applied /\ Logged(r)'
      PROVE  IInv'
  <2>1. log \subseteq log' /\ log' \subseteq [request: Requests, action: Action]
    BY <1>0, <1>1 DEF TypeOK, Entry
  <2>2. TypeOK'
    BY <1>0, <1>1, <2>1 DEF TypeOK, Becomes
  <2>3. HandlerInv'
    BY <1>0, <1>1, <2>1, OthersKeep
  <2>4. request[r].op = "upsert" /\ applied => Logged(r)'
    BY <1>1 DEF HandlerOK, Becomes
  <2>5. EveryChangeHasAnAuthor' /\ AnswersAreAccountable'
    BY <1>0, <1>1, <2>1, <2>4, AuthorsKeep
  <2>. QED
    BY <2>2, <2>3, <2>5 DEF IInv
<1>2. ASSUME NEW a \in Action, log' = log \cup {Entry(r, a)}
      PROVE  Logged(r)'
  <2>1. Entry(r, a).request = r
    BY DEF Entry
  <2>. QED
    BY <1>2, <2>1 DEF Logged
<1>3. CASE LookUp(r)
  <2>1. Becomes(r, "looked", request[r].value, request[r].applied)
    BY <1>0, <1>3, LookUpBecomes
  <2>2. HandlerOK(r)'
    BY <1>0, <1>3, <2>1 DEF LookUp, Becomes, HandlerOK, Logged
  <2>. QED
    BY <1>1, <1>3, <2>1, <2>2 DEF LookUp
<1>4. CASE LogUpsert(r)
  <2>1. Becomes(r, "setting", request[r].value, request[r].applied)
    BY <1>0, <1>4, GotoBecomes DEF LogUpsert
  <2>2. PICK a \in Action : log' = log \cup {Entry(r, a)}
    BY <1>4 DEF LogUpsert, Action
  <2>3. HandlerOK(r)'
    BY <1>0, <1>2, <1>4, <2>1, <2>2 DEF LogUpsert, Becomes, HandlerOK
  <2>. QED
    BY <1>1, <2>1, <2>2, <2>3
<1>5. CASE SetSecret(r)
  <2>1. PICK pc \in {"selecting", "inserting"} :
             Becomes(r, pc, request[r].value, request[r].applied)
    BY <1>0, <1>5, GotoBecomes DEF SetSecret
  <2>2. HandlerOK(r)'
    BY <1>0, <1>5, <2>1 DEF SetSecret, Becomes, HandlerOK, Logged
  <2>. QED
    BY <1>1, <1>5, <2>1, <2>2 DEF SetSecret
<1>6. CASE SelectRow(r)
  <2>1. CASE Becomes(r, "unchanged", request[r].value, TRUE)
    <3>1. HandlerOK(r)'
      BY <1>0, <1>6, <2>1 DEF SelectRow, Becomes, HandlerOK, Logged
    <3>. QED
      BY <1>1, <1>6, <2>1, <3>1 DEF SelectRow
  <2>2. CASE Becomes(r, "changing", request[r].value, request[r].applied)
    <3>1. HandlerOK(r)'
      BY <1>0, <1>6, <2>2 DEF SelectRow, Becomes, HandlerOK, Logged
    <3>. QED
      BY <1>1, <1>6, <2>2, <3>1 DEF SelectRow
  <2>. QED
    BY <1>0, <1>6, <2>1, <2>2, GotoBecomes, TookBecomes DEF SelectRow
<1>7. CASE AnswerUpsert(r)
  <2>1. Becomes(r, "answered", request[r].value, request[r].applied)
    BY <1>0, <1>7, GotoBecomes DEF AnswerUpsert
  <2>2. HandlerOK(r)' /\ request[r].applied /\ Logged(r)'
    BY <1>0, <1>7, <2>1 DEF AnswerUpsert, Becomes, HandlerOK, Logged
  <2>. QED
    BY <1>1, <1>7, <2>1, <2>2 DEF AnswerUpsert
<1>8. CASE LogRotate(r) \/ LogRead(r)
  <2>1. Becomes(r, "answered", request[r].value, request[r].applied)
    BY <1>0, <1>8, GotoBecomes DEF LogRotate, LogRead
  <2>2. PICK a \in Action : log' = log \cup {Entry(r, a)}
    BY <1>8 DEF LogRotate, LogRead, Action
  <2>3. Logged(r)'
    BY <1>2, <2>2
  <2>4. HandlerOK(r)' /\ request[r].applied
    BY <1>0, <1>8, <2>1, <2>3 DEF LogRotate, LogRead, Becomes, HandlerOK
  <2>. QED
    BY <1>1, <2>1, <2>2, <2>3, <2>4
<1>9. CASE ReadSecret(r)
  <2>. DEFINE v == vault[request[r].name]
  <2>1. CASE v = NoRow
    <3>1. Becomes(r, "failed", request[r].value, request[r].applied)
      BY <1>0, <1>9, <2>1, ReadBecomes
    <3>2. HandlerOK(r)'
      BY <1>0, <1>9, <3>1 DEF ReadSecret, Becomes, HandlerOK, Logged
    <3>. QED
      BY <1>1, <1>9, <3>1, <3>2 DEF ReadSecret
  <2>2. CASE v # NoRow
    <3>1. Becomes(r, "found", v, TRUE)
      BY <1>0, <1>9, <2>2, ReadBecomes
    <3>2. HandlerOK(r)'
      BY <1>0, <1>9, <3>1 DEF ReadSecret, Becomes, HandlerOK, Logged
    <3>. QED
      BY <1>1, <1>9, <3>1, <3>2 DEF ReadSecret
  <2>. QED
    BY <2>1, <2>2
<1>. QED
  BY <1>3, <1>4, <1>5, <1>6, <1>7, <1>8, <1>9

\* The steps that set a value: its author is the request that takes effect.
LEMMA SetInv ==
    ASSUME IInv, NEW r \in Requests, UpdateRow(r) \/ InsertRow(r)
    PROVE  IInv'
<1>. DEFINE n == request[r].name
            v == request[r].value
<1>1. /\ TypeOK /\ HandlerInv /\ HandlerOK(r)
      /\ UNCHANGED <<log, restarts, dbErrors>>
      /\ request[r].op \in {"upsert", "rotate"} /\ n \in Names /\ v \in Secrets
  BY DEF IInv, HandlerInv, HandlerOK, UpdateRow, InsertRow, faults, Ops
<1>2. CASE Becomes(r, "set", v, TRUE) /\ vault' \in {vault, [vault EXCEPT ![n] = v]}
  <2>1. HandlerOK(r)'
    BY <1>1, <1>2 DEF UpdateRow, InsertRow, Becomes, HandlerOK, Logged
  <2>2. HandlerInv'
    BY <1>1, <1>2, <2>1, OthersKeep
  <2>3. TypeOK'
    BY <1>1, <1>2 DEF TypeOK, Becomes
  <2>4. /\ \A q \in Requests : Logged(q)' = Logged(q)
        /\ \A q \in Requests \ {r} : request'[q] = request[q]
        /\ request'[r].op = request[r].op /\ request'[r].name = n /\ request'[r].value = v
        /\ request'[r].applied /\ request'[r].pc = "set"
    BY <1>1, <1>2 DEF Logged, Becomes
  <2>5. request[r].op = "upsert" => Logged(r)
    BY <1>1 DEF HandlerOK, UpdateRow, InsertRow
  <2>6. EveryChangeHasAnAuthor'
    <3>1. ASSUME NEW m \in Names, vault'[m] # NoRow
          PROVE  \E q \in Requests : /\ request'[q].op \in {"upsert", "rotate"}
                                     /\ request'[q].name = m /\ request'[q].value = vault'[m]
                                     /\ request'[q].applied
      <4>1. CASE vault'[m] = vault[m]
        <5>1. PICK q \in Requests : /\ request[q].op \in {"upsert", "rotate"}
                                   /\ request[q].name = m /\ request[q].value = vault[m]
                                   /\ request[q].applied
          BY <3>1, <4>1 DEF IInv, EveryChangeHasAnAuthor
        <5>. QED
          BY <2>4, <4>1, <5>1
      <4>2. CASE m = n /\ vault'[m] = v
        BY <1>1, <2>4, <4>2
      <4>. QED
        BY <1>1, <1>2, <4>1, <4>2 DEF TypeOK
    <3>. QED
      BY <2>4, <2>5, <3>1 DEF IInv, EveryChangeHasAnAuthor
  <2>7. AnswersAreAccountable'
    BY <2>4 DEF IInv, AnswersAreAccountable
  <2>. QED
    BY <2>2, <2>3, <2>6, <2>7 DEF IInv
<1>3. CASE Becomes(r, "failed", v, request[r].applied) /\ vault' = vault
  <2>1. HandlerOK(r)'
    BY <1>1, <1>3 DEF UpdateRow, InsertRow, Becomes, HandlerOK, Logged
  <2>2. HandlerInv'
    BY <1>1, <1>3, <2>1, OthersKeep
  <2>3. TypeOK'
    BY <1>1, <1>3 DEF TypeOK, Becomes
  <2>4. EveryChangeHasAnAuthor' /\ AnswersAreAccountable'
    <3>1. request[r].op = "upsert" /\ request[r].applied => Logged(r)'
      BY <1>1 DEF HandlerOK, Logged
    <3>. QED
      BY <1>1, <1>3, <3>1, AuthorsKeep
  <2>. QED
    BY <2>2, <2>3, <2>4 DEF IInv
<1>4. CASE UpdateRow(r)
  BY <1>1, <1>2, <1>4, TookBecomes DEF UpdateRow
<1>5. CASE InsertRow(r)
  BY <1>1, <1>2, <1>3, <1>5, TookBecomes, GotoBecomes DEF InsertRow
<1>. QED
  BY <1>4, <1>5

\* Faults end handlers and change nothing else.
LEMMA FaultInv ==
    ASSUME IInv, NEW x, (x \in Requests /\ DbError(x)) \/ (x \in Workers /\ Restart(x))
    PROVE  IInv'
<1>1. /\ UNCHANGED <<vault, log>> /\ restarts' \in 0..MaxRestarts /\ dbErrors' \in 0..MaxDbErrors
  BY DEF DbError, Restart, IInv, TypeOK
<1>2. /\ request' \in [Requests -> Request]
      /\ \A q \in Requests :
           \/ request'[q] = request[q]
           \/ /\ request[q].pc \in OpenPC /\ request'[q].pc \in {"failed", "lost"}
              /\ request'[q].op = request[q].op /\ request'[q].name = request[q].name
              /\ request'[q].value = request[q].value
              /\ request'[q].applied = request[q].applied
  <2>1. CASE x \in Requests /\ DbError(x)
    <3>1. Becomes(x, "failed", request[x].value, request[x].applied) /\ Open(x)
      BY <2>1, GotoBecomes DEF DbError, IInv
    <3>. QED
      BY <2>1, <3>1 DEF Becomes, Open
  <2>2. CASE x \in Workers /\ Restart(x)
    BY <2>2 DEF Restart, Open, IInv, TypeOK, Request
  <2>. QED
    BY <2>1, <2>2
<1>3. TypeOK'
  BY <1>1, <1>2 DEF IInv, TypeOK
<1>4. \A q \in Requests : Logged(q)' = Logged(q)
  BY <1>1 DEF Logged
<1>5. HandlerInv'
  <2>. SUFFICES ASSUME NEW q \in Requests PROVE HandlerOK(q)'
    BY DEF HandlerInv
  <2>1. HandlerOK(q)
    BY DEF IInv, HandlerInv
  <2>. QED
    BY <1>2, <1>4, <2>1 DEF HandlerOK
<1>6. EveryChangeHasAnAuthor' /\ AnswersAreAccountable'
  BY <1>1, <1>2, <1>4 DEF IInv, EveryChangeHasAnAuthor, AnswersAreAccountable
<1>. QED
  BY <1>3, <1>5, <1>6 DEF IInv

\* Every step preserves the invariant.
LEMMA NextInv == IInv /\ [Next]_vars => IInv'
<1>. SUFFICES ASSUME IInv, [Next]_vars PROVE IInv'
  OBVIOUS
<1>1. CASE UNCHANGED vars
  BY <1>1 DEF vars, IInv, TypeOK, HandlerInv, HandlerOK, EveryChangeHasAnAuthor,
              AnswersAreAccountable, Logged
<1>2. ASSUME NEW r \in Requests, HandlerStep(r)
      PROVE  IInv'
  BY <1>2, LogAndLookInv, SetInv DEF HandlerStep
<1>3. ASSUME NEW r \in Requests, DbError(r)
      PROVE  IInv'
  BY <1>3, FaultInv
<1>4. ASSUME NEW w \in Workers, Restart(w)
      PROVE  IInv'
  BY <1>4, FaultInv
<1>5. ASSUME NEW r \in Requests, NEW w \in Workers, NEW n \in Names,
             \/ \E v \in Values : Call(r, w, "upsert", n, v)
             \/ Call(r, w, "rotate", n, r)
             \/ Call(r, w, "read", n, NoRow)
      PROVE  IInv'
  BY <1>5, CallInv
<1>. QED
  BY <1>1, <1>2, <1>3, <1>4, <1>5 DEF Next

\* The vault, the log and the handlers keep the inductive invariant.
THEOREM InductiveInvariant == Spec => []IInv
BY InitInv, NextInv, PTL DEF Spec

\* Every reachable state is well typed.
THEOREM TypeCorrect == Spec => []TypeOK
<1>1. IInv => TypeOK
  BY DEF IInv
<1>. QED
  BY <1>1, InductiveInvariant, PTL

\* Every value in the vault has an author, and an upsert is logged before it takes effect.
THEOREM ChangesHaveAuthors == Spec => []EveryChangeHasAnAuthor
<1>1. IInv => EveryChangeHasAnAuthor
  BY DEF IInv
<1>. QED
  BY <1>1, InductiveInvariant, PTL

\* An answered request is in the log and took effect, whatever races and faults.
THEOREM AnswersAccountable == Spec => []AnswersAreAccountable
<1>1. IInv => AnswersAreAccountable
  BY DEF IInv
<1>. QED
  BY <1>1, InductiveInvariant, PTL

-----------------------------------------------------------------------------
(* One worker, no fault and no empty value: the log tells the truth. *)

\* There is one handler at a time, and what it read is still so when it writes.
SoleHandler ==
    /\ \A q, r \in Requests : Open(q) /\ Open(r) => q = r
    /\ \A r \in Requests : Open(r) => request[r].worker \in Workers
    /\ \A r \in Requests : request[r].pc = "inserting" => vault[request[r].name] = NoRow
    /\ \A r \in Requests : request[r].pc \in {"new", "called", "looked"} => ~Logged(r)
    /\ LoggedSuccessHappened

\* A step of the only handler keeps that.
LEMMA SoleMove ==
    ASSUME SoleHandler, NEW r \in Requests, Open(r),
           NEW pc \in OpenPC \cup EndPC, NEW value, NEW applied, Becomes(r, pc, value, applied),
           pc = "inserting" => vault'[request[r].name] = NoRow,
           log' = log \/ \E a \in Action : log' = log \cup {Entry(r, a)},
           pc \in {"called", "looked"} => ~Logged(r)',
           Logged(r)' /\ pc \in EndPC => applied
    PROVE  SoleHandler'
<1>1. /\ \A q \in Requests : Open(q)' => q = r
      /\ request'[r].worker = request[r].worker
      /\ \A q \in Requests \ {r} : request'[q] = request[q] /\ ~Open(q)
  BY DEF Becomes, Open, SoleHandler
<1>2. \A q \in Requests \ {r} : Logged(q)' = Logged(q)
  BY DEF Logged, Entry
<1>3. request'[r].pc = pc /\ request'[r].applied = applied /\ request'[r].name = request[r].name
  BY DEF Becomes
<1>4. /\ \A q \in Requests : request'[q].pc = "inserting" => vault'[request'[q].name] = NoRow
      /\ \A q \in Requests : request'[q].pc \in {"new", "called", "looked"} => ~Logged(q)'
  BY <1>1, <1>2, <1>3 DEF SoleHandler, Open
<1>5. LoggedSuccessHappened'
  BY <1>1, <1>2, <1>3 DEF SoleHandler, LoggedSuccessHappened
<1>. QED
  BY <1>1, <1>4, <1>5 DEF SoleHandler

\* Every handler step is such a step.
LEMMA SoleStep ==
    ASSUME IInv, SoleHandler, Empty \notin Secrets, NEW r \in Requests, HandlerStep(r)
    PROVE  SoleHandler'
<1>0. /\ TypeOK /\ HandlerInv /\ HandlerOK(r)
      /\ Open(r) /\ request[r].op \in Ops /\ request[r].name \in Names
      /\ vault[request[r].name] \in Secrets \cup {NoRow}
  BY DEF IInv, TypeOK, HandlerInv, HandlerOK, HandlerStep, Open, LookUp, LogUpsert, SetSecret,
         SelectRow, UpdateRow, InsertRow, AnswerUpsert, LogRotate, ReadSecret, LogRead
<1>1. CASE LookUp(r)
  <2>1. ~Logged(r)' /\ Becomes(r, "looked", request[r].value, request[r].applied)
    BY <1>0, <1>1, LookUpBecomes DEF LookUp, Logged, SoleHandler
  <2>. QED
    BY <1>0, <1>1, <2>1, SoleMove DEF LookUp
<1>2. CASE LogUpsert(r)
  <2>1. Becomes(r, "setting", request[r].value, request[r].applied)
    BY <1>0, <1>2, GotoBecomes DEF LogUpsert
  <2>2. \E a \in Action : log' = log \cup {Entry(r, a)}
    BY <1>2 DEF LogUpsert, Action
  <2>. QED
    BY <1>0, <2>1, <2>2, SoleMove
<1>3. CASE SetSecret(r)
  <2>1. CASE Truthy(vault[request[r].name])
    <3>1. Becomes(r, "selecting", request[r].value, request[r].applied)
      BY <1>0, <1>3, <2>1, GotoBecomes DEF SetSecret
    <3>. QED
      BY <1>0, <1>3, <3>1, SoleMove DEF SetSecret
  <2>2. CASE ~Truthy(vault[request[r].name])
    <3>1. Becomes(r, "inserting", request[r].value, request[r].applied)
      BY <1>0, <1>3, <2>2, GotoBecomes DEF SetSecret
    <3>2. vault'[request[r].name] = NoRow
      BY <1>0, <1>3, <2>2 DEF SetSecret, Truthy
    <3>. QED
      BY <1>0, <1>3, <3>1, <3>2, SoleMove DEF SetSecret
  <2>. QED
    BY <2>1, <2>2
<1>4. CASE SelectRow(r)
  <2>1. \/ Becomes(r, "unchanged", request[r].value, TRUE)
        \/ Becomes(r, "changing", request[r].value, request[r].applied)
    BY <1>0, <1>4, GotoBecomes, TookBecomes DEF SelectRow
  <2>. QED
    BY <1>0, <1>4, <2>1, SoleMove DEF SelectRow
<1>5. CASE UpdateRow(r)
  <2>1. Becomes(r, "set", request[r].value, TRUE)
    BY <1>0, <1>5, TookBecomes DEF UpdateRow
  <2>. QED
    BY <1>0, <1>5, <2>1, SoleMove DEF UpdateRow
<1>6. CASE InsertRow(r)
  <2>1. vault[request[r].name] = NoRow
    BY <1>6 DEF InsertRow, SoleHandler
  <2>2. Becomes(r, "set", request[r].value, TRUE)
    BY <1>0, <1>6, <2>1, TookBecomes DEF InsertRow
  <2>. QED
    BY <1>0, <1>6, <2>2, SoleMove DEF InsertRow
<1>7. CASE AnswerUpsert(r) \/ LogRotate(r) \/ LogRead(r)
  <2>1. Becomes(r, "answered", request[r].value, request[r].applied)
    BY <1>0, <1>7, GotoBecomes DEF AnswerUpsert, LogRotate, LogRead
  <2>2. log' = log \/ \E a \in Action : log' = log \cup {Entry(r, a)}
    BY <1>7 DEF AnswerUpsert, LogRotate, LogRead, Action
  <2>3. request[r].applied
    BY <1>0, <1>7 DEF AnswerUpsert, LogRotate, LogRead, HandlerOK
  <2>. QED
    BY <1>0, <2>1, <2>2, <2>3, SoleMove
<1>8. CASE ReadSecret(r)
  <2>1. ~Logged(r)'
    BY <1>8 DEF ReadSecret, Logged, SoleHandler
  <2>2. CASE vault[request[r].name] = NoRow
    <3>1. Becomes(r, "failed", request[r].value, request[r].applied)
      BY <1>0, <1>8, <2>2, ReadBecomes
    <3>. QED
      BY <1>0, <1>8, <2>1, <3>1, SoleMove DEF ReadSecret
  <2>3. CASE vault[request[r].name] # NoRow
    <3>1. Becomes(r, "found", vault[request[r].name], TRUE)
      BY <1>0, <1>8, <2>3, ReadBecomes
    <3>. QED
      BY <1>0, <1>8, <2>1, <3>1, SoleMove DEF ReadSecret
  <2>. QED
    BY <2>2, <2>3
<1>. QED
  BY <1>1, <1>2, <1>3, <1>4, <1>5, <1>6, <1>7, <1>8 DEF HandlerStep

\* The log records successes that happened, as long as one worker serves the requests,
\* nothing fails and no value is empty.  The violation of LoggedSuccessHappened needs
\* one of the three.
THEOREM SoleWorkerLogsTruly ==
    ASSUME \A v, w \in Workers : v = w, MaxRestarts = 0, MaxDbErrors = 0, Empty \notin Secrets
    PROVE  Spec => []LoggedSuccessHappened
<1>1. Init => SoleHandler
  BY DEF Init, SoleHandler, LoggedSuccessHappened, NewRequest, Open, Logged
<1>2. IInv /\ SoleHandler /\ [Next]_vars => SoleHandler'
  <2>. SUFFICES ASSUME IInv, SoleHandler, [Next]_vars PROVE SoleHandler'
    OBVIOUS
  <2>1. CASE UNCHANGED vars
    BY <2>1 DEF vars, SoleHandler, LoggedSuccessHappened, Open, Logged
  <2>2. ASSUME NEW r \in Requests, NEW w \in Workers, NEW n \in Names, NEW op \in Ops, NEW v,
               Call(r, w, op, n, v)
        PROVE  SoleHandler'
    <3>1. /\ request[r].pc = "new" /\ vault' = vault /\ log' = log
          /\ \A q \in Requests : ~Open(q)
      BY <2>2 DEF Call, WorkerFree, SoleHandler
    <3>2. /\ \A q \in Requests \ {r} : request'[q] = request[q]
          /\ request'[r].pc \in {"called", "setting"} /\ request'[r].worker = w
      BY <2>2 DEF Call, IInv, TypeOK
    <3>3. ~Logged(r) /\ \A q \in Requests : Logged(q)' = Logged(q)
      BY <3>1 DEF SoleHandler, Logged
    <3>. QED
      BY <3>1, <3>2, <3>3 DEF SoleHandler, LoggedSuccessHappened, Open
  <2>3. ASSUME \/ \E r \in Requests : DbError(r)
               \/ \E w \in Workers : Restart(w)
        PROVE  FALSE
    BY <2>3 DEF DbError, Restart, IInv, TypeOK
  <2>4. {"upsert", "rotate", "read"} \subseteq Ops
    BY DEF Ops
  <2>. QED
    BY <2>1, <2>2, <2>3, <2>4, SoleStep DEF Next
<1>3. SoleHandler => LoggedSuccessHappened
  BY DEF SoleHandler
<1>. QED
  BY <1>1, <1>2, <1>3, InductiveInvariant, PTL DEF Spec

-----------------------------------------------------------------------------
(* Refinement. *)

jobs == [r \in Requests |-> Job(r)]
states == [r \in Requests |-> State(r)]

\* What a request that is not touched shows of itself.
LEMMA ShownKeep ==
    ASSUME NEW q \in Requests,
           request'[q].pc = request[q].pc, request'[q].op = request[q].op,
           request'[q].name = request[q].name, request'[q].value = request[q].value,
           request'[q].applied = request[q].applied
    PROVE  Job(q)' = Job(q) /\ State(q)' = State(q)
BY DEF Job, State, Open

\* A step of one handler shows as a change of its own state and job only.
LEMMA ShownChange ==
    ASSUME NEW r \in Requests, NEW pc, NEW value, NEW applied, Becomes(r, pc, value, applied)
    PROVE  /\ states' = [states EXCEPT ![r] = State(r)']
           /\ jobs' = [jobs EXCEPT ![r] = Job(r)']
<1>1. \A q \in Requests \ {r} : request'[q] = request[q]
  BY DEF Becomes
<1>2. \A q \in Requests \ {r} : Job(q)' = Job(q) /\ State(q)' = State(q)
  BY <1>1, ShownKeep
<1>. QED
  BY <1>2 DEF jobs, states

\* The initial states are those of the contract.
LEMMA ContractInit == Init => Contract!Init
<1>. SUFFICES ASSUME Init PROVE Contract!Init
  OBVIOUS
<1>1. ASSUME NEW r \in Requests
      PROVE  Job(r) = Contract!NoJob /\ State(r) = "new"
  <2>1. request[r].pc = "new" /\ request[r].op = "none"
          /\ request[r].name = NoRow /\ request[r].value = NoRow
    BY DEF Init, NewRequest
  <2>. QED
    BY <2>1 DEF Contract!NoJob, Job, State, Open
<1>. QED
  BY <1>1 DEF Init, Contract!Init

\* Every step is a step of the contract or does not show.
LEMMA ContractStep == IInv /\ [Next]_vars => [Contract!Next]_(Contract!vars)
<1>. SUFFICES ASSUME IInv, [Next]_vars
              PROVE  Contract!Next \/ UNCHANGED <<vault, jobs, states>>
  BY DEF Contract!vars, jobs, states
<1>0. TypeOK /\ HandlerInv
  BY DEF IInv
<1>1. CASE UNCHANGED vars
  BY <1>1 DEF vars, jobs, states, Job, State, Open
<1>2. ASSUME NEW r \in Requests, NEW w \in Workers, NEW n \in Names, NEW op, NEW v,
             \/ op = "upsert" /\ v \in Values
             \/ op = "rotate" /\ v = r
             \/ op = "read" /\ v = NoRow,
             Call(r, w, op, n, v)
      PROVE  Contract!Next
  <2>. DEFINE new == [pc |-> IF op = "rotate" THEN "setting" ELSE "called", op |-> op, name |-> n,
                      value |-> v, worker |-> w, existing |-> FALSE, applied |-> FALSE]
              j == [op |-> IF op = "read" THEN "read" ELSE "write", name |-> n, value |-> v]
  <2>1. request' = [request EXCEPT ![r] = new] /\ vault' = vault /\ request[r].pc = "new"
    BY <1>2 DEF Call
  <2>2. request'[r] = new /\ \A q \in Requests \ {r} : request'[q] = request[q]
    BY <1>0, <2>1 DEF TypeOK
  <2>3. \A q \in Requests \ {r} : Job(q)' = Job(q) /\ State(q)' = State(q)
    BY <2>2, ShownKeep
  <2>4. Job(r)' = j /\ State(r)' = "open" /\ State(r) = "new"
    BY <1>2, <2>1, <2>2 DEF Job, State, Open
  <2>5. states' = [states EXCEPT ![r] = "open"] /\ jobs' = [jobs EXCEPT ![r] = j]
    BY <2>3, <2>4 DEF states, jobs
  <2>6. j \in Contract!WriteJobs \cup Contract!ReadJobs
    BY <1>2 DEF Contract!WriteJobs, Contract!ReadJobs, Secrets
  <2>7. Contract!Call(r)
    BY <2>1, <2>4, <2>5, <2>6 DEF Contract!Call, states, jobs
  <2>. QED
    BY <2>7 DEF Contract!Next
<1>3. ASSUME NEW r \in Requests,
             LookUp(r) \/ LogUpsert(r) \/ SetSecret(r)
      PROVE  UNCHANGED <<vault, jobs, states>>
  <2>1. /\ vault' = vault
        /\ request[r].pc \in {"called", "looked", "setting"}
        /\ \E pc \in {"looked", "setting", "selecting", "inserting"} :
              Becomes(r, pc, request[r].value, request[r].applied)
    BY <1>0, <1>3, LookUpBecomes, GotoBecomes DEF LookUp, LogUpsert, SetSecret
  <2>2. State(r)' = State(r) /\ Job(r)' = Job(r)
    BY <2>1 DEF Becomes, State, Job, Open
  <2>. QED
    BY <2>1, <2>2, ShownChange DEF jobs, states
<1>4. ASSUME NEW r \in Requests,
             Becomes(r, "failed", request[r].value, request[r].applied),
             vault' = vault, Open(r)
      PROVE  Contract!Next
  <2>1. State(r)' = "refused" /\ Job(r)' = Job(r) /\ State(r) \in {"open", "applied"}
    BY <1>4 DEF Becomes, State, Job, Open
  <2>2. Contract!Refuse({r})
    BY <1>4, <2>1, ShownChange DEF Contract!Refuse, jobs, states
  <2>. QED
    BY <2>2 DEF Contract!Next
<1>5. ASSUME NEW r \in Requests, NEW pc \in {"unchanged", "set"},
             Becomes(r, pc, request[r].value, TRUE),
             request[r].pc \in {"selecting", "changing", "inserting"},
             vault' = [vault EXCEPT ![request[r].name] = request[r].value]
      PROVE  Contract!Next
  <2>1. ~request[r].applied /\ request[r].op \in {"upsert", "rotate"}
    BY <1>0, <1>5 DEF HandlerInv, HandlerOK, Ops
  <2>2. /\ State(r) = "open" /\ State(r)' = "applied" /\ Job(r)' = Job(r)
        /\ Job(r).op = "write" /\ Job(r).name = request[r].name /\ Job(r).value = request[r].value
    BY <1>5, <2>1 DEF Becomes, State, Job, Open
  <2>3. Contract!Write(r)
    BY <1>5, <2>2, ShownChange DEF Contract!Write, jobs, states
  <2>. QED
    BY <2>3 DEF Contract!Next
<1>6. ASSUME NEW r \in Requests, SelectRow(r)
      PROVE  Contract!Next \/ UNCHANGED <<vault, jobs, states>>
  <2>1. CASE vault[request[r].name] = request[r].value
    <3>1. Becomes(r, "unchanged", request[r].value, TRUE) /\ vault' = vault
      BY <1>0, <1>6, <2>1, TookBecomes DEF SelectRow
    <3>2. vault' = [vault EXCEPT ![request[r].name] = request[r].value]
      BY <1>0, <2>1, <3>1 DEF TypeOK
    <3>. QED
      BY <1>5, <1>6, <3>1, <3>2 DEF SelectRow
  <2>2. CASE vault[request[r].name] # request[r].value
    <3>1. Becomes(r, "changing", request[r].value, request[r].applied) /\ vault' = vault
      BY <1>0, <1>6, <2>2, GotoBecomes DEF SelectRow
    <3>2. State(r)' = State(r) /\ Job(r)' = Job(r)
      BY <1>6, <3>1 DEF SelectRow, Becomes, State, Job, Open
    <3>. QED
      BY <3>1, <3>2, ShownChange DEF jobs, states
  <2>. QED
    BY <2>1, <2>2
<1>7. ASSUME NEW r \in Requests, UpdateRow(r)
      PROVE  Contract!Next \/ UNCHANGED <<vault, jobs, states>>
  <2>1. Becomes(r, "set", request[r].value, TRUE)
    BY <1>0, <1>7, TookBecomes DEF UpdateRow
  <2>2. CASE request[r].pc = "changing"
    BY <1>5, <1>7, <2>1, <2>2 DEF UpdateRow
  <2>3. CASE request[r].pc = "unchanged"
    <3>1. request[r].applied
      BY <1>0, <2>3 DEF HandlerInv, HandlerOK
    <3>2. State(r)' = State(r) /\ Job(r)' = Job(r) /\ vault' = vault
      BY <1>7, <2>1, <2>3, <3>1 DEF UpdateRow, Becomes, State, Job, Open
    <3>. QED
      BY <2>1, <3>2, ShownChange DEF jobs, states
  <2>. QED
    BY <1>7, <2>2, <2>3 DEF UpdateRow
<1>8. ASSUME NEW r \in Requests, InsertRow(r)
      PROVE  Contract!Next
  <2>1. CASE vault[request[r].name] = NoRow
    <3>1. Becomes(r, "set", request[r].value, TRUE)
      BY <1>0, <1>8, <2>1, TookBecomes DEF InsertRow
    <3>. QED
      BY <1>5, <1>8, <2>1, <3>1 DEF InsertRow
  <2>2. CASE vault[request[r].name] # NoRow
    <3>1. Becomes(r, "failed", request[r].value, request[r].applied)
      BY <1>0, <1>8, <2>2, GotoBecomes DEF InsertRow
    <3>. QED
      BY <1>4, <1>8, <2>2, <3>1 DEF InsertRow, Open
  <2>. QED
    BY <2>1, <2>2
<1>9. ASSUME NEW r \in Requests, AnswerUpsert(r) \/ LogRotate(r) \/ LogRead(r)
      PROVE  Contract!Next
  <2>1. /\ Becomes(r, "answered", request[r].value, request[r].applied)
        /\ vault' = vault /\ request[r].pc \in {"set", "found"}
    BY <1>0, <1>9, GotoBecomes DEF AnswerUpsert, LogRotate, LogRead
  <2>2. request[r].applied
    BY <1>0, <2>1 DEF HandlerInv, HandlerOK
  <2>3. State(r) = "applied" /\ State(r)' = "answered" /\ Job(r)' = Job(r)
    BY <2>1, <2>2 DEF Becomes, State, Job, Open
  <2>4. Contract!Answer(r)
    BY <2>1, <2>3, ShownChange DEF Contract!Answer, jobs, states
  <2>. QED
    BY <2>4 DEF Contract!Next
<1>10. ASSUME NEW r \in Requests, ReadSecret(r)
       PROVE  Contract!Next
  <2>. DEFINE v == vault[request[r].name]
  <2>1. CASE v = NoRow
    <3>1. Becomes(r, "failed", request[r].value, request[r].applied)
      BY <1>0, <1>10, <2>1, ReadBecomes
    <3>. QED
      BY <1>4, <1>10, <3>1 DEF ReadSecret, Open
  <2>2. CASE v # NoRow
    <3>1. Becomes(r, "found", v, TRUE)
      BY <1>0, <1>10, <2>2, ReadBecomes
    <3>2. ~request[r].applied /\ request[r].op = "read" /\ request[r].pc = "called"
      BY <1>0, <1>10 DEF ReadSecret, HandlerInv, HandlerOK
    <3>3. /\ State(r) = "open" /\ State(r)' = "applied" /\ Job(r).op = "read"
          /\ Job(r).name = request[r].name /\ Job(r)' = [Job(r) EXCEPT !.value = v]
      BY <3>1, <3>2 DEF Becomes, State, Job, Open
    <3>4. Contract!Read(r)
      BY <1>10, <2>2, <3>1, <3>3, ShownChange DEF ReadSecret, Contract!Read, jobs, states
    <3>. QED
      BY <3>4 DEF Contract!Next
  <2>. QED
    BY <2>1, <2>2
<1>11. ASSUME NEW r \in Requests, DbError(r)
       PROVE  Contract!Next
  <2>1. Becomes(r, "failed", request[r].value, request[r].applied)
    BY <1>0, <1>11, GotoBecomes DEF DbError
  <2>. QED
    BY <1>4, <1>11, <2>1 DEF DbError
<1>12. ASSUME NEW w \in Workers, Restart(w)
       PROVE  Contract!Next
  <2>. DEFINE R == {r \in Requests : Open(r) /\ request[r].worker = w}
  <2>1. \A q \in Requests : Job(q)' = Job(q)
    BY <1>0, <1>12 DEF Restart, Job, TypeOK, Request
  <2>2. \A q \in Requests : State(q)' = IF q \in R /\ State(q) \in {"open", "applied"}
                                          THEN "refused" ELSE State(q)
    <3>. SUFFICES ASSUME NEW q \in Requests
                  PROVE  State(q)' = IF q \in R /\ State(q) \in {"open", "applied"}
                                       THEN "refused" ELSE State(q)
      OBVIOUS
    <3>1. CASE q \in R
      <4>1. request'[q].pc = "lost"
        BY <1>0, <1>12, <3>1 DEF Restart, TypeOK, Request
      <4>2. State(q) \in {"open", "applied"}
        BY <3>1 DEF State, Open
      <4>. QED
        BY <3>1, <4>1, <4>2 DEF State, Open
    <3>2. CASE q \notin R
      <4>1. request'[q] = request[q]
        BY <1>12, <3>2 DEF Restart
      <4>. QED
        BY <3>2, <4>1 DEF State, Open
    <3>. QED
      BY <3>1, <3>2
  <2>3. Contract!Refuse(R)
    BY <1>12, <2>1, <2>2 DEF Restart, Contract!Refuse, jobs, states
  <2>. QED
    BY <2>3 DEF Contract!Next
<1>13. ASSUME NEW r \in Requests, HandlerStep(r)
       PROVE  Contract!Next \/ UNCHANGED <<vault, jobs, states>>
  BY <1>3, <1>6, <1>7, <1>8, <1>9, <1>10, <1>13 DEF HandlerStep
<1>14. ASSUME NEW r \in Requests, NEW w \in Workers, NEW n \in Names,
              \/ \E v \in Values : Call(r, w, "upsert", n, v)
              \/ Call(r, w, "rotate", n, r)
              \/ Call(r, w, "read", n, NoRow)
       PROVE  Contract!Next
  BY <1>2, <1>14
<1>. QED
  BY <1>1, <1>11, <1>12, <1>13, <1>14 DEF Next

\* Refinement: the vault implements its contract, whatever handlers race and
\* whatever worker dies.
THEOREM VaultImplementsContract == Spec => ImplementsContract
BY InductiveInvariant, ContractInit, ContractStep, PTL DEF Spec, ImplementsContract, Contract!Spec
=============================================================================
