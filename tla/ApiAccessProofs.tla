--------------------------- MODULE ApiAccessProofs ---------------------------
(***************************************************************************)
(* Proofs about the access control, for any finite set of requests, any    *)
(* workers, keys, limits and window, and any bounds on time and faults.    *)
(***************************************************************************)
EXTENDS ApiAccess, FiniteSetTheorems, TLAPS

USE AccessAssumption

\* What the limiters remember: nothing they did not let through, and all of it
\* that is still within the window.
LimiterInv ==
    \A l \in Limiters :
        /\ hits[l] \subseteq admitted[l]
        /\ \A q \in admitted[l] :
             /\ request[q].pc # "new" /\ request[q].at <= clock
             /\ clock - request[q].at < Window => q \in hits[l]

\* Where the handlers stand to the log: an entry is written once, by the commit
\* that ends the handler of a revocation or precedes the insertion of a key.
HandlerOK(r) ==
    /\ request[r].pc \in {"new", "counted", "stamped", "inside", "revoking", "broken"}
         => \A e \in log : e.request # r
    /\ request[r].op = "create" => request[r].target = NoKey
    /\ request[r].op = "revoke" => request[r].target \in Keys
    /\ request[r].pc = "revoking" => /\ request[r].op = "revoke"
                                     /\ key[request[r].target] # "absent"
    /\ request[r].pc = "logged" => /\ request[r].op = "create"
                                   /\ Entry(r, "api_key.create") \in log
                                   /\ Entry(r, "api_key.revoke") \notin log
HandlerInv == \A r \in Requests : HandlerOK(r)

\* The inductive invariant.
IInv == TypeOK /\ LimiterInv /\ HandlerInv
        /\ WindowBound /\ KeyChangesAreLogged /\ RevocationIsFinal

-----------------------------------------------------------------------------
(* The limiters. *)

\* The requests that came stay what they are, whatever becomes of them.
Steady ==
    \A q \in Requests : request[q].pc # "new" =>
        /\ request'[q].pc # "new"
        /\ request'[q].key = request[q].key /\ request'[q].at = request[q].at

\* A set of requests that is contained in another one is not larger.
LEMMA Smaller ==
    ASSUME NEW S, NEW T, S \subseteq T, T \subseteq Requests, NEW n \in Nat, Cardinality(T) <= n
    PROVE  Cardinality(S) <= n
<1>1. IsFiniteSet(T)
  BY FS_Subset
<1>2. IsFiniteSet(S) /\ Cardinality(S) <= Cardinality(T)
  BY <1>1, FS_Subset
<1>. QED
  BY <1>1, <1>2, FS_CardinalityType

\* No window grows while no limiter lets a request through.
LEMMA WindowShrinks ==
    ASSUME TypeOK, LimiterInv, WindowBound, Steady, clock' = clock,
           \A l \in Limiters : admitted'[l] \subseteq admitted[l]
    PROVE  WindowBound'
<1>. SUFFICES ASSUME NEW l \in Limiters, NEW k \in Keys, NEW t \in 0..MaxClock, t <= clock
              PROVE  Cardinality(InWindow(l, k, t)') <= Limit[k]
  BY DEF WindowBound
<1>1. InWindow(l, k, t)' \subseteq InWindow(l, k, t)
  BY DEF InWindow, Steady, LimiterInv, TypeOK
<1>2. InWindow(l, k, t) \subseteq Requests
  BY DEF InWindow, TypeOK
<1>3. Cardinality(InWindow(l, k, t)) <= Limit[k]
  BY DEF WindowBound
<1>. QED
  BY <1>1, <1>2, <1>3, Smaller

\* The limiters stay sound while they forget nothing but what has left the window.
LEMMA LimitersForget ==
    ASSUME TypeOK, LimiterInv, Steady, clock' = clock,
           \A l \in Limiters :
             /\ admitted'[l] \subseteq admitted[l]
             /\ hits'[l] \subseteq admitted'[l]
             /\ \A q \in admitted'[l] :
                  q \in hits[l] /\ clock - request[q].at < Window => q \in hits'[l]
    PROVE  LimiterInv'
<1>. SUFFICES ASSUME NEW l \in Limiters, NEW q \in admitted'[l]
              PROVE  /\ request'[q].pc # "new" /\ request'[q].at <= clock
                     /\ clock - request'[q].at < Window => q \in hits'[l]
  BY DEF LimiterInv
<1>1. q \in admitted[l] /\ q \in Requests
  BY DEF TypeOK
<1>2. /\ request[q].pc # "new" /\ request[q].at <= clock
      /\ clock - request[q].at < Window => q \in hits[l]
  BY <1>1 DEF LimiterInv
<1>. QED
  BY <1>1, <1>2 DEF Steady

\* Time: the window that ends now loses requests as the clock moves on.
LEMMA TickWindow ==
    ASSUME IInv, Tick
    PROVE  LimiterInv' /\ WindowBound'
<1>0. /\ clock \in Nat /\ clock' = clock + 1 /\ Window \in Nat
      /\ request' = request /\ hits' = hits /\ admitted' = admitted
  BY DEF Tick, limits, IInv, TypeOK
<1>1. \A l \in Limiters : \A q \in admitted[l] :
         /\ q \in Requests /\ request[q].at \in Nat
         /\ request[q].pc # "new" /\ request[q].at <= clock
         /\ clock - request[q].at < Window => q \in hits[l]
  BY DEF IInv, TypeOK, LimiterInv, Request
<1>2. LimiterInv'
  BY <1>0, <1>1 DEF LimiterInv, IInv
<1>3. WindowBound'
  <2>. SUFFICES ASSUME NEW l \in Limiters, NEW k \in Keys, NEW t \in 0..MaxClock, t <= clock + 1
                PROVE  Cardinality(InWindow(l, k, t)') <= Limit[k]
    BY <1>0 DEF WindowBound
  <2>. DEFINE u == IF t <= clock THEN t ELSE clock
  <2>1. u \in 0..MaxClock /\ u <= clock
    BY <1>0 DEF IInv, TypeOK
  <2>2. InWindow(l, k, t)' \subseteq InWindow(l, k, u)
    BY <1>0, <1>1 DEF InWindow
  <2>3. InWindow(l, k, u) \subseteq Requests
    BY <1>1 DEF InWindow
  <2>4. Cardinality(InWindow(l, k, u)) <= Limit[k]
    BY <2>1 DEF IInv, WindowBound
  <2>. HIDE DEF u
  <2>. QED
    BY <2>2, <2>3, <2>4, Smaller
<1>. QED
  BY <1>2, <1>3

\* What Admit makes of the state.
LEMMA AdmitEffect ==
    ASSUME TypeOK, NEW r \in Requests, NEW w \in Workers, NEW k \in Keys, NEW op \in Ops,
           NEW target \in Keys \cup {NoKey}, Admit(r, w, op, k, target)
    PROVE  /\ request' \in [Requests -> Request]
           /\ \A q \in Requests \ {r} : request'[q] = request[q]
           /\ request'[r].pc = "counted" /\ request'[r].op = op /\ request'[r].key = k
           /\ request'[r].target = target /\ request'[r].at = clock
           /\ request[r].pc = "new"
<1>. DEFINE new == [pc |-> "counted", op |-> op, key |-> k, target |-> target,
                    at |-> clock, worker |-> w]
<1>1. new \in Request
  BY DEF Request, OpenPC, TypeOK
<1>2. /\ new.pc = "counted" /\ new.op = op /\ new.key = k /\ new.target = target
      /\ new.at = clock
  OBVIOUS
<1>3. request' = [request EXCEPT ![r] = new]
  BY DEF Admit
<1>4. request[r].pc = "new"
  BY DEF Admit, AsksLimiter, Comes
<1>. HIDE DEF new
<1>. QED
  BY <1>1, <1>2, <1>3, <1>4 DEF TypeOK

\* The limiter asked lets one more request through only if its window has room.
LEMMA AdmitWindow ==
    ASSUME IInv, NEW r \in Requests, NEW w \in Workers, NEW k \in Keys, NEW op \in Ops,
           NEW target \in Keys \cup {NoKey}, Admit(r, w, op, k, target)
    PROVE  LimiterInv' /\ WindowBound'
<1>. DEFINE l == <<w, CopyOf(op)>>
<1>0. /\ l \in Limiters /\ TypeOK /\ clock \in Nat /\ clock' = clock
      /\ Cardinality(Recent(l, k)) < Limit[k]
      /\ hits' = [hits EXCEPT ![l] = Pruned(l, k) \cup {r}]
      /\ admitted' = [admitted EXCEPT ![l] = @ \cup {r}]
  BY DEF IInv, TypeOK, Admit, world, Limiters, Copies, CopyOf
<1>. HIDE DEF l
<1>1. /\ \A q \in Requests \ {r} : request'[q] = request[q]
      /\ request'[r].pc = "counted" /\ request'[r].key = k /\ request'[r].at = clock
      /\ request[r].pc = "new"
  BY <1>0, AdmitEffect
<1>2. \A m \in Limiters :
         /\ admitted'[m] = IF m = l THEN admitted[m] \cup {r} ELSE admitted[m]
         /\ hits'[m] = IF m = l THEN Pruned(l, k) \cup {r} ELSE hits[m]
  BY <1>0 DEF TypeOK
<1>3. \A m \in Limiters : hits[m] \subseteq admitted[m] /\ \A q \in admitted[m] :
         /\ q \in Requests \ {r} /\ request[q].at \in Nat
         /\ request[q].pc # "new" /\ request[q].at <= clock
         /\ clock - request[q].at < Window => q \in hits[m]
  BY <1>1 DEF IInv, TypeOK, LimiterInv, Request
<1>4. LimiterInv'
  <2>. SUFFICES ASSUME NEW m \in Limiters
                PROVE  /\ hits'[m] \subseteq admitted'[m]
                       /\ \A q \in admitted'[m] :
                            /\ request'[q].pc # "new" /\ request'[q].at <= clock
                            /\ clock - request'[q].at < Window => q \in hits'[m]
    BY <1>0 DEF LimiterInv
  <2>1. hits'[m] \subseteq admitted'[m]
    BY <1>2, <1>3 DEF Pruned, Recent
  <2>2. ASSUME NEW q \in admitted[m]
        PROVE  /\ request'[q].pc # "new" /\ request'[q].at <= clock
               /\ clock - request'[q].at < Window => q \in hits'[m]
    <3>1. request'[q] = request[q]
      BY <1>1, <1>3, <2>2
    <3>2. clock - request[q].at < Window => q \in hits'[m]
      BY <1>2, <1>3, <2>2 DEF Pruned, Recent
    <3>. QED
      BY <1>3, <2>2, <3>1, <3>2
  <2>3. m = l => r \in hits'[m]
    BY <1>2
  <2>. QED
    BY <1>0, <1>1, <1>2, <2>1, <2>2, <2>3
<1>5. WindowBound'
  <2>. SUFFICES ASSUME NEW m \in Limiters, NEW j \in Keys, NEW t \in 0..MaxClock, t <= clock
                PROVE  Cardinality(InWindow(m, j, t)') <= Limit[j]
    BY <1>0 DEF WindowBound
  <2>1. InWindow(m, j, t) \subseteq Requests /\ Cardinality(InWindow(m, j, t)) <= Limit[j]
    BY <1>3 DEF IInv, WindowBound, InWindow
  <2>2. CASE ~(m = l /\ j = k /\ t = clock)
    <3>1. InWindow(m, j, t)' \subseteq InWindow(m, j, t)
      BY <1>0, <1>1, <1>2, <1>3, <2>2 DEF InWindow
    <3>. QED
      BY <2>1, <3>1, Smaller
  <2>3. CASE m = l /\ j = k /\ t = clock
    <3>1. InWindow(m, j, t)' \subseteq Recent(l, k) \cup {r}
      BY <1>0, <1>1, <1>2, <1>3, <2>3 DEF InWindow, Recent
    <3>2. Recent(l, k) \subseteq Requests
      BY <1>0 DEF Recent, TypeOK
    <3>3. IsFiniteSet(Recent(l, k)) /\ Cardinality(Recent(l, k)) \in Nat
      BY <3>2, FS_Subset, FS_CardinalityType
    <3>4. Cardinality(Recent(l, k) \cup {r})
            = IF r \in Recent(l, k) THEN Cardinality(Recent(l, k))
                                    ELSE Cardinality(Recent(l, k)) + 1
      BY <3>3, FS_AddElement
    <3>5. Limit[k] \in Nat /\ Cardinality(Recent(l, k) \cup {r}) \in Nat
      BY <3>3, FS_AddElement, FS_CardinalityType
    <3>6. Cardinality(Recent(l, k) \cup {r}) <= Limit[k]
      BY <1>0, <3>3, <3>4, <3>5
    <3>7. Recent(l, k) \cup {r} \subseteq Requests
      BY <3>2
    <3>. QED
      BY <2>3, <3>1, <3>5, <3>6, <3>7, Smaller
  <2>. QED
    BY <2>2, <2>3
<1>. QED
  BY <1>4, <1>5
-----------------------------------------------------------------------------
(* The handlers. *)

\* Request r goes to pc, with op and target; the others stay as they are.
Writes(r, pc, op, target) ==
    /\ request' \in [Requests -> Request]
    /\ \A q \in Requests \ {r} : request'[q] = request[q]
    /\ request'[r].pc = pc /\ request'[r].op = op /\ request'[r].target = target
    /\ request'[r].key = request[r].key /\ request'[r].at = request[r].at

\* Goto changes the position only.
LEMMA GotoWrites ==
    ASSUME TypeOK, NEW r \in Requests, NEW pc \in OpenPC \cup EndPC, Goto(r, pc)
    PROVE  Writes(r, pc, request[r].op, request[r].target)
<1>. DEFINE new == [request[r] EXCEPT !.pc = pc]
<1>0. request[r] \in Request
  BY DEF TypeOK
<1>1. /\ new \in Request /\ new.pc = pc /\ new.op = request[r].op
      /\ new.target = request[r].target /\ new.key = request[r].key /\ new.at = request[r].at
  BY <1>0 DEF Request
<1>2. request' = [request EXCEPT ![r] = new]
  BY DEF Goto, TypeOK
<1>. HIDE DEF new
<1>. QED
  BY <1>1, <1>2 DEF Writes, TypeOK

\* A request that ends keeps its key, its time and its target.
LEMMA EndedKeeps ==
    ASSUME NEW q \in Request, NEW pc \in EndPC
    PROVE  /\ Ended(q, pc) \in Request
           /\ Ended(q, pc).pc = pc /\ Ended(q, pc).op = "none"
           /\ Ended(q, pc).target = q.target /\ Ended(q, pc).key = q.key
           /\ Ended(q, pc).at = q.at
BY DEF Ended, Request

\* Finish ends it.
LEMMA FinishWrites ==
    ASSUME TypeOK, NEW r \in Requests, NEW pc \in EndPC, Finish(r, pc)
    PROVE  Writes(r, pc, "none", request[r].target)
<1>1. request[r] \in Request
  BY DEF TypeOK
<1>2. request' = [request EXCEPT ![r] = Ended(request[r], pc)]
  BY DEF Finish, TypeOK
<1>. QED
  BY <1>1, <1>2, EndedKeeps DEF Writes, TypeOK

\* InsertKey ends it with the new key as its target.
LEMMA InsertWrites ==
    ASSUME TypeOK, NEW r \in Requests, NEW k \in Keys, InsertKey(r, k)
    PROVE  Writes(r, "served", "none", k)
<1>. DEFINE q == [request[r] EXCEPT !.target = k]
<1>1. q \in Request /\ q.target = k /\ q.key = request[r].key /\ q.at = request[r].at
  BY DEF TypeOK, Request
<1>2. request' = [request EXCEPT ![r] = Ended(q, "served")]
  BY DEF InsertKey, TypeOK
<1>3. "served" \in EndPC
  BY DEF EndPC
<1>. HIDE DEF q
<1>. QED
  BY <1>1, <1>2, <1>3, EndedKeeps DEF Writes, TypeOK

\* The states of a request that are not the first.
LEMMA Positions ==
    /\ \A pc \in OpenPC \cup EndPC : pc # "new"
    /\ "none" \notin Ops
BY DEF OpenPC, EndPC, Ops, UserOps, AdminOps

\* A step that writes one request and no limiter keeps the limiters.
LEMMA WritesKeepsLimits ==
    ASSUME TypeOK, LimiterInv, WindowBound, NEW r \in Requests, NEW pc \in OpenPC \cup EndPC,
           NEW op, NEW target, Writes(r, pc, op, target), UNCHANGED <<hits, admitted, clock>>
    PROVE  LimiterInv' /\ WindowBound'
<1>1. Steady
  BY Positions DEF Writes, Steady
<1>2. /\ \A l \in Limiters : admitted'[l] \subseteq admitted[l]
      /\ clock' = clock
  OBVIOUS
<1>3. WindowBound'
  BY <1>1, <1>2, WindowShrinks
<1>4. \A l \in Limiters :
        /\ admitted'[l] \subseteq admitted[l]
        /\ hits'[l] \subseteq admitted'[l]
        /\ \A q \in admitted'[l] :
             q \in hits[l] /\ clock - request[q].at < Window => q \in hits'[l]
  BY DEF LimiterInv
<1>5. LimiterInv'
  BY <1>1, <1>2, <1>4, LimitersForget
<1>. QED
  BY <1>3, <1>5

-----------------------------------------------------------------------------
(* The keys and their log. *)

\* The log part of the invariant.
KeyInv == HandlerInv /\ KeyChangesAreLogged /\ RevocationIsFinal

\* A step that writes neither a key nor an entry keeps it, if the request it
\* writes is where it should be and keeps its target or has no entry.
LEMMA QuietStep ==
    ASSUME TypeOK, KeyInv, NEW r \in Requests, UNCHANGED <<key, log>>,
           \A q \in Requests \ {r} : request'[q] = request[q],
           request'[r].target = request[r].target \/ \A e \in log : e.request # r,
           HandlerOK(r)'
    PROVE  KeyInv'
<1>1. HandlerInv'
  BY DEF KeyInv, HandlerInv, HandlerOK
<1>2. \A q \in Requests, a \in {"api_key.create", "api_key.revoke"} :
        Entry(q, a) \in log => request'[q].target = request[q].target
  BY DEF Entry
<1>3. \A k \in Keys : Created(k)' = Created(k) /\ Revoked(k)' = Revoked(k)
  BY <1>2 DEF Created, Revoked, Entry
<1>4. KeyChangesAreLogged' /\ RevocationIsFinal'
  BY <1>3 DEF KeyInv, KeyChangesAreLogged, RevocationIsFinal
<1>. QED
  BY <1>1, <1>4 DEF KeyInv

\* The commit of a revocation writes the flag and the entry at once.
LEMMA RevokeKeepsKeys ==
    ASSUME TypeOK, KeyInv, NEW r \in Requests, RevokeCommit(r)
    PROVE  KeyInv'
<1>. DEFINE t == request[r].target
<1>1. Writes(r, "served", "none", t)
  BY FinishWrites DEF RevokeCommit, EndPC
<1>2. /\ t \in Keys /\ \A e \in log : e.request # r
      /\ key' = [key EXCEPT ![t] = "revoked"] /\ log' = log \cup {Entry(r, "api_key.revoke")}
  BY DEF RevokeCommit, KeyInv, HandlerInv, HandlerOK
<1>. HIDE DEF t
<1>3. \A q \in Requests : request'[q].target = request[q].target
  BY <1>1 DEF Writes, t
<1>4. HandlerInv'
  <2>. SUFFICES ASSUME NEW q \in Requests PROVE HandlerOK(q)'
    BY DEF HandlerInv
  <2>0. \A k \in Keys : key[k] # "absent" => key'[k] # "absent"
    BY <1>2 DEF TypeOK
  <2>1. CASE q = r
    BY <1>1, <2>1 DEF Writes, HandlerOK
  <2>2. CASE q # r
    <3>1. request'[q] = request[q] /\ HandlerOK(q)
      BY <1>1, <2>2 DEF Writes, KeyInv, HandlerInv
    <3>2. \A a \in {"api_key.create", "api_key.revoke"} :
            Entry(q, a) \in log' <=> Entry(q, a) \in log
      BY <1>2, <2>2 DEF Entry
    <3>3. (\A e \in log : e.request # q) => \A e \in log' : e.request # q
      BY <1>2, <2>2 DEF Entry
    <3>. QED
      BY <2>0, <3>1, <3>2, <3>3 DEF HandlerOK
  <2>. QED
    BY <2>1, <2>2
<1>5. \A k \in Keys : (Created(k) => Created(k)') /\ (Revoked(k)' <=> (Revoked(k) \/ k = t))
  <2>. TAKE k \in Keys
  <2>1. Created(k) => Created(k)'
    BY <1>2, <1>3 DEF Created
  <2>2. \A q \in Requests : Entry(q, "api_key.revoke") \in log'
                              <=> (Entry(q, "api_key.revoke") \in log \/ q = r)
    BY <1>2 DEF Entry
  <2>3. Revoked(k)' <=> (Revoked(k) \/ k = t)
    BY <1>3, <2>2 DEF Revoked, t
  <2>. QED
    BY <2>1, <2>3
<1>6. \A k \in Keys : key'[k] = IF k = t THEN "revoked" ELSE key[k]
  BY <1>2 DEF TypeOK
<1>7. key[t] # "absent"
  BY DEF RevokeCommit, KeyInv, HandlerInv, HandlerOK, t
<1>. QED
  BY <1>4, <1>5, <1>6, <1>7 DEF KeyInv, KeyChangesAreLogged, RevocationIsFinal

\* A key is inserted by the request whose entry is there, and under a name no
\* revocation has on record.
LEMMA InsertKeepsKeys ==
    ASSUME TypeOK, KeyInv, NEW r \in Requests, NEW k \in Keys, InsertKey(r, k)
    PROVE  KeyInv'
<1>1. Writes(r, "served", "none", k)
  BY InsertWrites
<1>2. /\ key[k] = "absent" /\ key' = [key EXCEPT ![k] = "active"] /\ log' = log
      /\ Entry(r, "api_key.create") \in log /\ Entry(r, "api_key.revoke") \notin log
      /\ request[r].target = NoKey
  BY DEF InsertKey, KeyInv, HandlerInv, HandlerOK
<1>3. \A j \in Keys : key'[j] = IF j = k THEN "active" ELSE key[j]
  BY <1>2 DEF TypeOK
<1>4. HandlerInv'
  <2>. SUFFICES ASSUME NEW q \in Requests PROVE HandlerOK(q)'
    BY DEF HandlerInv
  <2>1. CASE q = r
    BY <1>1, <2>1 DEF Writes, HandlerOK
  <2>2. CASE q # r
    <3>1. request'[q] = request[q] /\ HandlerOK(q)
      BY <1>1, <2>2 DEF Writes, KeyInv, HandlerInv
    <3>. QED
      BY <1>2, <1>3, <3>1 DEF HandlerOK
  <2>. QED
    BY <2>1, <2>2
<1>5. \A j \in Keys : (Created(j)' <=> (Created(j) \/ j = k)) /\ (Revoked(j)' <=> Revoked(j))
  BY <1>1, <1>2 DEF Writes, Created, Revoked, Entry
<1>. QED
  BY <1>2, <1>3, <1>4, <1>5 DEF KeyInv, KeyChangesAreLogged, RevocationIsFinal

\* The entry of a creation comes before its key.
LEMMA LogKeepsKeys ==
    ASSUME TypeOK, KeyInv, NEW r \in Requests, LogCreate(r)
    PROVE  KeyInv'
<1>1. Writes(r, "logged", request[r].op, request[r].target)
  BY GotoWrites DEF LogCreate, OpenPC
<1>2. /\ key' = key /\ log' = log \cup {Entry(r, "api_key.create")}
      /\ request[r].op = "create" /\ request[r].target = NoKey
      /\ \A e \in log : e.request # r
  BY DEF LogCreate, KeyInv, HandlerInv, HandlerOK
<1>3. \A q \in Requests : request'[q].target = request[q].target
  BY <1>1 DEF Writes
<1>4. HandlerInv'
  <2>. SUFFICES ASSUME NEW q \in Requests PROVE HandlerOK(q)'
    BY DEF HandlerInv
  <2>1. CASE q = r
    <3>1. Entry(r, "api_key.create") \in log' /\ Entry(r, "api_key.revoke") \notin log'
      BY <1>2 DEF Entry
    <3>. QED
      BY <1>1, <1>2, <2>1, <3>1 DEF Writes, HandlerOK
  <2>2. CASE q # r
    <3>1. request'[q] = request[q] /\ HandlerOK(q)
      BY <1>1, <2>2 DEF Writes, KeyInv, HandlerInv
    <3>2. \A a \in {"api_key.create", "api_key.revoke"} :
            Entry(q, a) \in log' <=> Entry(q, a) \in log
      BY <1>2, <2>2 DEF Entry
    <3>3. (\A e \in log : e.request # q) => \A e \in log' : e.request # q
      BY <1>2, <2>2 DEF Entry
    <3>. QED
      BY <1>2, <3>1, <3>2, <3>3 DEF HandlerOK
  <2>. QED
    BY <2>1, <2>2
<1>5. \A k \in Keys : (Created(k) => Created(k)') /\ (Revoked(k)' <=> Revoked(k))
  <2>1. \A q \in Requests : Entry(q, "api_key.revoke") \in log' <=> Entry(q, "api_key.revoke") \in log
    BY <1>2 DEF Entry
  <2>. QED
    BY <1>2, <1>3, <2>1 DEF Created, Revoked
<1>. QED
  BY <1>2, <1>4, <1>5 DEF KeyInv, KeyChangesAreLogged, RevocationIsFinal

-----------------------------------------------------------------------------
(* Initial states. *)

\* The invariant holds at the start: no request, no entry, empty limiters.
LEMMA InitIInv == Init => IInv
<1>. SUFFICES ASSUME Init PROVE IInv
  OBVIOUS
<1>1. TypeOK
  BY DEF Init, TypeOK, KeyState, NewRequest, Request
<1>2. LimiterInv
  BY DEF Init, LimiterInv
<1>3. HandlerInv
  BY DEF Init, HandlerInv, HandlerOK, NewRequest
<1>4. WindowBound
  <2>. SUFFICES ASSUME NEW l \in Limiters, NEW k \in Keys, NEW t \in 0..MaxClock
                PROVE  Cardinality(InWindow(l, k, t)) <= Limit[k]
    BY DEF WindowBound
  <2>1. InWindow(l, k, t) = {}
    BY DEF Init, InWindow
  <2>. QED
    BY <2>1, FS_EmptySet
<1>5. KeyChangesAreLogged /\ RevocationIsFinal
  BY DEF Init, KeyChangesAreLogged, RevocationIsFinal, Revoked, Entry
<1>. QED
  BY <1>1, <1>2, <1>3, <1>4, <1>5 DEF IInv

\* What the parts of the invariant amount to after a step.
LEMMA Together ==
    ASSUME TypeOK', LimiterInv', WindowBound', KeyInv'
    PROVE  IInv'
BY DEF IInv, KeyInv

-----------------------------------------------------------------------------
(* A handler's step. *)

\* A step that writes one request of its own keeps the types.
LEMMA WritesKeepsType ==
    ASSUME TypeOK, NEW r \in Requests, NEW pc, NEW op, NEW target, Writes(r, pc, op, target),
           UNCHANGED <<hits, admitted, clock, restarts>>, dbErrors' \in 0..MaxDbErrors,
           key' \in [Keys -> KeyState],
           log' \subseteq [request: Requests, action: {"api_key.create", "api_key.revoke"}]
    PROVE  TypeOK'
BY DEF TypeOK, Writes

\* A step that moves one request and writes neither key nor entry keeps it all:
\* where it goes has nothing to say of the log unless it is one of two places.
LEMMA MoveKeeps ==
    ASSUME IInv, NEW r \in Requests, NEW pc \in (OpenPC \cup EndPC) \ {"logged"}, NEW op,
           op = request[r].op \/ op = "none",
           pc = "revoking" => /\ request[r].op = "revoke" /\ op = "revoke"
                              /\ key[request[r].target] # "absent",
           pc \in OpenPC => request[r].pc \in OpenPC \ {"logged"},
           Writes(r, pc, op, request[r].target),
           UNCHANGED <<key, log, hits, admitted, clock, restarts>>, dbErrors' \in 0..MaxDbErrors
    PROVE  IInv'
<1>1. TypeOK'
  <2>1. TypeOK
    BY DEF IInv
  <2>. QED
    BY <2>1, WritesKeepsType DEF TypeOK
<1>2. LimiterInv' /\ WindowBound'
  BY WritesKeepsLimits DEF IInv
<1>3. HandlerOK(r)'
  <2>1. HandlerOK(r)
    BY DEF IInv, HandlerInv
  <2>2. /\ request'[r].pc = pc /\ request'[r].op = op /\ request'[r].target = request[r].target
        /\ key' = key /\ log' = log
    BY DEF Writes
  <2>3. pc \in OpenPC => \A e \in log : e.request # r
    BY <2>1 DEF HandlerOK, OpenPC
  <2>4. pc \in {"new", "counted", "stamped", "inside", "revoking", "broken"} => pc \in OpenPC
    BY Positions DEF OpenPC
  <2>. QED
    BY <2>1, <2>2, <2>3, <2>4 DEF HandlerOK
<1>4. KeyInv'
  <2>1. TypeOK /\ KeyInv
    BY DEF IInv, KeyInv
  <2>. QED
    BY <1>3, <2>1, QuietStep DEF Writes
<1>. QED
  BY <1>1, <1>2, <1>4, Together

\* The steps of the dependencies and of the key handlers.
LEMMA HandlerKeeps ==
    ASSUME IInv, NEW r \in Requests, HandlerStep(r)
    PROVE  IInv'
<1>0. TypeOK /\ KeyInv /\ LimiterInv /\ WindowBound
  BY DEF IInv, KeyInv
<1>. USE DEF limits, world
<1>1. CASE Stamp(r)
  <2>1. CASE request[r].op \in UserOps
    <3>1. Writes(r, "served", "none", request[r].target)
      BY <1>0, <1>1, <2>1, FinishWrites DEF Stamp, EndPC
    <3>. QED
      BY <1>0, <1>1, <3>1, MoveKeeps DEF Stamp, EndPC, OpenPC, TypeOK
  <2>2. CASE request[r].op \notin UserOps
    <3>1. Writes(r, "stamped", request[r].op, request[r].target)
      BY <1>0, <1>1, <2>2, GotoWrites DEF Stamp, OpenPC
    <3>. QED
      BY <1>0, <1>1, <3>1, MoveKeeps DEF Stamp, EndPC, OpenPC, TypeOK
  <2>. QED
    BY <2>1, <2>2
<1>2. CASE EnterAdmin(r)
  <2>1. CASE request[r].op = "scheduler"
    <3>1. Writes(r, "served", "none", request[r].target)
      BY <1>0, <1>2, <2>1, FinishWrites DEF EnterAdmin, EndPC
    <3>. QED
      BY <1>0, <1>2, <3>1, MoveKeeps DEF EnterAdmin, EndPC, OpenPC, TypeOK
  <2>2. CASE request[r].op # "scheduler"
    <3>1. Writes(r, "inside", request[r].op, request[r].target)
      BY <1>0, <1>2, <2>2, GotoWrites DEF EnterAdmin, OpenPC
    <3>. QED
      BY <1>0, <1>2, <3>1, MoveKeeps DEF EnterAdmin, EndPC, OpenPC, TypeOK
  <2>. QED
    BY <2>1, <2>2
<1>3. CASE KeepOut(r)
  <2>1. ASSUME NEW pc \in {"failed", "refused"}, Finish(r, pc)
        PROVE  IInv'
    <3>1. pc \in EndPC
      BY DEF EndPC
    <3>2. Writes(r, pc, "none", request[r].target)
      BY <1>0, <2>1, <3>1, FinishWrites
    <3>. QED
      BY <1>0, <1>3, <3>2, MoveKeeps DEF KeepOut, EndPC, OpenPC, TypeOK
  <2>. QED
    BY <1>3, <2>1 DEF KeepOut
<1>4. CASE LogCreate(r)
  <2>1. Writes(r, "logged", request[r].op, request[r].target)
    BY <1>0, <1>4, GotoWrites DEF LogCreate, OpenPC
  <2>2. log' \subseteq [request: Requests, action: {"api_key.create", "api_key.revoke"}]
    BY <1>0, <1>4 DEF LogCreate, Entry, TypeOK
  <2>3. TypeOK'
    BY <1>0, <1>4, <2>1, <2>2, WritesKeepsType DEF LogCreate, TypeOK
  <2>4. LimiterInv' /\ WindowBound'
    BY <1>0, <1>4, <2>1, WritesKeepsLimits DEF LogCreate, OpenPC
  <2>5. KeyInv'
    BY <1>0, <1>4, LogKeepsKeys
  <2>. QED
    BY <2>3, <2>4, <2>5, Together
<1>5. ASSUME NEW k \in Keys, InsertKey(r, k)
      PROVE  IInv'
  <2>1. Writes(r, "served", "none", k)
    BY <1>0, <1>5, InsertWrites
  <2>2. key' \in [Keys -> KeyState]
    BY <1>0, <1>5 DEF InsertKey, KeyState, TypeOK
  <2>3. TypeOK'
    BY <1>0, <1>5, <2>1, <2>2, WritesKeepsType DEF InsertKey, TypeOK
  <2>4. LimiterInv' /\ WindowBound'
    BY <1>0, <1>5, <2>1, WritesKeepsLimits DEF InsertKey, EndPC
  <2>5. KeyInv'
    BY <1>0, <1>5, InsertKeepsKeys
  <2>. QED
    BY <2>3, <2>4, <2>5, Together
<1>6. CASE FindKey(r)
  <2>1. CASE key[request[r].target] = "absent"
    <3>1. Writes(r, "refused", "none", request[r].target)
      BY <1>0, <1>6, <2>1, FinishWrites DEF FindKey, EndPC
    <3>. QED
      BY <1>0, <1>6, <3>1, MoveKeeps DEF FindKey, EndPC, OpenPC, TypeOK
  <2>2. CASE key[request[r].target] # "absent"
    <3>1. Writes(r, "revoking", request[r].op, request[r].target)
      BY <1>0, <1>6, <2>2, GotoWrites DEF FindKey, OpenPC
    <3>. QED
      BY <1>0, <1>6, <2>2, <3>1, MoveKeeps DEF FindKey, EndPC, OpenPC, TypeOK
  <2>. QED
    BY <2>1, <2>2
<1>7. CASE RevokeCommit(r)
  <2>1. Writes(r, "served", "none", request[r].target)
    BY <1>0, <1>7, FinishWrites DEF RevokeCommit, EndPC
  <2>2. log' \subseteq [request: Requests, action: {"api_key.create", "api_key.revoke"}]
    BY <1>0, <1>7 DEF RevokeCommit, Entry, TypeOK
  <2>3. key' \in [Keys -> KeyState]
    BY <1>0, <1>7 DEF RevokeCommit, KeyState, TypeOK
  <2>4. TypeOK'
    BY <1>0, <1>7, <2>1, <2>2, <2>3, WritesKeepsType DEF RevokeCommit, TypeOK
  <2>5. LimiterInv' /\ WindowBound'
    BY <1>0, <1>7, <2>1, WritesKeepsLimits DEF RevokeCommit, EndPC
  <2>6. KeyInv'
    BY <1>0, <1>7, RevokeKeepsKeys
  <2>. QED
    BY <2>4, <2>5, <2>6, Together
<1>8. CASE FinishBroken(r)
  <2>1. Writes(r, "failed", "none", request[r].target)
    BY <1>0, <1>8, FinishWrites DEF FinishBroken, EndPC
  <2>. QED
    BY <1>0, <1>8, <2>1, MoveKeeps DEF FinishBroken, EndPC, OpenPC, TypeOK
<1>. QED
  BY <1>1, <1>2, <1>3, <1>4, <1>5, <1>6, <1>7, <1>8 DEF HandlerStep

\* A statement that raises moves the handler and writes nothing.
LEMMA DbErrorKeeps ==
    ASSUME IInv, NEW r \in Requests, DbError(r)
    PROVE  IInv'
<1>0. TypeOK /\ request[r].pc \in OpenPC \ {"broken"} /\ dbErrors' \in 0..MaxDbErrors
  BY DEF IInv, TypeOK, DbError
<1>1. CASE LogsNow(r)
  <2>1. Writes(r, "broken", request[r].op, request[r].target)
    BY <1>0, <1>1, GotoWrites DEF DbError, OpenPC
  <2>2. request[r].pc # "logged"
    BY <1>1 DEF LogsNow
  <2>. QED
    BY <1>0, <2>1, <2>2, MoveKeeps DEF DbError, limits, OpenPC
<1>2. CASE ~LogsNow(r)
  <2>1. Writes(r, "failed", "none", request[r].target)
    BY <1>0, <1>2, FinishWrites DEF DbError, EndPC
  <2>. QED
    BY <1>0, <2>1, MoveKeeps DEF DbError, limits, EndPC, OpenPC
<1>. QED
  BY <1>1, <1>2

-----------------------------------------------------------------------------
(* Arrivals, restarts and time. *)

\* A request that comes writes neither key nor entry.
LEMMA ArriveKeepsKeys ==
    ASSUME TypeOK, KeyInv, NEW r \in Requests, request[r].pc = "new", UNCHANGED <<key, log>>,
           \A q \in Requests \ {r} : request'[q] = request[q],
           request'[r].pc \in {"counted", "refused", "failed"},
           request'[r].op = "create" => request'[r].target = NoKey,
           request'[r].op = "revoke" => request'[r].target \in Keys
    PROVE  KeyInv'
<1>1. \A e \in log : e.request # r
  BY DEF KeyInv, HandlerInv, HandlerOK
<1>2. HandlerOK(r)'
  BY <1>1 DEF HandlerOK
<1>. QED
  BY <1>1, <1>2, QuietStep

\* A request that is turned away leaves the limiters no larger than they were.
LEMMA TurnedAway ==
    ASSUME IInv, NEW r \in Requests, NEW new \in Request, request[r].pc = "new",
           new.pc \in {"refused", "failed"},
           new.op = "create" => new.target = NoKey, new.op = "revoke" => new.target \in Keys,
           request' = [request EXCEPT ![r] = new],
           UNCHANGED <<key, log, admitted, clock, restarts, dbErrors>>,
           hits' \in [Limiters -> SUBSET Requests],
           \A l \in Limiters :
             /\ hits'[l] \subseteq hits[l]
             /\ \A q \in hits[l] : clock - request[q].at < Window => q \in hits'[l]
    PROVE  IInv'
<1>0. TypeOK /\ KeyInv /\ LimiterInv /\ WindowBound
  BY DEF IInv, KeyInv
<1>1. /\ request' \in [Requests -> Request] /\ request'[r] = new
      /\ \A q \in Requests \ {r} : request'[q] = request[q]
  BY <1>0 DEF TypeOK
<1>2. TypeOK'
  BY <1>0, <1>1 DEF TypeOK
<1>3. Steady
  BY <1>1 DEF Steady
<1>4. clock' = clock /\ \A l \in Limiters : admitted'[l] \subseteq admitted[l]
  OBVIOUS
<1>5. WindowBound'
  BY <1>0, <1>3, <1>4, WindowShrinks
<1>6. \A l \in Limiters :
        /\ admitted'[l] \subseteq admitted[l]
        /\ hits'[l] \subseteq admitted'[l]
        /\ \A q \in admitted'[l] :
             q \in hits[l] /\ clock - request[q].at < Window => q \in hits'[l]
  BY <1>0 DEF LimiterInv
<1>7. LimiterInv'
  BY <1>0, <1>3, <1>4, <1>6, LimitersForget
<1>8. KeyInv'
  BY <1>0, <1>1, ArriveKeepsKeys
<1>. QED
  BY <1>2, <1>5, <1>7, <1>8, Together

\* A request that comes is let in, throttled or turned away.
LEMMA ArriveKeeps ==
    ASSUME IInv, NEW r \in Requests, NEW w \in Workers, NEW k \in Keys, Arrive(r, w, k)
    PROVE  IInv'
<1>0. TypeOK /\ KeyInv /\ request[r] \in Request
  BY DEF IInv, KeyInv, TypeOK
<1>2. Ended(request[r], "refused") \in Request /\ Ended(request[r], "refused").pc = "refused"
      /\ Ended(request[r], "refused").op = "none"
  BY <1>0, EndedKeeps DEF EndPC
<1>3. CASE RefuseRevoked(r, w, k)
  <2>1. request' = [request EXCEPT ![r] = Ended(request[r], "refused")]
    BY <1>0, <1>3 DEF RefuseRevoked, Finish, TypeOK
  <2>. QED
    BY <1>0, <1>2, <1>3, <2>1, TurnedAway DEF RefuseRevoked, Comes, limits, world, TypeOK
<1>4. CASE CompareExpiry(r, w, k)
  <2>. DEFINE new == [request[r] EXCEPT !.pc = "failed", !.key = k, !.at = clock]
  <2>1. new \in Request /\ new.pc = "failed" /\ new.op = request[r].op
        /\ new.target = request[r].target
    BY <1>0 DEF Request, EndPC, TypeOK
  <2>2. request' = [request EXCEPT ![r] = new]
    BY <1>0, <1>4 DEF CompareExpiry, TypeOK
  <2>3. /\ request[r].op = "create" => request[r].target = NoKey
        /\ request[r].op = "revoke" => request[r].target \in Keys
    BY <1>0 DEF KeyInv, HandlerInv, HandlerOK
  <2>. HIDE DEF new
  <2>4. /\ request[r].pc = "new"
        /\ UNCHANGED <<key, log, hits, admitted, clock, restarts, dbErrors>>
    BY <1>4 DEF CompareExpiry, Comes, limits, world
  <2>5. /\ hits' \in [Limiters -> SUBSET Requests]
        /\ \A l \in Limiters :
             /\ hits'[l] \subseteq hits[l]
             /\ \A q \in hits[l] : clock - request[q].at < Window => q \in hits'[l]
    BY <1>0, <2>4 DEF TypeOK
  <2>6. /\ new.pc \in {"refused", "failed"}
        /\ new.op = "create" => new.target = NoKey
        /\ new.op = "revoke" => new.target \in Keys
    BY <2>1, <2>3
  <2>7. new \in Request
    BY <2>1
  <2>. QED
    BY <2>2, <2>4, <2>5, <2>6, <2>7, TurnedAway
<1>5. ASSUME NEW op \in Ops, Throttle(r, w, op, k)
      PROVE  IInv'
  <2>. DEFINE l == <<w, CopyOf(op)>>
  <2>1. request' = [request EXCEPT ![r] = Ended(request[r], "refused")]
    BY <1>0, <1>5 DEF Throttle, Finish, TypeOK
  <2>2. l \in Limiters /\ hits' = [hits EXCEPT ![l] = Pruned(l, k)]
    BY <1>5 DEF Throttle, Limiters, Copies, CopyOf
  <2>3. Pruned(l, k) \subseteq hits[l]
    BY DEF Pruned, Recent
  <2>4. \A q \in hits[l] : clock - request[q].at < Window => q \in Pruned(l, k)
    BY DEF Pruned, Recent
  <2>. HIDE DEF l
  <2>5. hits' \in [Limiters -> SUBSET Requests]
    BY <1>0, <2>2, <2>3 DEF TypeOK
  <2>6. \A m \in Limiters :
          /\ hits'[m] \subseteq hits[m]
          /\ \A q \in hits[m] : clock - request[q].at < Window => q \in hits'[m]
    BY <1>0, <2>2, <2>3, <2>4 DEF TypeOK
  <2>7. request[r].pc = "new"
    BY <1>5 DEF Throttle, AsksLimiter, Comes
  <2>8. UNCHANGED <<key, log, admitted, clock, restarts, dbErrors>>
    BY <1>5 DEF Throttle, world
  <2>. QED
    BY <1>2, <2>1, <2>5, <2>6, <2>7, <2>8, TurnedAway
<1>6. ASSUME NEW op \in Ops, NEW target \in Keys \cup {NoKey}, Admit(r, w, op, k, target),
             op = "create" => target = NoKey, op = "revoke" => target \in Keys
      PROVE  IInv'
  <2>. DEFINE l == <<w, CopyOf(op)>>
  <2>1. /\ request' \in [Requests -> Request]
        /\ \A q \in Requests \ {r} : request'[q] = request[q]
        /\ request'[r].pc = "counted" /\ request'[r].op = op
        /\ request'[r].target = target /\ request[r].pc = "new"
    BY <1>0, <1>6, AdmitEffect
  <2>2. LimiterInv' /\ WindowBound'
    BY <1>6, AdmitWindow
  <2>3. KeyInv'
    <3>1. UNCHANGED <<key, log>>
      BY <1>6 DEF Admit
    <3>. QED
      BY <1>0, <1>6, <2>1, <3>1, ArriveKeepsKeys
  <2>4. /\ hits' = [hits EXCEPT ![l] = Pruned(l, k) \cup {r}]
        /\ admitted' = [admitted EXCEPT ![l] = @ \cup {r}]
        /\ UNCHANGED <<key, log, clock, restarts, dbErrors>>
    BY <1>6 DEF Admit, world
  <2>5. l \in Limiters
    BY DEF Limiters, Copies, CopyOf
  <2>. HIDE DEF l
  <2>6. Pruned(l, k) \subseteq Requests
    BY <1>0, <2>5 DEF Pruned, Recent, TypeOK
  <2>7. hits' \in [Limiters -> SUBSET Requests] /\ admitted' \in [Limiters -> SUBSET Requests]
    BY <1>0, <2>4, <2>5, <2>6 DEF TypeOK
  <2>8. TypeOK'
    BY <1>0, <2>1, <2>4, <2>7 DEF TypeOK
  <2>. QED
    BY <2>2, <2>3, <2>8, Together
<1>7. "revoke" \in Ops /\ NoKey \notin Keys
  BY DEF Ops, AdminOps
<1>. QED
  BY <1>3, <1>4, <1>5, <1>6, <1>7 DEF Arrive

\* A worker that begins again has empty limiters; its handlers are lost.
LEMMA RestartKeeps ==
    ASSUME IInv, NEW w \in Workers, Restart(w)
    PROVE  IInv'
<1>0. TypeOK /\ KeyInv /\ LimiterInv /\ WindowBound /\ "lost" \in EndPC
  BY DEF IInv, KeyInv, EndPC
<1>1. \A q \in Requests :
        /\ request[q] \in Request
        /\ request'[q] = IF request[q].worker = w THEN Ended(request[q], "lost") ELSE request[q]
  BY <1>0 DEF Restart, TypeOK
<1>2. \A q \in Requests :
        /\ request'[q] \in Request
        /\ request'[q].pc = request[q].pc \/ request'[q].pc = "lost"
        /\ request'[q].op = request[q].op \/ request'[q].op = "none"
        /\ request'[q].target = request[q].target
        /\ request'[q].key = request[q].key /\ request'[q].at = request[q].at
        /\ \/ request'[q] = request[q]
           \/ request'[q].pc = "lost" /\ request'[q].op = "none"
  <2>. TAKE q \in Requests
  <2>1. CASE request[q].worker = w
    BY <1>0, <1>1, <2>1, EndedKeeps
  <2>2. CASE request[q].worker # w
    BY <1>1, <2>2
  <2>. QED
    BY <2>1, <2>2
<1>3. request' \in [Requests -> Request]
  BY <1>2 DEF Restart
<1>4. /\ hits' \in [Limiters -> SUBSET Requests] /\ admitted' \in [Limiters -> SUBSET Requests]
      /\ UNCHANGED <<key, log, clock, dbErrors>> /\ restarts' \in 0..MaxRestarts
  BY <1>0 DEF Restart, TypeOK
<1>5. TypeOK'
  BY <1>0, <1>3, <1>4 DEF TypeOK
<1>6. Steady
  BY <1>2 DEF Steady
<1>7. \A l \in Limiters :
        /\ admitted'[l] \subseteq admitted[l]
        /\ hits'[l] \subseteq admitted'[l]
        /\ \A q \in admitted'[l] :
             q \in hits[l] /\ clock - request[q].at < Window => q \in hits'[l]
  BY <1>0 DEF Restart, LimiterInv
<1>8. WindowBound'
  BY <1>0, <1>4, <1>6, <1>7, WindowShrinks
<1>9. LimiterInv'
  BY <1>0, <1>4, <1>6, <1>7, LimitersForget
<1>10. HandlerInv'
  BY <1>0, <1>2, <1>4 DEF KeyInv, HandlerInv, HandlerOK
<1>11. KeyChangesAreLogged' /\ RevocationIsFinal'
  <2>1. \A k \in Keys : (Created(k)' <=> Created(k)) /\ (Revoked(k)' <=> Revoked(k))
    BY <1>2, <1>4 DEF Created, Revoked, Entry
  <2>. QED
    BY <1>0, <1>4, <2>1 DEF KeyInv, KeyChangesAreLogged, RevocationIsFinal
<1>. QED
  BY <1>5, <1>8, <1>9, <1>10, <1>11, Together DEF KeyInv

\* Time changes nothing but what is within a window.
LEMMA TickKeeps ==
    ASSUME IInv, Tick
    PROVE  IInv'
<1>1. LimiterInv' /\ WindowBound'
  BY TickWindow
<1>2. TypeOK'
  BY DEF IInv, TypeOK, Tick, limits
<1>3. KeyInv'
  BY DEF IInv, KeyInv, HandlerInv, HandlerOK, KeyChangesAreLogged, RevocationIsFinal,
         Created, Revoked, Entry, Tick
<1>. QED
  BY <1>1, <1>2, <1>3, Together

\* No step of the system disturbs the invariant.
LEMMA StepIInv == IInv /\ [Next]_vars => IInv'
<1>. SUFFICES ASSUME IInv, [Next]_vars PROVE IInv'
  OBVIOUS
<1>1. CASE UNCHANGED vars
  <2>0. UNCHANGED <<key, log, request, hits, admitted, clock, restarts, dbErrors>>
    BY <1>1 DEF vars
  <2>1. TypeOK' /\ LimiterInv' /\ HandlerInv'
    BY <2>0 DEF IInv, TypeOK, LimiterInv, HandlerInv, HandlerOK, Entry
  <2>2. WindowBound'
    BY <2>0 DEF IInv, WindowBound, InWindow
  <2>3. KeyChangesAreLogged' /\ RevocationIsFinal'
    BY <2>0 DEF IInv, KeyChangesAreLogged, RevocationIsFinal, Created, Revoked, Entry
  <2>. QED
    BY <2>1, <2>2, <2>3, Together DEF KeyInv
<1>2. ASSUME NEW r \in Requests, NEW w \in Workers, NEW k \in Keys, Arrive(r, w, k)
      PROVE  IInv'
  BY <1>2, ArriveKeeps
<1>3. ASSUME NEW r \in Requests, HandlerStep(r)
      PROVE  IInv'
  BY <1>3, HandlerKeeps
<1>4. ASSUME NEW r \in Requests, DbError(r)
      PROVE  IInv'
  BY <1>4, DbErrorKeeps
<1>5. ASSUME NEW w \in Workers, Restart(w)
      PROVE  IInv'
  BY <1>5, RestartKeeps
<1>6. CASE Tick
  BY <1>6, TickKeeps
<1>. QED
  BY <1>1, <1>2, <1>3, <1>4, <1>5, <1>6 DEF Next

\* The invariant on which the theorems below rest: limiters that forget nothing
\* within the window, handlers in step with the log.
THEOREM InductiveInvariant == Spec => []IInv
BY InitIInv, StepIInv, PTL DEF Spec

\* Type correctness.
THEOREM TypeCorrect == Spec => []TypeOK
<1>1. IInv => TypeOK
  BY DEF IInv
<1>. QED
  BY <1>1, InductiveInvariant, PTL

\* The rate limit of RateLimiter.is_allowed: in no window, whenever it begins,
\* does a limiter let through more requests of a key than its rate_limit.
THEOREM LimiterHolds == Spec => []WindowBound
<1>1. IInv => WindowBound
  BY DEF IInv
<1>. QED
  BY <1>1, InductiveInvariant, PTL

\* The requests with key k that a worker let through, by either of its limiters, in the
\* window that ends at t.
LetThrough(w, k, t) == UNION {InWindow(<<w, c>>, k, t) : c \in Copies}

\* What the two limiters of a process add up to: main.py has a copy of the limiter of
\* dependencies.py, and neither knows what the other admitted, so that a worker lets
\* through at most twice the rate_limit of a key in a window.
THEOREM WorkersLimitTwice ==
    Spec => [](\A w \in Workers, k \in Keys, t \in 0..MaxClock :
                   t <= clock => Cardinality(LetThrough(w, k, t)) <= 2 * Limit[k])
<1>1. ASSUME TypeOK, WindowBound, NEW w \in Workers, NEW k \in Keys, NEW t \in 0..MaxClock,
             t <= clock
      PROVE  Cardinality(LetThrough(w, k, t)) <= 2 * Limit[k]
  <2>. DEFINE M == InWindow(<<w, "main">>, k, t)
              D == InWindow(<<w, "dependencies">>, k, t)
  <2>1. <<w, "main">> \in Limiters /\ <<w, "dependencies">> \in Limiters
    BY DEF Limiters, Copies
  <2>2. M \subseteq Requests /\ D \subseteq Requests
    BY <1>1, <2>1 DEF InWindow, TypeOK
  <2>3. Cardinality(M) <= Limit[k] /\ Cardinality(D) <= Limit[k] /\ Limit[k] \in Nat
    BY <1>1, <2>1 DEF WindowBound
  <2>4. LetThrough(w, k, t) = M \cup D
    BY DEF LetThrough, Copies
  <2>. HIDE DEF M, D
  <2>5. IsFiniteSet(M) /\ IsFiniteSet(D) /\ IsFiniteSet(M \cap D)
    BY <2>2, FS_Subset
  <2>6. Cardinality(M \cup D) = Cardinality(M) + Cardinality(D) - Cardinality(M \cap D)
    BY <2>5, FS_Union
  <2>. QED
    BY <2>3, <2>4, <2>5, <2>6, FS_CardinalityType
<1>2. IInv => \A w \in Workers, k \in Keys, t \in 0..MaxClock :
                t <= clock => Cardinality(LetThrough(w, k, t)) <= 2 * Limit[k]
  BY <1>1 DEF IInv
<1>. QED
  BY <1>2, InductiveInvariant, PTL

\* Administrators' log: no key is made or revoked without the entry of the
\* request that did it.
THEOREM KeyChangesLogged == Spec => []KeyChangesAreLogged
<1>1. IInv => KeyChangesAreLogged
  BY DEF IInv
<1>. QED
  BY <1>1, InductiveInvariant, PTL

\* Revocation: a key whose revocation is on record does not come back, whatever
\* is written to its row by the requests that had read it before.
THEOREM RevokedForGood == Spec => []RevocationIsFinal
<1>1. IInv => RevocationIsFinal
  BY DEF IInv
<1>. QED
  BY <1>1, InductiveInvariant, PTL

-----------------------------------------------------------------------------
(* The contract of the keys. *)

views == [r \in Requests |-> View(r)]

\* The contract's names for what it asks.
LEMMA ViewFields ==
    ASSUME NEW r \in Requests
    PROVE  /\ views[r] = View(r)
           /\ request[r].pc \in Waiting => /\ View(r).state = "waiting"
                                           /\ View(r).by = request[r].key
           /\ request[r].pc \in OpenPC \ Waiting =>
                /\ View(r).state = "cleared" /\ View(r).by = request[r].key
                /\ View(r).target = request[r].target
                /\ request[r].op \in {"create", "revoke"} => View(r).op = request[r].op
           /\ request[r].pc = "new" => View(r).state = "new"
BY DEF views, View, Waiting, OpenPC

\* A step of one request shows in its view alone.
LEMMA OneView ==
    ASSUME TypeOK, NEW r \in Requests, \A q \in Requests \ {r} : request'[q] = request[q]
    PROVE  views' = [views EXCEPT ![r] = View(r)']
BY DEF views, View

\* A request that ends without an effect.
LEMMA EndsInContract ==
    ASSUME TypeOK, NEW r \in Requests, \A q \in Requests \ {r} : request'[q] = request[q],
           request'[r].pc \in EndPC, key' = key
    PROVE  Contract!Next
<1>1. View(r)' = Contract!Idle("over")
  BY DEF View, EndPC, OpenPC, Contract!Idle
<1>2. views' = [q \in Requests |-> IF q \in {r} THEN Contract!Idle("over") ELSE views[q]]
  BY <1>1, OneView DEF views
<1>3. Contract!End({r})
  BY <1>2 DEF Contract!End, views
<1>. QED
  BY <1>3 DEF Contract!Next

\* A request that moves on between the same two look-ups.
LEMMA MovesInContract ==
    ASSUME TypeOK, NEW r \in Requests, NEW pc \in OpenPC,
           Writes(r, pc, request[r].op, request[r].target),
           request[r].pc \in OpenPC, request[r].pc \in Waiting <=> pc \in Waiting
    PROVE  views' = views
<1>1. View(r)' = View(r)
  BY DEF Writes, View
<1>. QED
  BY <1>1 DEF views, View, Writes

\* The initial states are those of the contract.
LEMMA ContractInit == Init => Contract!Init
<1>. SUFFICES ASSUME Init PROVE Contract!Init
  OBVIOUS
<1>1. \A r \in Requests : View(r) = Contract!Idle("new")
  BY DEF Init, NewRequest, View, OpenPC, Contract!Idle
<1>. QED
  BY <1>1 DEF Init, Contract!Init

\* A request that is let in comes with an active key; one that is not has ended.
LEMMA ArriveInContract ==
    ASSUME IInv, NEW r \in Requests, NEW w \in Workers, NEW k \in Keys, Arrive(r, w, k)
    PROVE  Contract!Next
<1>0. TypeOK /\ request[r].pc = "new" /\ key' = key
  BY DEF IInv, Arrive, RefuseRevoked, CompareExpiry, Throttle, Admit, AsksLimiter, Comes
<1>1. ASSUME Finish(r, "refused") PROVE Contract!Next
  <2>1. Writes(r, "refused", "none", request[r].target) /\ "refused" \in EndPC
    BY <1>0, <1>1, FinishWrites DEF EndPC
  <2>. QED
    BY <1>0, <2>1, EndsInContract DEF Writes
<1>2. CASE CompareExpiry(r, w, k)
  <2>1. /\ \A q \in Requests \ {r} : request'[q] = request[q]
        /\ request'[r].pc = "failed" /\ "failed" \in EndPC
    BY <1>0, <1>2 DEF CompareExpiry, TypeOK, Request, EndPC
  <2>. QED
    BY <1>0, <2>1, EndsInContract
<1>3. ASSUME NEW op \in Ops, NEW target \in Keys \cup {NoKey}, Admit(r, w, op, k, target),
             op = "revoke" => target \in Keys, op # "revoke" => target = NoKey
      PROVE  Contract!Next
  <2>1. /\ \A q \in Requests \ {r} : request'[q] = request[q]
        /\ request'[r].pc = "counted" /\ request'[r].op = op /\ request'[r].key = k
        /\ request'[r].target = target
    BY <1>0, <1>3, AdmitEffect
  <2>. DEFINE asked == IF op \in {"create", "revoke"} THEN op ELSE "none"
  <2>2. View(r)' = [state |-> "waiting", op |-> asked, by |-> k, target |-> target]
    BY <2>1 DEF View, Waiting, OpenPC
  <2>3. views' = [views EXCEPT ![r] = [state |-> "waiting", op |-> asked,
                                       by |-> k, target |-> target]]
    BY <1>0, <2>1, <2>2, OneView
  <2>4. key[k] = "active" /\ views[r].state = "new"
    BY <1>0, <1>3, ViewFields DEF Admit, AsksLimiter
  <2>5. /\ asked \in {"none", "create", "revoke"}
        /\ asked = "revoke" => target \in Keys
        /\ asked # "revoke" => target = NoKey
    BY <1>3
  <2>. HIDE DEF asked
  <2>6. /\ [op |-> asked, target |-> target] \in Contract!Asks
        /\ [op |-> asked, target |-> target].op = asked
        /\ [op |-> asked, target |-> target].target = target
    BY <2>5 DEF Contract!Asks
  <2>7. Contract!Present(r)
    BY <1>0, <2>3, <2>4, <2>6 DEF Contract!Present, views
  <2>. QED
    BY <2>7 DEF Contract!Next
<1>4. "revoke" \in Ops /\ \A op \in Ops \ {"revoke"} : op \in Ops /\ op # "revoke"
  BY DEF Ops, AdminOps
<1>. QED
  BY <1>1, <1>2, <1>3, <1>4 DEF Arrive, RefuseRevoked, Throttle

\* A handler's step is an effect, an end, the second look-up or nothing the contract sees.
LEMMA HandlerInContract ==
    ASSUME IInv, NEW r \in Requests, HandlerStep(r)
    PROVE  Contract!Next \/ (key' = key /\ views' = views)
<1>0. TypeOK /\ HandlerOK(r)
  BY DEF IInv, HandlerInv
<1>1. ASSUME NEW pc \in EndPC, Finish(r, pc), key' = key PROVE Contract!Next
  <2>1. Writes(r, pc, "none", request[r].target)
    BY <1>0, <1>1, FinishWrites
  <2>. QED
    BY <1>0, <1>1, <2>1, EndsInContract DEF Writes
<1>2. ASSUME NEW pc \in OpenPC, Goto(r, pc), request[r].pc \in OpenPC,
             request[r].pc \in Waiting <=> pc \in Waiting
      PROVE  views' = views
  <2>1. Writes(r, pc, request[r].op, request[r].target)
    BY <1>0, <1>2, GotoWrites
  <2>. QED
    BY <1>0, <1>2, <2>1, MovesInContract
<1>3. CASE Stamp(r) \/ KeepOut(r) \/ LogCreate(r) \/ FindKey(r) \/ FinishBroken(r)
  BY <1>1, <1>2, <1>3
  DEF Stamp, KeepOut, LogCreate, FindKey, FinishBroken, OpenPC, EndPC, Waiting
<1>4. CASE EnterAdmin(r)
  <2>1. CASE request[r].op = "scheduler"
    BY <1>1, <1>4, <2>1 DEF EnterAdmin, EndPC
  <2>2. CASE request[r].op # "scheduler"
    <3>1. Writes(r, "inside", request[r].op, request[r].target)
      BY <1>0, <1>4, <2>2, GotoWrites DEF EnterAdmin, OpenPC
    <3>2. /\ request[r].pc = "stamped" /\ key' = key
          /\ key[request[r].key] = "active" /\ request[r].key \in AdminKeys
      BY <1>4 DEF EnterAdmin
    <3>3. View(r)' = [View(r) EXCEPT !.state = "cleared"]
      BY <3>1, <3>2 DEF Writes, View, Waiting, OpenPC
    <3>4. views' = [views EXCEPT ![r] = [@ EXCEPT !.state = "cleared"]]
      BY <1>0, <3>1, <3>3, OneView DEF Writes, views
    <3>5. views[r].state = "waiting" /\ views[r].by = request[r].key
      BY <3>2, ViewFields DEF Waiting
    <3>6. Contract!Clear(r)
      BY <3>2, <3>4, <3>5 DEF Contract!Clear, views
    <3>. QED
      BY <3>6 DEF Contract!Next
  <2>. QED
    BY <2>1, <2>2
<1>5. ASSUME NEW k \in Keys, InsertKey(r, k) PROVE Contract!Next
  <2>1. Writes(r, "served", "none", k) /\ "served" \in EndPC
    BY <1>0, <1>5, InsertWrites DEF EndPC
  <2>2. View(r)' = Contract!Idle("over")
    BY <2>1 DEF Writes, View, EndPC, OpenPC, Contract!Idle
  <2>3. views' = [views EXCEPT ![r] = Contract!Idle("over")]
    BY <1>0, <2>1, <2>2, OneView DEF Writes
  <2>4. /\ key[k] = "absent" /\ key' = [key EXCEPT ![k] = "active"]
        /\ request[r].pc = "logged" /\ request[r].op = "create"
    BY <1>0, <1>5 DEF InsertKey, HandlerOK
  <2>5. views[r].state = "cleared" /\ views[r].op = "create"
    BY <2>4, ViewFields DEF OpenPC, Waiting
  <2>6. Contract!Create(r)
    BY <2>3, <2>4, <2>5 DEF Contract!Create, Contract!TakesEffect, views
  <2>. QED
    BY <2>6 DEF Contract!Next
<1>6. CASE RevokeCommit(r)
  <2>1. Writes(r, "served", "none", request[r].target) /\ "served" \in EndPC
    BY <1>0, <1>6, FinishWrites DEF RevokeCommit, EndPC
  <2>2. View(r)' = Contract!Idle("over")
    BY <2>1 DEF Writes, View, EndPC, OpenPC, Contract!Idle
  <2>3. views' = [views EXCEPT ![r] = Contract!Idle("over")]
    BY <1>0, <2>1, <2>2, OneView DEF Writes
  <2>4. /\ request[r].pc = "revoking" /\ request[r].op = "revoke" /\ request[r].target \in Keys
        /\ key[request[r].target] # "absent"
        /\ key' = [key EXCEPT ![request[r].target] = "revoked"]
    BY <1>0, <1>6 DEF RevokeCommit, HandlerOK
  <2>5. key[request[r].target] \in {"active", "revoked"}
    BY <1>0, <2>4 DEF TypeOK, KeyState
  <2>6. views[r].state = "cleared" /\ views[r].op = "revoke" /\ views[r].target = request[r].target
    BY <2>4, ViewFields DEF OpenPC, Waiting
  <2>7. Contract!Revoke(r)
    BY <2>3, <2>4, <2>5, <2>6 DEF Contract!Revoke, Contract!TakesEffect, views
  <2>. QED
    BY <2>7 DEF Contract!Next
<1>. QED
  BY <1>3, <1>4, <1>5, <1>6 DEF HandlerStep

\* A fault moves a handler on without a second look-up, or ends requests.
LEMMA FaultInContract ==
    ASSUME IInv, \/ \E r \in Requests : DbError(r)
                 \/ \E w \in Workers : Restart(w)
    PROVE  Contract!Next \/ (key' = key /\ views' = views)
<1>0. TypeOK
  BY DEF IInv
<1>1. ASSUME NEW r \in Requests, DbError(r)
      PROVE  Contract!Next \/ views' = views
  <2>1. CASE LogsNow(r)
    <3>1. Writes(r, "broken", request[r].op, request[r].target) /\ "broken" \in OpenPC
      BY <1>0, <1>1, <2>1, GotoWrites DEF DbError, OpenPC
    <3>2. request[r].pc \in OpenPC /\ request[r].pc \notin Waiting /\ "broken" \notin Waiting
      BY <2>1 DEF LogsNow, OpenPC, Waiting
    <3>. QED
      BY <1>0, <3>1, <3>2, MovesInContract
  <2>2. CASE ~LogsNow(r)
    <3>1. Writes(r, "failed", "none", request[r].target) /\ "failed" \in EndPC /\ key' = key
      BY <1>0, <1>1, <2>2, FinishWrites DEF DbError, EndPC
    <3>. QED
      BY <1>0, <3>1, EndsInContract DEF Writes
  <2>. QED
    BY <2>1, <2>2
<1>2. ASSUME NEW w \in Workers, Restart(w)
      PROVE  Contract!Next
  <2>. DEFINE R == {r \in Requests : request[r].worker = w}
  <2>1. \A r \in Requests : request'[r] = IF r \in R THEN Ended(request[r], "lost") ELSE request[r]
    BY <1>2 DEF Restart
  <2>2. \A r \in R : request'[r].pc = "lost"
    BY <1>0, <2>1, EndedKeeps DEF TypeOK, EndPC
  <2>3. \A r \in Requests : View(r)' = IF r \in R THEN Contract!Idle("over") ELSE View(r)
    BY <2>1, <2>2 DEF View, OpenPC, Contract!Idle
  <2>4. R \in SUBSET Requests /\ key' = key
    BY <1>2 DEF Restart
  <2>. HIDE DEF R
  <2>5. Contract!End(R)
    BY <2>3, <2>4 DEF Contract!End
  <2>. QED
    BY <2>4, <2>5 DEF Contract!Next
<1>3. ASSUME NEW r \in Requests, DbError(r) PROVE key' = key
  BY <1>3 DEF DbError
<1>. QED
  BY <1>1, <1>2, <1>3

\* Every step is one of the contract or a stutter.
LEMMA ContractStep == IInv /\ [Next]_vars => [Contract!Next]_(Contract!vars)
<1>. SUFFICES ASSUME IInv, [Next]_vars
              PROVE  Contract!Next \/ (key' = key /\ views' = views)
  BY DEF Contract!vars, views
<1>1. CASE UNCHANGED vars \/ Tick
  <2>1. key' = key /\ request' = request
    BY <1>1 DEF vars, Tick
  <2>. QED
    BY <2>1 DEF views, View
<1>2. CASE Next /\ ~Tick
  BY <1>2, ArriveInContract, HandlerInContract, FaultInContract DEF Next
<1>. QED
  BY <1>1, <1>2

\* The key check and the handlers of keys implement the contract: each key is made once
\* and revoked for good, every change the doing of one request that was cleared while
\* its key was an administrator's and active.
THEOREM AccessImplementsContract == Spec => ImplementsContract
BY InductiveInvariant, ContractInit, ContractStep, PTL DEF Spec, ImplementsContract, Contract!Spec
=============================================================================
