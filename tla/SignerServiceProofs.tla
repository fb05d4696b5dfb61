------------------------ MODULE SignerServiceProofs ------------------------
(***************************************************************************)
(* Proofs about SignerService, for every number of products, manifests,    *)
(* concurrent requests and key versions, every retention limit, lifetime   *)
(* and length of the run.                                                  *)
(***************************************************************************)
EXTENDS SignerService, FiniteSetTheorems, TLAPS

-----------------------------------------------------------------------------
(* The inductive invariant: what a request in flight has established, what *)
(* its locks keep, and what the tables say about each other.               *)

Creating == {"create.prune", "create.select", "create.renew", "create.count", "create.insert"}
Deleting == {"create.select", "create.renew", "create.count", "create.insert"}
Locking == {"approve.key", "approve.sign", "approve.recheck", "approve.commit"}
Signing == {"approve.sign", "approve.recheck", "approve.commit"}

\* The rows of the table, and those a transaction has locked.
Live == {i \in Id : rows[i] # Null}
Locks(r) == {i \in Id : r.pc \in Locking /\ r.id = i} \cup r.pruned

RequestOK(r) ==
    /\ r.t <= now
    /\ r.pc # "idle" => r.id \in Id
    /\ r.pc \notin Deleting => r.pruned = {}
    /\ \A i \in r.pruned : Pending(i)
    /\ r.pc = "create.renew" => r.id \notin r.pruned
    /\ r.pc = "create.insert" => Cardinality(Live \ r.pruned) < Limit
    /\ r.pc \in Locking \cup {"approve.lock"} => <<r.id, r.expires>> \in reviewed
    /\ r.pc \in Locking => rows[r.id] # Null /\ rows[r.id].expires = r.expires
    /\ r.pc = "approve.key" => r.signature = rows[r.id].signature
    /\ r.pc \in Signing => rows[r.id].signature = Null /\ r.key = r.id.key
    /\ r.pc \in {"approve.recheck", "approve.commit"} =>
         /\ r.t <= r.expires
         /\ r.signature = [key |-> r.id.key, payload |-> r.id.payload]

\* Row locks and the advisory lock have one holder.
LocksExclude ==
    \A u, w \in Worker : u # w =>
        /\ Locks(req[u]) \cap Locks(req[w]) = {}
        /\ ~(req[u].pc \in Creating /\ req[w].pc \in Creating)

\* The table never outgrows its limit.
Retained == IsFiniteSet(Live) /\ Cardinality(Live) <= Limit

Inductive ==
    /\ TypeOK
    /\ \A w \in Worker : RequestOK(req[w])
    /\ LocksExclude
    /\ Retained
    /\ OneAuditedApproval
    /\ SignedByRequestedKey

-----------------------------------------------------------------------------
(* Frames *)

\* A worker without a request is in a typed state and holds nothing.
LEMMA IdleFacts ==
    /\ Idle \in Request /\ Idle.pc = "idle" /\ Locks(Idle) = {} /\ Idle.pruned = {}
    /\ Idle.t = 0 /\ Idle.key = Null /\ Idle.signature = Null
<1>1. 0 \in Time
  BY BoundsAssumption DEF Time
<1> QED BY <1>1 DEF Idle, Request, Steps, Locks, Locking

\* The row locks of a request are those the statements of others wait for.
LEMMA HoldsLocks ==
    ASSUME NEW u \in Worker, NEW i \in Id
    PROVE  Holds(u, i) <=> i \in Locks(req[u])
BY DEF Holds, Locks, Locking

\* A step of one request that writes no table: it has what its new step says, and
\* takes no lock that is held.
LEMMA QuietStep ==
    ASSUME Inductive, NEW w \in Worker, NEW r \in Request,
           req' = [req EXCEPT ![w] = r],
           UNCHANGED <<rows, audit, bao, now, reviewed, approvals>>,
           RequestOK(r),
           \A u \in Worker \ {w} : Locks(r) \cap Locks(req[u]) = {},
           r.pc \in Creating => \A u \in Worker \ {w} : req[u].pc \notin Creating
    PROVE  Inductive'
<1>1. req'[w] = r /\ \A u \in Worker \ {w} : req'[u] = req[u]
  BY DEF Inductive, TypeOK
<1>2. TypeOK'
  BY DEF Inductive, TypeOK
<1>3. \A u \in Worker : RequestOK(req[u])'
  <2> SUFFICES ASSUME NEW u \in Worker PROVE RequestOK(req[u])'
    OBVIOUS
  <2> DEFINE q == req'[u]
  <2>1. RequestOK(q)
    BY <1>1 DEF Inductive
  <2> HIDE DEF q
  <2>2. /\ \A i : Pending(i)' <=> Pending(i)
        /\ Live' = Live
    BY DEF Pending, Live
  <2>3. RequestOK(q) => 
          /\ q.t <= now'
          /\ q.pc # "idle" => q.id \in Id
          /\ q.pc \notin Deleting => q.pruned = {}
          /\ \A i \in q.pruned : Pending(i)'
          /\ q.pc = "create.renew" => q.id \notin q.pruned
          /\ q.pc = "create.insert" => Cardinality(Live' \ q.pruned) < Limit
          /\ q.pc \in Locking \cup {"approve.lock"} => <<q.id, q.expires>> \in reviewed'
          /\ q.pc \in Locking => rows'[q.id] # Null /\ rows'[q.id].expires = q.expires
          /\ q.pc = "approve.key" => q.signature = rows'[q.id].signature
          /\ q.pc \in Signing => rows'[q.id].signature = Null /\ q.key = q.id.key
          /\ q.pc \in {"approve.recheck", "approve.commit"} =>
               /\ q.t <= q.expires
               /\ q.signature = [key |-> q.id.key, payload |-> q.id.payload]
    BY <2>2 DEF RequestOK
  <2> QED BY <2>1, <2>3 DEF RequestOK, q
<1>4. LocksExclude'
  <2> SUFFICES ASSUME NEW u \in Worker, NEW v \in Worker, u # v
               PROVE  /\ Locks(req[u])' \cap Locks(req[v])' = {}
                      /\ ~(req'[u].pc \in Creating /\ req'[v].pc \in Creating)
    BY DEF LocksExclude
  <2>1. /\ Locks(req[u])' = Locks(req'[u])
        /\ Locks(req[v])' = Locks(req'[v])
    BY DEF Locks
  <2>2. \A x, y \in Worker : x # y =>
           /\ Locks(req[x]) \cap Locks(req[y]) = {}
           /\ ~(req[x].pc \in Creating /\ req[y].pc \in Creating)
    BY DEF Inductive, LocksExclude
  <2> QED BY <1>1, <2>1, <2>2
<1>5. Retained' /\ OneAuditedApproval' /\ SignedByRequestedKey'
  BY DEF Inductive, Retained, Live, OneAuditedApproval, Approved, Signed, SignedByRequestedKey
<1> QED BY <1>2, <1>3, <1>4, <1>5 DEF Inductive

\* A request commits what it did to the rows: none that another one has locked, and
\* the set of rows changes only under the advisory lock.
LEMMA CommitStep ==
    ASSUME Inductive, NEW w \in Worker,
           req' = [req EXCEPT ![w] = Idle],
           UNCHANGED <<bao, now, reviewed>>,
           TypeOK',
           \A u \in Worker \ {w} : \A i \in Locks(req[u]) : rows'[i] = rows[i],
           req[w].pc \in Creating \/ Live' = Live,
           Retained', OneAuditedApproval', SignedByRequestedKey'
    PROVE  Inductive'
<1>1. req'[w] = Idle /\ \A u \in Worker \ {w} : req'[u] = req[u]
  BY DEF Inductive, TypeOK
<1>2. \A u \in Worker : RequestOK(req[u])'
  <2> SUFFICES ASSUME NEW u \in Worker PROVE RequestOK(req[u])'
    OBVIOUS
  <2>1. CASE u = w
    <3>1. now' \in Nat
      BY BoundsAssumption DEF TypeOK
    <3> QED BY <1>1, <2>1, <3>1, IdleFacts DEF RequestOK, Deleting, Locking, Signing
  <2>2. CASE u # w
    <3> DEFINE q == req[u]
    <3>0. RequestOK(q) /\ q \in Request
      BY DEF Inductive, TypeOK
    <3>1. req'[u] = q
      BY <1>1, <2>2
    <3>2. \A i \in Locks(q) : rows'[i] = rows[i]
      BY <2>2
    <3>3. q.pc \in Creating => Live' = Live
      BY <2>2 DEF Inductive, LocksExclude
    <3> HIDE DEF q
    <3>4. \A i \in q.pruned : Pending(i)'
      BY <3>0, <3>2 DEF RequestOK, Pending, Locks
    <3>5. q.pc = "create.insert" => Cardinality(Live' \ q.pruned) < Limit
      BY <3>0, <3>3 DEF RequestOK, Creating
    <3>6. q.pc \in Locking => rows'[q.id] = rows[q.id]
      BY <3>0, <3>2 DEF RequestOK, Locks, Locking
    <3> QED BY <3>0, <3>1, <3>4, <3>5, <3>6 DEF RequestOK, Locking, Signing
  <2> QED BY <2>1, <2>2
<1>3. LocksExclude'
  <2> SUFFICES ASSUME NEW u \in Worker, NEW v \in Worker, u # v
               PROVE  /\ Locks(req[u])' \cap Locks(req[v])' = {}
                      /\ ~(req'[u].pc \in Creating /\ req'[v].pc \in Creating)
    BY DEF LocksExclude
  <2>1. /\ Locks(req[u])' = Locks(req'[u])
        /\ Locks(req[v])' = Locks(req'[v])
    BY DEF Locks
  <2>2. \A x, y \in Worker : x # y =>
           /\ Locks(req[x]) \cap Locks(req[y]) = {}
           /\ ~(req[x].pc \in Creating /\ req[y].pc \in Creating)
    BY DEF Inductive, LocksExclude
  <2>3. Idle.pc \notin Creating
    BY IdleFacts DEF Creating
  <2> QED BY <1>1, <2>1, <2>2, <2>3, IdleFacts
<1> QED BY <1>2, <1>3 DEF Inductive

-----------------------------------------------------------------------------
(* Steps that write no table *)

\* Waiting for the advisory lock, taking it, deleting, choosing and counting.
LEMMA CreateQuietSteps ==
    ASSUME Inductive, NEW w \in Worker,
           \/ CreateBegin(w) \/ CreateAdmit(w) \/ CreatePrune(w)
           \/ CreateSelect(w) /\ rows' = rows /\ req'[w] # Idle
           \/ CreateCount(w)
    PROVE  Inductive'
<1> DEFINE q == req[w]
<1>0. /\ q \in Request /\ RequestOK(q)
      /\ \A u \in Worker \ {w} : Locks(q) \cap Locks(req[u]) = {}
      /\ q.pc \in Creating => \A u \in Worker \ {w} : req[u].pc \notin Creating
      /\ now \in 0..MaxTime
  BY DEF Inductive, TypeOK, LocksExclude
<1>1. CASE CreateBegin(w)
  <2> PICK i \in Id : Become(w, [Idle EXCEPT !.pc = "create.admit", !.id = i, !.t = now])
    BY <1>1 DEF CreateBegin
  <2> DEFINE r == [Idle EXCEPT !.pc = "create.admit", !.id = i, !.t = now]
  <2>1. r \in Request /\ r.pc = "create.admit" /\ r.id = i /\ r.t = now /\ r.pruned = {}
    <3>1. now \in Time /\ 0 \in Time
      BY <1>0, BoundsAssumption DEF Time
    <3> QED BY <3>1 DEF Request, Steps, Idle
  <2>2. req' = [req EXCEPT ![w] = r]
    BY DEF Become
  <2> HIDE DEF r
  <2>3. RequestOK(r) /\ Locks(r) = {} /\ r.pc \notin Creating
    BY <1>0, <2>1 DEF RequestOK, Locks, Locking, Signing, Deleting, Creating
  <2> QED BY <1>1, <2>1, <2>2, <2>3, QuietStep DEF CreateBegin
<1>2. CASE CreateAdmit(w)
  <2> DEFINE r == [req[w] EXCEPT !.pc = "create.prune"]
  <2>1. /\ r \in Request /\ r.pc = "create.prune" /\ r.id = q.id /\ r.t = q.t
        /\ r.pruned = q.pruned
    BY <1>0 DEF Request, Steps
  <2>2. req' = [req EXCEPT ![w] = r] /\ q.pc = "create.admit"
    BY <1>2 DEF CreateAdmit, Goto, Become, At
  <2> HIDE DEF r
  <2>3. RequestOK(r) /\ Locks(r) = {}
    BY <1>0, <2>1, <2>2 DEF RequestOK, Locks, Locking, Signing, Deleting
  <2>4. \A u \in Worker \ {w} : req[u].pc \notin Creating
    BY <1>2 DEF CreateAdmit, Admitted, Creating
  <2> QED BY <1>2, <2>1, <2>2, <2>3, <2>4, QuietStep DEF CreateAdmit
<1>3. CASE CreatePrune(w)
  <2> DEFINE old == Expired(req[w].t)
             r == [req[w] EXCEPT !.pc = "create.select", !.pruned = old]
  <2>0. old \subseteq Id /\ \A i \in old : Pending(i)
    BY DEF Expired
  <2>1. /\ r \in Request /\ r.pc = "create.select" /\ r.id = q.id /\ r.t = q.t
        /\ r.pruned = old
    BY <1>0, <2>0 DEF Request, Steps
  <2>2. /\ req' = [req EXCEPT ![w] = r] /\ q.pc = "create.prune"
        /\ \A i \in old : ~LockedByOther(w, i)
    BY <1>3 DEF CreatePrune, Become, At
  <2> HIDE DEF r, old
  <2>3. RequestOK(r) /\ Locks(r) = old
    BY <1>0, <2>0, <2>1, <2>2 DEF RequestOK, Locks, Locking, Signing, Deleting
  <2>4. \A u \in Worker \ {w} : old \cap Locks(req[u]) = {}
    BY <2>0, <2>2, HoldsLocks DEF LockedByOther
  <2>5. \A u \in Worker \ {w} : req[u].pc \notin Creating
    BY <1>0, <2>2 DEF Creating
  <2> QED BY <1>3, <2>1, <2>2, <2>3, <2>4, <2>5, QuietStep DEF CreatePrune
<1>4. ASSUME NEW step \in {"create.count", "create.renew", "create.insert"},
             q.pc \in {"create.select", "create.count"},
             Goto(w, step), UNCHANGED <<rows, audit, bao, now, reviewed, approvals>>,
             step = "create.renew" => q.id \notin q.pruned,
             step = "create.insert" => Cardinality(Live \ q.pruned) < Limit
      PROVE  Inductive'
  <2> DEFINE r == [req[w] EXCEPT !.pc = step]
  <2>1. /\ r \in Request /\ r.pc = step /\ r.id = q.id /\ r.t = q.t
        /\ r.pruned = q.pruned
    BY <1>0, <1>4 DEF Request, Steps
  <2>2. req' = [req EXCEPT ![w] = r]
    BY <1>4 DEF Goto, Become
  <2> HIDE DEF r
  <2>3. RequestOK(r)
    BY <1>0, <1>4, <2>1 DEF RequestOK, Locking, Signing, Deleting
  <2>4. Locks(r) \subseteq Locks(q)
    BY <1>4, <2>1 DEF Locks, Locking
  <2>5. \A u \in Worker \ {w} : Locks(r) \cap Locks(req[u]) = {} /\ req[u].pc \notin Creating
    BY <1>0, <1>4, <2>4 DEF Creating
  <2> QED BY <1>4, <2>1, <2>2, <2>3, <2>5, QuietStep
<1>5. CASE CreateSelect(w) /\ rows' = rows /\ req'[w] # Idle
  <2>1. \/ Goto(w, "create.count")
        \/ Kept(w)[q.id] # Null /\ Goto(w, "create.renew")
        \/ Finish(w)
    BY <1>5 DEF CreateSelect
  <2>2. ~Finish(w)
    BY <1>5 DEF Finish, Become, Inductive, TypeOK
  <2>3. q.pc = "create.select" /\ UNCHANGED <<rows, audit, bao, now, reviewed, approvals>>
    BY <1>5 DEF CreateSelect, At
  <2>4. Kept(w)[q.id] # Null => q.id \notin q.pruned
    BY <1>0, <2>3 DEF Kept, RequestOK
  <2> QED BY <1>4, <2>1, <2>2, <2>3, <2>4
<1>6. CASE CreateCount(w)
  <2>1. {j \in Id : Kept(w)[j] # Null} = Live \ q.pruned
    BY DEF Kept, Live
  <2> QED BY <1>4, <1>6, <2>1 DEF CreateCount, At
<1> QED BY <1>1, <1>2, <1>3, <1>5, <1>6

\* A request that ends without a commit gives up its locks.
LEMMA FinishStep ==
    ASSUME Inductive, NEW w \in Worker, Finish(w),
           UNCHANGED <<rows, audit, bao, now, reviewed, approvals>>
    PROVE  Inductive'
<1>1. now \in Nat
  BY DEF Inductive, TypeOK
<1>2. RequestOK(Idle) /\ Idle.pc \notin Creating
  BY <1>1, IdleFacts DEF RequestOK, Deleting, Locking, Signing, Creating
<1> QED BY <1>2, IdleFacts, QuietStep DEF Finish, Become

\* The approver's copy, the row lock, the key, the signature and the second look
\* at the key.
LEMMA ApproveQuietSteps ==
    ASSUME Inductive, NEW w \in Worker,
           \/ ApproveBegin(w) \/ ApproveLock(w) \/ ApproveKey(w)
           \/ ApproveSign(w) \/ ApproveRecheck(w)
    PROVE  Inductive'
<1> DEFINE q == req[w]
<1>0. /\ q \in Request /\ RequestOK(q)
      /\ \A u \in Worker \ {w} : Locks(q) \cap Locks(req[u]) = {}
      /\ now \in 0..MaxTime
  BY DEF Inductive, TypeOK, LocksExclude
<1>1. CASE ApproveBegin(w)
  <2> PICK seen \in reviewed :
        Become(w, [Idle EXCEPT !.pc = "approve.lock", !.id = seen[1], !.expires = seen[2],
                               !.t = now])
    BY <1>1 DEF ApproveBegin
  <2> DEFINE r == [Idle EXCEPT !.pc = "approve.lock", !.id = seen[1], !.expires = seen[2],
                               !.t = now]
  <2>1. seen[1] \in Id /\ seen[2] \in Time /\ <<seen[1], seen[2]>> \in reviewed
    <3>1. seen \in Id \X Time
      BY DEF Inductive, TypeOK
    <3>2. seen = <<seen[1], seen[2]>> /\ seen[1] \in Id /\ seen[2] \in Time
      BY <3>1
    <3> QED BY <3>2
  <2>2. /\ r \in Request /\ r.pc = "approve.lock" /\ r.id = seen[1] /\ r.t = now
        /\ r.expires = seen[2] /\ r.pruned = {}
    <3>1. now \in Time
      BY <1>0, BoundsAssumption DEF Time
    <3> QED BY <2>1, <3>1 DEF Request, Steps, Idle
  <2>3. req' = [req EXCEPT ![w] = r]
    BY DEF Become
  <2> HIDE DEF r
  <2>4. RequestOK(r) /\ Locks(r) = {} /\ r.pc \notin Creating
    BY <1>0, <2>1, <2>2 DEF RequestOK, Locks, Locking, Signing, Deleting, Creating
  <2> QED BY <1>1, <2>2, <2>3, <2>4, QuietStep DEF ApproveBegin
<1>2. CASE ApproveLock(w)
  <2> DEFINE r == [req[w] EXCEPT !.pc = "approve.key",
                                 !.signature = rows[req[w].id].signature]
  <2>0. q.pc = "approve.lock" /\ q.id \in Id /\ q.pruned = {}
    BY <1>0, <1>2 DEF ApproveLock, At, RequestOK, Deleting
  <2>1. rows[q.id] \in Row /\ rows[q.id] # Null /\ rows[q.id].expires = q.expires
    BY <1>2, <2>0 DEF ApproveLock, Inductive, TypeOK
  <2>2. /\ r \in Request /\ r.pc = "approve.key" /\ r.id = q.id /\ r.t = q.t
        /\ r.pruned = {} /\ r.expires = q.expires /\ r.signature = rows[q.id].signature
    BY <1>0, <2>0, <2>1 DEF Request, Steps, Row
  <2>3. req' = [req EXCEPT ![w] = r] /\ ~LockedByOther(w, q.id)
    BY <1>2 DEF ApproveLock, Become
  <2> HIDE DEF r
  <2>4. RequestOK(r)
    BY <1>0, <2>0, <2>1, <2>2 DEF RequestOK, Locking, Signing, Deleting
  <2>5. Locks(r) = {q.id}
    BY <2>0, <2>2 DEF Locks, Locking
  <2>6. \A u \in Worker \ {w} : Locks(r) \cap Locks(req[u]) = {}
    BY <2>0, <2>3, <2>5, HoldsLocks DEF LockedByOther
  <2> QED BY <1>2, <2>2, <2>3, <2>4, <2>6, QuietStep DEF ApproveLock, Creating
<1>3. ASSUME NEW r \in Request, q.pc \in Locking, r.pc \in Locking,
             r.id = q.id, r.t = q.t, r.expires = q.expires, r.pruned = q.pruned,
             RequestOK(r), req' = [req EXCEPT ![w] = r],
             UNCHANGED <<rows, audit, bao, now, reviewed, approvals>>
      PROVE  Inductive'
  <2>1. Locks(r) = Locks(q)
    BY <1>3 DEF Locks
  <2>2. r.pc \notin Creating
    BY <1>3 DEF Locking, Creating
  <2> QED BY <1>0, <1>3, <2>1, <2>2, QuietStep
<1>4. CASE ApproveKey(w)
  <2>0. q.pc = "approve.key" /\ q.id \in Id
    BY <1>0, <1>4 DEF ApproveKey, At, RequestOK
  <2>1. CASE q.signature # Null
    BY <1>4, <2>1, FinishStep DEF ApproveKey
  <2>2. CASE q.signature = Null
    <3> DEFINE r == [req[w] EXCEPT !.pc = "approve.sign", !.key = q.id.key]
    <3>1. q.id.key \in KeyId
      BY <2>0 DEF Id
    <3>2. /\ r \in Request /\ r.pc = "approve.sign" /\ r.id = q.id /\ r.t = q.t
          /\ r.expires = q.expires /\ r.pruned = q.pruned /\ r.key = q.id.key
      BY <1>0, <3>1 DEF Request, Steps
    <3>3. req' = [req EXCEPT ![w] = r]
      BY <1>4, <2>2 DEF ApproveKey, Become
    <3> HIDE DEF r
    <3>4. RequestOK(r)
      BY <1>0, <2>0, <2>2, <3>2 DEF RequestOK, Locking, Signing, Deleting
    <3> QED BY <1>3, <1>4, <2>0, <3>2, <3>3, <3>4 DEF ApproveKey, Locking
  <2> QED BY <2>1, <2>2
<1>5. CASE ApproveSign(w)
  <2> DEFINE s == [key |-> q.key, payload |-> q.id.payload]
             r == [req[w] EXCEPT !.pc = "approve.recheck", !.signature = s]
  <2>0. q.pc = "approve.sign" /\ q.id \in Id /\ q.key = q.id.key /\ q.t <= q.expires
    <3>1. q.t \in Nat /\ q.expires \in Nat
      BY <1>0 DEF Request, Time
    <3> QED BY <1>0, <1>5, <3>1 DEF ApproveSign, At, RequestOK, Signing
  <2>1. s \in Signature /\ s = [key |-> q.id.key, payload |-> q.id.payload]
    BY <2>0 DEF Id, Signature
  <2> HIDE DEF s
  <2>2. /\ r \in Request /\ r.pc = "approve.recheck" /\ r.id = q.id /\ r.t = q.t
        /\ r.expires = q.expires /\ r.pruned = q.pruned /\ r.key = q.key
        /\ r.signature = s
    BY <1>0, <2>1 DEF Request, Steps
  <2>3. req' = [req EXCEPT ![w] = r]
    BY <1>5 DEF ApproveSign, Become, s
  <2> HIDE DEF r
  <2>4. RequestOK(r)
    BY <1>0, <2>0, <2>1, <2>2 DEF RequestOK, Locking, Signing, Deleting
  <2> QED BY <1>3, <1>5, <2>0, <2>2, <2>3, <2>4 DEF ApproveSign, Locking
<1>6. CASE ApproveRecheck(w)
  <2> DEFINE r == [req[w] EXCEPT !.pc = "approve.commit"]
  <2>0. q.pc = "approve.recheck"
    BY <1>6 DEF ApproveRecheck, At
  <2>2. /\ r \in Request /\ r.pc = "approve.commit" /\ r.id = q.id /\ r.t = q.t
        /\ r.expires = q.expires /\ r.pruned = q.pruned /\ r.key = q.key
        /\ r.signature = q.signature
    BY <1>0 DEF Request, Steps
  <2>3. req' = [req EXCEPT ![w] = r]
    BY <1>6 DEF ApproveRecheck, Goto, Become
  <2> HIDE DEF r
  <2>4. RequestOK(r)
    BY <1>0, <2>0, <2>2 DEF RequestOK, Locking, Signing, Deleting
  <2> QED BY <1>3, <1>6, <2>0, <2>2, <2>3, <2>4 DEF ApproveRecheck, Locking
<1> QED BY <1>1, <1>2, <1>4, <1>5, <1>6

-----------------------------------------------------------------------------
(* Commits *)

\* An event is appended to the log of one request.
LEMMA AppendEvent ==
    ASSUME TypeOK, NEW i \in Id, NEW e \in Event,
           audit' = [audit EXCEPT ![i] = Append(@, e)]
    PROVE  /\ audit' \in [Id -> Seq(Event)]
           /\ \A j \in Id : IsFiniteSet(Approved(j))
           /\ \A j \in Id : Cardinality(Approved(j)') =
                  Cardinality(Approved(j)) + (IF j = i /\ e = "approved" THEN 1 ELSE 0)
<1>1. audit' \in [Id -> Seq(Event)]
  BY DEF TypeOK
<1>2. \A j \in Id : IsFiniteSet(Approved(j))
  <2> TAKE j \in Id
  <2>1. audit[j] \in Seq(Event)
    BY DEF TypeOK
  <2>2. DOMAIN audit[j] = 1..Len(audit[j]) /\ Len(audit[j]) \in Nat
    BY <2>1
  <2>3. IsFiniteSet(DOMAIN audit[j])
    BY <2>2, FS_Interval
  <2> QED BY <2>3, FS_Subset DEF Approved
<1>3. ASSUME NEW j \in Id, j # i PROVE Approved(j)' = Approved(j)
  BY <1>3 DEF TypeOK, Approved
<1>4. Approved(i)' = Approved(i) \cup (IF e = "approved" THEN {Len(audit[i]) + 1} ELSE {})
  <2> DEFINE s == audit[i]
  <2>1. s \in Seq(Event)
    BY DEF TypeOK
  <2>2. audit'[i] = Append(s, e)
    BY DEF TypeOK
  <2>3. /\ Len(s) \in Nat /\ DOMAIN s = 1..Len(s)
        /\ DOMAIN Append(s, e) = 1..(Len(s) + 1)
        /\ \A n \in 1..Len(s) : Append(s, e)[n] = s[n]
        /\ Append(s, e)[Len(s) + 1] = e
    BY <2>1
  <2> HIDE DEF s
  <2>4. Approved(i) = {n \in 1..Len(s) : s[n] = "approved"}
    BY <2>3 DEF Approved, s
  <2>5. Approved(i)' = {n \in 1..(Len(s) + 1) : Append(s, e)[n] = "approved"}
    BY <2>2, <2>3 DEF Approved
  <2>6. {n \in 1..(Len(s) + 1) : Append(s, e)[n] = "approved"} =
           {n \in 1..Len(s) : s[n] = "approved"}
             \cup (IF e = "approved" THEN {Len(s) + 1} ELSE {})
    BY <2>3
  <2> QED BY <2>4, <2>5, <2>6 DEF s
<1>5. Len(audit[i]) + 1 \notin Approved(i)
  <2>1. audit[i] \in Seq(Event)
    BY DEF TypeOK
  <2>2. DOMAIN audit[i] = 1..Len(audit[i]) /\ Len(audit[i]) \in Nat
    BY <2>1
  <2> QED BY <2>2 DEF Approved
<1>6. \A j \in Id : Cardinality(Approved(j)) \in Nat
  BY <1>2, FS_CardinalityType
<1>7. e = "approved" => Cardinality(Approved(i)') = Cardinality(Approved(i)) + 1
  BY <1>2, <1>4, <1>5, FS_AddElement
<1>8. e # "approved" => Cardinality(Approved(i)') = Cardinality(Approved(i))
  BY <1>4
<1> QED BY <1>1, <1>2, <1>3, <1>6, <1>7, <1>8

\* What create_request leaves behind its DELETE: no signed row is gone.
LEMMA KeptFacts ==
    ASSUME Inductive, NEW w \in Worker
    PROVE  /\ Kept(w) \in [Id -> Row \cup {Null}]
           /\ {j \in Id : Kept(w)[j] # Null} = Live \ req[w].pruned
           /\ \A i \in req[w].pruned : Pending(i)
           /\ \A i \in Id : (Kept(w)[i] # Null /\ Kept(w)[i].signature # Null) <=> Signed(i)
           /\ \A i \in Id : Kept(w)[i] # Null => Kept(w)[i] = rows[i]
           /\ \A i \in Id \ req[w].pruned : Kept(w)[i] = rows[i]
           /\ \A i \in req[w].pruned : i \in Locks(req[w])
<1>1. rows \in [Id -> Row \cup {Null}] /\ req[w] \in Request /\ RequestOK(req[w])
  BY DEF Inductive, TypeOK
<1>2. /\ \A i \in Id : Kept(w)[i] = IF i \in req[w].pruned THEN Null ELSE rows[i]
      /\ Kept(w) \in [Id -> Row \cup {Null}]
  BY <1>1 DEF Kept
<1>3. \A i \in req[w].pruned : Pending(i)
  BY <1>1 DEF RequestOK
<1>4. \A i \in Id : (Kept(w)[i] # Null /\ Kept(w)[i].signature # Null) <=> Signed(i)
  BY <1>2, <1>3 DEF Pending, Signed
<1> QED BY <1>2, <1>3, <1>4 DEF Live, Locks

\* A commit of create_request: behind the DELETE, the row of at most one request
\* changes, stays unsigned if it was, and is locked by nobody else.
LEMMA CreateCommit ==
    ASSUME Inductive, NEW w \in Worker, req[w].pc \in Creating,
           req' = [req EXCEPT ![w] = Idle], UNCHANGED <<bao, now, reviewed, approvals>>,
           NEW i \in Id, NEW row \in Row \cup {Null},
           rows' = [Kept(w) EXCEPT ![i] = row],
           row = Kept(w)[i] \/ \A u \in Worker \ {w} : i \notin Locks(req[u]),
           (row # Null /\ row.signature # Null) <=> Signed(i),
           Signed(i) => row.signature = rows[i].signature,
           Retained',
           audit' = audit \/ \E e \in {"requested", "renewed"} :
               audit' = [audit EXCEPT ![i] = Append(@, e)]
    PROVE  Inductive'
<1>1. rows' \in [Id -> Row \cup {Null}]
  BY KeptFacts
<1>2. \A j \in Id \ {i} : rows'[j] = Kept(w)[j]
  BY KeptFacts
<1>3. rows'[i] = row
  BY KeptFacts
<1>4. \A j \in Id : Signed(j)' <=> Signed(j)
  BY <1>2, <1>3, KeptFacts DEF Signed
<1>5. /\ audit' \in [Id -> Seq(Event)]
      /\ \A j \in Id : Cardinality(Approved(j)') = Cardinality(Approved(j))
  <2>1. CASE audit' = audit
    BY <2>1 DEF Inductive, TypeOK, Approved
  <2>2. ASSUME NEW e \in {"requested", "renewed"},
               audit' = [audit EXCEPT ![i] = Append(@, e)]
        PROVE  /\ audit' \in [Id -> Seq(Event)]
               /\ \A j \in Id : Cardinality(Approved(j)') = Cardinality(Approved(j))
    <3>0. TypeOK /\ e \in Event /\ e # "approved"
      BY <2>2 DEF Inductive, Event
    <3>1. /\ audit' \in [Id -> Seq(Event)]
          /\ \A j \in Id : IsFiniteSet(Approved(j))
          /\ \A j \in Id : Cardinality(Approved(j)') =
                  Cardinality(Approved(j)) + (IF j = i /\ e = "approved" THEN 1 ELSE 0)
      BY <2>2, <3>0, AppendEvent
    <3>2. \A j \in Id : Cardinality(Approved(j)) \in Nat
      BY <3>1, FS_CardinalityType
    <3> QED BY <3>0, <3>1, <3>2
  <2> QED BY <2>1, <2>2
<1>6. OneAuditedApproval'
  BY <1>4, <1>5 DEF Inductive, OneAuditedApproval
<1>7. SignedByRequestedKey'
  <2> SUFFICES ASSUME NEW j \in Id, Signed(j)'
               PROVE  rows'[j].signature = [key |-> j.key, payload |-> j.payload]
    BY DEF SignedByRequestedKey
  <2>1. Signed(j) /\ rows[j].signature = [key |-> j.key, payload |-> j.payload]
    BY <1>4 DEF Inductive, SignedByRequestedKey
  <2>2. rows'[j].signature = rows[j].signature
    BY <1>2, <1>3, <2>1, KeptFacts DEF Signed
  <2> QED BY <2>1, <2>2
<1>8. TypeOK'
  BY <1>1, <1>5, IdleFacts DEF Inductive, TypeOK
<1>9. \A u \in Worker \ {w} : \A j \in Locks(req[u]) : rows'[j] = rows[j]
  <2> SUFFICES ASSUME NEW u \in Worker \ {w}, NEW j \in Locks(req[u]) PROVE rows'[j] = rows[j]
    OBVIOUS
  <2>1. j \in Id
    BY DEF Locks, Inductive, TypeOK, Request
  <2>2. j \notin Locks(req[w])
    BY DEF Inductive, LocksExclude
  <2>3. Kept(w)[j] = rows[j]
    BY <2>1, <2>2, KeptFacts
  <2> QED BY <1>2, <1>3, <2>1, <2>3
<1> QED BY <1>6, <1>7, <1>8, <1>9, CommitStep

\* A completed request is returned; only the DELETE is committed.
LEMMA CreateSelectStep == ASSUME Inductive, NEW w \in Worker, CreateSelect(w) PROVE Inductive'
<1> DEFINE i == req[w].id
<1>0. /\ req[w].pc = "create.select" /\ i \in Id
      /\ UNCHANGED <<audit, bao, now, reviewed, approvals>>
  BY DEF CreateSelect, At, Inductive, RequestOK
<1>1. CASE rows' = rows /\ req'[w] # Idle
  BY <1>1, CreateQuietSteps
<1>2. CASE rows' = Kept(w) /\ Finish(w) /\ Kept(w)[i] # Null /\ Kept(w)[i].signature # Null
  <2>1. Kept(w)[i] \in Row \cup {Null} /\ rows' = [Kept(w) EXCEPT ![i] = Kept(w)[i]]
    BY <1>0, <1>2, KeptFacts
  <2>2. Signed(i) /\ Kept(w)[i].signature = rows[i].signature
    BY <1>0, <1>2, KeptFacts DEF Signed
  <2>3. Retained'
    <3>1. Live' = Live \ req[w].pruned
      BY <1>2, KeptFacts DEF Live
    <3> QED BY <3>1, FS_Subset, FS_CardinalityType, BoundsAssumption DEF Inductive, Retained
  <2>4. req' = [req EXCEPT ![w] = Idle] /\ req[w].pc \in Creating
    BY <1>0, <1>2 DEF Finish, Become, Creating
  <2> HIDE DEF i
  <2> QED BY <1>0, <1>2, <2>1, <2>2, <2>3, <2>4, CreateCommit
<1>3. \/ rows' = rows /\ Goto(w, "create.count")
      \/ rows' = rows /\ Goto(w, "create.renew")
      \/ rows' = Kept(w) /\ Finish(w) /\ Kept(w)[i] # Null /\ Kept(w)[i].signature # Null
  BY DEF CreateSelect
<1>4. ASSUME NEW step \in {"create.count", "create.renew"}, Goto(w, step) PROVE req'[w] # Idle
  <2>1. req'[w].pc = step
    BY <1>4 DEF Goto, Become, Inductive, TypeOK, Request
  <2> QED BY <2>1, IdleFacts
<1> QED BY <1>1, <1>2, <1>3, <1>4

\* A late request gets a new expiry, once nobody else holds its row.
LEMMA CreateRenewStep == ASSUME Inductive, NEW w \in Worker, CreateRenew(w) PROVE Inductive'
<1> DEFINE i == req[w].id
           t == req[w].t
           late == rows[i] # Null /\ rows[i].expires < t
           row == IF late THEN [Kept(w)[i] EXCEPT !.expires = t + Ttl] ELSE Kept(w)[i]
<1>0. /\ req[w].pc = "create.renew" /\ i \in Id /\ i \notin req[w].pruned /\ t <= now
      /\ now \in 0..MaxTime /\ t \in Nat
      /\ UNCHANGED <<bao, now, reviewed, approvals>> /\ req' = [req EXCEPT ![w] = Idle]
  <2>1. req[w] \in Request /\ RequestOK(req[w]) /\ now \in 0..MaxTime
    BY DEF Inductive, TypeOK
  <2>2. /\ req[w].pc = "create.renew" /\ req' = [req EXCEPT ![w] = Idle]
        /\ UNCHANGED <<bao, now, reviewed, approvals>>
    BY DEF CreateRenew, At, Finish, Become
  <2> QED BY <2>1, <2>2 DEF RequestOK, Request, Time
<1>1. \A u \in Worker \ {w} : i \notin Locks(req[u])
  BY <1>0, HoldsLocks DEF CreateRenew, LockedByOther
<1>2. Kept(w)[i] = rows[i] /\ Kept(w)[i] \in Row \cup {Null}
  BY <1>0, KeptFacts
<1>3. t + Ttl \in Time
  BY <1>0, BoundsAssumption DEF Time
<1>4. /\ row \in Row \cup {Null}
      /\ rows[i] = Null => row = Null
      /\ rows[i] # Null => row \in Row /\ row.signature = rows[i].signature
  BY <1>2, <1>3 DEF Row
<1>5. /\ rows' = [Kept(w) EXCEPT ![i] = row]
      /\ audit' = audit \/ audit' = [audit EXCEPT ![i] = Append(@, "renewed")]
  <2>1. Kept(w) \in [Id -> Row \cup {Null}]
    BY KeptFacts
  <2>2. CASE late
    BY <1>0, <2>1, <2>2 DEF CreateRenew
  <2>3. CASE ~late
    <3>1. rows' = Kept(w) /\ audit' = audit
      BY <2>3 DEF CreateRenew
    <3> QED BY <1>0, <2>1, <2>3, <3>1
  <2> QED BY <2>2, <2>3
<1>6. /\ (row # Null /\ row.signature # Null) <=> Signed(i)
      /\ Signed(i) => row.signature = rows[i].signature
  BY <1>4, NullAssumption DEF Signed
<1>7. req[w].pc \in Creating
  BY <1>0 DEF Creating
<1>8. Retained'
  <2>1. row = Null <=> rows[i] = Null
    BY <1>4, NullAssumption
  <2> HIDE DEF row
  <2>2. Live' = Live \ req[w].pruned
    BY <1>0, <1>2, <1>5, <2>1, KeptFacts DEF Live
  <2> QED BY <2>2, FS_Subset, FS_CardinalityType, BoundsAssumption DEF Inductive, Retained
<1> HIDE DEF row, i
<1> QED BY <1>0, <1>1, <1>4, <1>5, <1>6, <1>7, <1>8, CreateCommit

\* A new request becomes pending while the count of the table still holds.
LEMMA CreateInsertStep == ASSUME Inductive, NEW w \in Worker, CreateInsert(w) PROVE Inductive'
<1> DEFINE i == req[w].id
           row == [expires |-> req[w].t + Ttl, signature |-> Null]
<1>0. /\ req[w].pc = "create.insert" /\ i \in Id /\ req[w].t <= now
      /\ Cardinality(Live \ req[w].pruned) < Limit
      /\ now \in 0..MaxTime /\ req[w].t \in Nat
      /\ UNCHANGED <<bao, now, reviewed, approvals>> /\ req' = [req EXCEPT ![w] = Idle]
      /\ Kept(w)[i] = Null
      /\ rows' = [Kept(w) EXCEPT ![i] = row]
      /\ audit' = [audit EXCEPT ![i] = Append(@, "requested")]
  <2>1. req[w] \in Request /\ RequestOK(req[w]) /\ now \in 0..MaxTime
    BY DEF Inductive, TypeOK
  <2>2. /\ req[w].pc = "create.insert" /\ req' = [req EXCEPT ![w] = Idle]
        /\ UNCHANGED <<bao, now, reviewed, approvals>>
        /\ Kept(w)[i] = Null
        /\ rows' = [Kept(w) EXCEPT ![i] = row]
        /\ audit' = [audit EXCEPT ![i] = Append(@, "requested")]
    BY DEF CreateInsert, At, Finish, Become
  <2> QED BY <2>1, <2>2 DEF RequestOK, Request, Time
<1>1. row \in Row /\ row.signature = Null
  <2>1. req[w].t + Ttl \in Time
    BY <1>0, BoundsAssumption DEF Time
  <2> QED BY <2>1 DEF Row
<1>2. ~Signed(i)
  BY <1>0, KeptFacts
<1> HIDE DEF row
<1>3. \A u \in Worker \ {w} : i \notin Locks(req[u])
  <2> SUFFICES ASSUME NEW u \in Worker \ {w}, i \in Locks(req[u]) PROVE FALSE
    OBVIOUS
  <2>1. RequestOK(req[u]) /\ Locks(req[u]) \cap Locks(req[w]) = {}
    BY DEF Inductive, LocksExclude
  <2>2. rows[i] # Null
    BY <2>1 DEF Locks, RequestOK, Pending
  <2>3. i \in req[w].pruned
    BY <1>0, <2>2, KeptFacts
  <2> QED BY <2>1, <2>3, KeptFacts
<1>4. Retained'
  <2>1. Live' = (Live \ req[w].pruned) \cup {i} /\ i \notin Live \ req[w].pruned
    <3>1. row # Null
      BY <1>1, NullAssumption
    <3> QED BY <1>0, <3>1, KeptFacts DEF Live
  <2>2. IsFiniteSet(Live \ req[w].pruned)
    BY FS_Subset DEF Inductive, Retained
  <2>3. Cardinality(Live \ req[w].pruned) \in Nat
    BY <2>2, FS_CardinalityType
  <2>4. /\ IsFiniteSet((Live \ req[w].pruned) \cup {i})
        /\ Cardinality((Live \ req[w].pruned) \cup {i}) = Cardinality(Live \ req[w].pruned) + 1
    BY <2>1, <2>2, FS_AddElement
  <2> QED BY <1>0, <2>1, <2>3, <2>4, BoundsAssumption DEF Retained
<1>5. req[w].pc \in Creating
  BY <1>0 DEF Creating
<1> HIDE DEF i
<1> QED BY <1>0, <1>1, <1>2, <1>3, <1>4, <1>5, CreateCommit

\* The approval's row is unsigned and locked: it is signed once.
LEMMA ApproveCommitStep == ASSUME Inductive, NEW w \in Worker, ApproveCommit(w) PROVE Inductive'
<1> DEFINE r == req[w]
           i == req[w].id
           s == [key |-> i.key, payload |-> i.payload]
<1>0. /\ r.pc = "approve.commit" /\ i \in Id /\ r \in Request
      /\ rows' = [rows EXCEPT ![i].signature = r.signature]
      /\ audit' = [audit EXCEPT ![i] = Append(@, "approved")]
      /\ approvals' = [approvals EXCEPT ![i] = [expires |-> r.expires, at |-> r.t]]
      /\ UNCHANGED <<bao, now, reviewed>> /\ req' = [req EXCEPT ![w] = Idle]
  BY DEF ApproveCommit, At, Finish, Become, Inductive, RequestOK, TypeOK
<1>1. rows[i] # Null /\ rows[i].signature = Null /\ r.signature = s /\ rows[i] \in Row
  BY <1>0 DEF Inductive, RequestOK, Locking, Signing, TypeOK
<1>2. s \in Signature
  BY <1>0 DEF Id, Signature
<1> HIDE DEF s
<1>3. /\ \A j \in Id \ {i} : rows'[j] = rows[j]
      /\ rows'[i] = [rows[i] EXCEPT !.signature = s]
      /\ rows'[i] \in Row /\ rows'[i].signature = s
      /\ rows' \in [Id -> Row \cup {Null}]
  BY <1>0, <1>1, <1>2 DEF Inductive, TypeOK, Row
<1>4. rows'[i] # Null /\ rows'[i].signature # Null
  BY <1>2, <1>3, NullAssumption
<1>5. /\ audit' \in [Id -> Seq(Event)]
      /\ \A j \in Id : IsFiniteSet(Approved(j))
      /\ \A j \in Id : Cardinality(Approved(j)') =
              Cardinality(Approved(j)) + (IF j = i THEN 1 ELSE 0)
  BY <1>0, AppendEvent DEF Event, Inductive
<1>6. OneAuditedApproval'
  <2> SUFFICES ASSUME NEW j \in Id
               PROVE  Cardinality(Approved(j)') = (IF Signed(j)' THEN 1 ELSE 0)
    BY DEF OneAuditedApproval
  <2>1. Cardinality(Approved(j)) = (IF Signed(j) THEN 1 ELSE 0)
    BY DEF Inductive, OneAuditedApproval
  <2>2. CASE j = i
    BY <1>1, <1>4, <1>5, <2>1, <2>2 DEF Signed
  <2>3. CASE j # i
    BY <1>3, <1>5, <2>1, <2>3 DEF Signed
  <2> QED BY <2>2, <2>3
<1>7. SignedByRequestedKey'
  <2>1. SignedByRequestedKey
    BY DEF Inductive
  <2> QED BY <1>3, <2>1 DEF SignedByRequestedKey, Signed, s
<1>8. TypeOK'
  <2>1. [expires |-> r.expires, at |-> r.t] \in [expires: Time, at: Time]
    BY <1>0 DEF Request
  <2>2. approvals' \in [Id -> [expires: Time, at: Time] \cup {Null}]
    BY <1>0, <2>1 DEF Inductive, TypeOK
  <2> QED BY <1>0, <1>3, <1>5, <2>2, IdleFacts DEF Inductive, TypeOK
<1>9. Live' = Live
  BY <1>1, <1>3, <1>4 DEF Live
<1>10. Retained'
  BY <1>9 DEF Retained, Inductive
<1>11. \A u \in Worker \ {w} : \A j \in Locks(req[u]) : rows'[j] = rows[j]
  <2> SUFFICES ASSUME NEW u \in Worker \ {w}, NEW j \in Locks(req[u]) PROVE rows'[j] = rows[j]
    OBVIOUS
  <2>1. j \in Id
    BY DEF Locks, Inductive, TypeOK, Request
  <2>2. j \notin Locks(req[w])
    BY DEF Inductive, LocksExclude
  <2>3. i \in Locks(req[w])
    BY <1>0 DEF Locks, Locking
  <2> QED BY <1>3, <2>1, <2>2, <2>3
<1> QED BY <1>0, <1>6, <1>7, <1>8, <1>9, <1>10, <1>11, CommitStep

-----------------------------------------------------------------------------
(* The environment, and the theorems *)

\* The approver's reading, a change of a transit key and the clock touch neither
\* the tables nor what a request in flight has.
LEMMA EnvironmentSteps ==
    ASSUME Inductive, GetRequest \/ OpenBaoChanges \/ Tick \/ UNCHANGED vars
    PROVE  Inductive'
<1>1. UNCHANGED <<rows, audit, req, approvals>>
  BY DEF GetRequest, OpenBaoChanges, Tick, vars
<1>2. /\ reviewed \subseteq reviewed' /\ reviewed' \subseteq Id \X Time
  <2>1. CASE GetRequest
    <3> PICK i \in Id : rows[i] # Null /\ reviewed' = reviewed \cup {<<i, rows[i].expires>>}
      BY <2>1 DEF GetRequest
    <3>1. rows[i].expires \in Time
      BY DEF Inductive, TypeOK, Row
    <3> QED BY <3>1 DEF Inductive, TypeOK
  <2>2. CASE ~GetRequest
    <3>1. reviewed' = reviewed
      BY <2>2 DEF OpenBaoChanges, Tick, vars
    <3> QED BY <3>1 DEF Inductive, TypeOK
  <2> QED BY <2>1, <2>2
<1>3. now' \in 0..MaxTime /\ now <= now'
  <2>1. now \in 0..MaxTime
    BY DEF Inductive, TypeOK
  <2>2. now' = now \/ (now < MaxTime /\ now' = now + 1)
    BY DEF GetRequest, OpenBaoChanges, Tick, vars
  <2> QED BY <2>1, <2>2, BoundsAssumption
<1>4. bao' \in [Product -> TransitKey]
  <2>1. bao \in [Product -> TransitKey]
    BY DEF Inductive, TypeOK
  <2>2. CASE OpenBaoChanges
    <3> PICK p \in Product :
          \/ bao[p].latest < MaxVersion /\ bao' = [bao EXCEPT ![p].latest = @ + 1]
          \/ bao[p].min < bao[p].latest /\ bao' = [bao EXCEPT ![p].min = @ + 1]
          \/ /\ bao[p].gen < MaxGen
             /\ bao' = [bao EXCEPT ![p] =
                   [latest |-> 1, min |-> 1, gen |-> @.gen + 1, custody |-> TRUE]]
          \/ bao' = [bao EXCEPT ![p].custody = ~@]
      BY <2>2 DEF OpenBaoChanges
    <3>1. /\ bao[p] \in TransitKey /\ bao[p].latest \in 1..MaxVersion
          /\ bao[p].min \in 1..MaxVersion /\ bao[p].gen \in 1..MaxGen
          /\ bao[p].custody \in BOOLEAN
      BY <2>1 DEF TransitKey
    <3>2. CASE bao[p].latest < MaxVersion /\ bao' = [bao EXCEPT ![p].latest = @ + 1]
      <4>1. bao[p].latest + 1 \in 1..MaxVersion
        BY <3>1, <3>2, BoundsAssumption
      <4> QED BY <2>1, <3>1, <3>2, <4>1 DEF TransitKey
    <3>3. CASE bao[p].min < bao[p].latest /\ bao' = [bao EXCEPT ![p].min = @ + 1]
      <4>1. bao[p].min + 1 \in 1..MaxVersion
        BY <3>1, <3>3, BoundsAssumption
      <4> QED BY <2>1, <3>1, <3>3, <4>1 DEF TransitKey
    <3>4. CASE /\ bao[p].gen < MaxGen
               /\ bao' = [bao EXCEPT ![p] =
                     [latest |-> 1, min |-> 1, gen |-> @.gen + 1, custody |-> TRUE]]
      <4>1. bao[p].gen + 1 \in 1..MaxGen /\ 1 \in 1..MaxVersion
        BY <3>1, <3>4, BoundsAssumption
      <4> QED BY <2>1, <3>4, <4>1 DEF TransitKey
    <3>5. CASE bao' = [bao EXCEPT ![p].custody = ~@]
      <4>1. (~bao[p].custody) \in BOOLEAN
        OBVIOUS
      <4> QED BY <2>1, <3>1, <3>5, <4>1 DEF TransitKey
    <3> QED BY <3>2, <3>3, <3>4, <3>5
  <2>3. CASE ~OpenBaoChanges
    BY <2>1, <2>3 DEF GetRequest, Tick, vars
  <2> QED BY <2>2, <2>3
<1>5. TypeOK'
  BY <1>1, <1>2, <1>3, <1>4 DEF Inductive, TypeOK
<1>6. \A u \in Worker : RequestOK(req[u])'
  <2> SUFFICES ASSUME NEW u \in Worker PROVE RequestOK(req[u])'
    OBVIOUS
  <2> DEFINE q == req[u]
  <2>1. RequestOK(q) /\ req'[u] = q /\ q.t \in Nat
    BY <1>1 DEF Inductive, TypeOK, Request, Time
  <2>2. /\ \A i : Pending(i)' <=> Pending(i)
        /\ Live' = Live /\ rows' = rows
    BY <1>1 DEF Pending, Live
  <2>3. q.t <= now => q.t <= now'
    <3>1. now \in Nat /\ now' \in Nat
      BY <1>3 DEF Inductive, TypeOK
    <3> QED BY <1>3, <2>1, <3>1
  <2> HIDE DEF q
  <2> QED BY <1>2, <2>1, <2>2, <2>3 DEF RequestOK
<1>7. LocksExclude'
  BY <1>1 DEF Inductive, LocksExclude, Locks
<1>8. Retained' /\ OneAuditedApproval' /\ SignedByRequestedKey'
  BY <1>1 DEF Inductive, Retained, Live, OneAuditedApproval, Approved, Signed,
              SignedByRequestedKey
<1> QED BY <1>5, <1>6, <1>7, <1>8 DEF Inductive

\* No row, no event, no request: the signer starts empty.
LEMMA InitInductive == Init => Inductive
<1> SUFFICES ASSUME Init PROVE Inductive
  OBVIOUS
<1>1. \A w \in Worker : req[w] = Idle
  BY DEF Init
<1>2. TypeOK
  <2>1. bao \in [Product -> TransitKey]
    BY BoundsAssumption DEF Init, TransitKey
  <2>2. audit \in [Id -> Seq(Event)]
    BY DEF Init
  <2>3. now \in 0..MaxTime
    BY BoundsAssumption DEF Init
  <2> QED BY <2>1, <2>2, <2>3, IdleFacts DEF Init, TypeOK
<1>3. \A w \in Worker : RequestOK(req[w])
  BY <1>1, IdleFacts DEF Init, RequestOK, Deleting, Locking, Signing
<1>4. LocksExclude
  BY <1>1, IdleFacts DEF LocksExclude, Creating
<1>5. Live = {} /\ \A i \in Id : ~Signed(i)
  BY DEF Init, Live, Signed
<1>6. Retained
  BY <1>5, FS_EmptySet, BoundsAssumption DEF Retained
<1>7. OneAuditedApproval
  <2>1. \A i \in Id : Approved(i) = {}
    BY DEF Init, Approved
  <2> QED BY <1>5, <2>1, FS_EmptySet DEF OneAuditedApproval
<1> QED BY <1>2, <1>3, <1>4, <1>5, <1>6, <1>7 DEF Inductive, SignedByRequestedKey

\* Every step keeps the invariant.
LEMMA NextInductive == Inductive /\ [Next]_vars => Inductive'
<1> SUFFICES ASSUME Inductive, [Next]_vars PROVE Inductive'
  OBVIOUS
<1>1. ASSUME NEW w \in Worker, CreateStep(w) PROVE Inductive'
  BY <1>1, CreateQuietSteps, CreateSelectStep, CreateRenewStep, CreateInsertStep DEF CreateStep
<1>2. ASSUME NEW w \in Worker, ApproveStep(w) PROVE Inductive'
  BY <1>2, ApproveQuietSteps, ApproveCommitStep DEF ApproveStep
<1>3. ASSUME NEW w \in Worker, Abort(w) PROVE Inductive'
  BY <1>3, FinishStep DEF Abort
<1>4. CASE GetRequest \/ OpenBaoChanges \/ Tick \/ UNCHANGED vars
  BY <1>4, EnvironmentSteps
<1> QED BY <1>1, <1>2, <1>3, <1>4 DEF Next

\* In every state the replicas reach, a request in flight has what its step says,
\* its locks keep the rows it decided on, and the tables agree with each other.
THEOREM InductiveCorrect == Spec => []Inductive
BY InitInductive, NextInductive, PTL DEF Spec

\* Tables, keys and requests keep their types, for any number of replicas.
THEOREM TypeCorrect == Spec => []TypeOK
<1>1. Inductive => TypeOK
  BY DEF Inductive
<1> QED BY <1>1, InductiveCorrect, PTL

\* A request is signed exactly when its log holds one approval, whatever the number
\* of approvals, renewals and prunings that race and of transactions that die.
THEOREM AuditCorrect == Spec => []OneAuditedApproval
<1>1. Inductive => OneAuditedApproval
  BY DEF Inductive
<1> QED BY <1>1, InductiveCorrect, PTL

\* A stored signature is the one of its request, however often the transit key is
\* rotated, restricted or re-created while approvals run.
THEOREM SignatureCorrect == Spec => []SignedByRequestedKey
<1>1. Inductive => SignedByRequestedKey
  BY DEF Inductive
<1> QED BY <1>1, InductiveCorrect, PTL

\* The advisory lock makes count and insert one step: the table never holds more
\* requests than its limit.
THEOREM RetentionCorrect == Spec => []Retained
<1>1. Inductive => Retained
  BY DEF Inductive
<1> QED BY <1>1, InductiveCorrect, PTL

-----------------------------------------------------------------------------
(* The approval under its expiry, and the contract *)

\* No step but the commit of an approval signs a request.
LEMMA OnlyApprovalSigns ==
    ASSUME Inductive, [Next]_vars, \A w \in Worker : ~ApproveCommit(w)
    PROVE  \A i \in Id : Signed(i)' => Signed(i)
<1>1. CASE rows' = rows
  BY <1>1 DEF Signed
<1>2. ASSUME NEW w \in Worker, CreateSelect(w) PROVE \A i \in Id : Signed(i)' => Signed(i)
  <2>1. rows' = rows \/ rows' = Kept(w)
    BY <1>2 DEF CreateSelect
  <2> QED BY <2>1, KeptFacts DEF Signed
<1>3. ASSUME NEW w \in Worker, CreateRenew(w) PROVE \A i \in Id : Signed(i)' => Signed(i)
  <2> DEFINE k == req[w].id
  <2>1. \/ rows' = Kept(w)
        \/ rows[k] # Null /\ rows' = [Kept(w) EXCEPT ![k].expires = req[w].t + Ttl]
    BY <1>3 DEF CreateRenew
  <2>2. k \in Id /\ k \notin req[w].pruned
    BY <1>3 DEF CreateRenew, At, Inductive, RequestOK
  <2>3. Kept(w)[k] = rows[k] /\ Kept(w) \in [Id -> Row \cup {Null}]
    BY <2>2, KeptFacts
  <2> HIDE DEF k
  <2>4. \A i \in Id \ {k} : rows'[i] = Kept(w)[i]
    BY <2>1, <2>3
  <2>5. rows[k] # Null => rows'[k].signature = rows[k].signature
    <3> SUFFICES ASSUME rows[k] # Null PROVE rows'[k].signature = rows[k].signature
      OBVIOUS
    <3>1. rows[k] \in Row
      BY <2>2 DEF Inductive, TypeOK
    <3> QED BY <2>1, <2>2, <2>3, <3>1 DEF Row
  <2>6. rows[k] = Null => rows'[k] = Null
    BY <2>1, <2>3
  <2> QED BY <2>4, <2>5, <2>6, KeptFacts DEF Signed
<1>4. ASSUME NEW w \in Worker, CreateInsert(w) PROVE \A i \in Id : Signed(i)' => Signed(i)
  <2> DEFINE row == [expires |-> req[w].t + Ttl, signature |-> Null]
  <2>1. rows' = [Kept(w) EXCEPT ![req[w].id] = row] /\ row.signature = Null
    BY <1>4 DEF CreateInsert
  <2> HIDE DEF row
  <2> QED BY <2>1, KeptFacts DEF Signed
<1>5. \/ rows' = rows
      \/ \E w \in Worker : CreateSelect(w) \/ CreateRenew(w) \/ CreateInsert(w)
  BY DEF Next, vars, CreateStep, ApproveStep, CreateBegin, CreateAdmit, CreatePrune, CreateCount,
         ApproveBegin, ApproveLock, ApproveKey, ApproveSign, ApproveRecheck, Abort,
         GetRequest, OpenBaoChanges, Tick
<1> QED BY <1>1, <1>2, <1>3, <1>4, <1>5

\* A renewal between review and signature voids the approval: the signature is
\* stored under the expiry that the row then has, and which the transaction's clock
\* had not passed.
THEOREM ApprovalCorrect == Spec => ApprovalBoundToExpiry
<1>1. ASSUME Inductive, [Next]_vars, NEW i \in Id, ~Signed(i), Signed(i)'
      PROVE  /\ approvals'[i].expires = rows[i].expires
             /\ approvals'[i].at <= approvals'[i].expires
  <2> PICK w \in Worker : ApproveCommit(w)
    BY <1>1, OnlyApprovalSigns
  <2> DEFINE r == req[w]
  <2>1. /\ r.pc = "approve.commit"
        /\ rows' = [rows EXCEPT ![r.id].signature = r.signature]
        /\ approvals' = [approvals EXCEPT ![r.id] = [expires |-> r.expires, at |-> r.t]]
    BY DEF ApproveCommit, At
  <2>2. r.t <= r.expires /\ r.id \in Id /\ rows[r.id].expires = r.expires
    BY <1>1, <2>1 DEF Inductive, RequestOK, Locking
  <2>3. r.id = i
    BY <1>1, <2>1, <2>2 DEF Signed, Inductive, TypeOK
  <2>4. approvals'[i] = [expires |-> r.expires, at |-> r.t]
    BY <1>1, <2>1, <2>3 DEF Inductive, TypeOK
  <2> QED BY <2>2, <2>3, <2>4
<1>2. Inductive /\ [Next]_vars =>
        [\A i \in Id : (~Signed(i) /\ Signed(i)') =>
          /\ approvals'[i].expires = rows[i].expires
          /\ approvals'[i].at <= approvals'[i].expires]_<<rows, approvals>>
  BY <1>1
<1> QED BY <1>2, InductiveCorrect, PTL DEF Spec, ApprovalBoundToExpiry

\* The contract counts as the service does.
LEMMA SameCardinality == ASSUME NEW S PROVE Contract!Cardinality(S) = Cardinality(S)
BY DEF Contract!Cardinality, Cardinality

\* The contract's tables, row by row.
LEMMA PairsFacts ==
    ASSUME TypeOK
    PROVE  /\ \A i, e : <<i, e>> \in PendingPairs <=> i \in Id /\ Pending(i) /\ e = rows[i].expires
           /\ \A x \in PendingPairs : x = <<x[1], x[2]>>
           /\ Contract!Ids(SignedPairs) = {i \in Id : Signed(i)}
<1>1. \A i, e : <<i, e>> \in PendingPairs <=> i \in Id /\ Pending(i) /\ e = rows[i].expires
  BY DEF PendingPairs
<1>2. \A x \in PendingPairs : x = <<x[1], x[2]>>
  BY DEF PendingPairs
<1>3. Contract!Ids(SignedPairs) = {i \in Id : Signed(i)}
  <2>1. Contract!Ids(SignedPairs) = {pair[1] : pair \in SignedPairs}
    BY DEF Contract!Ids
  <2>2. \A p \in SignedPairs : \E i \in Id : Signed(i) /\ p = <<i, rows[i].signature>>
    BY DEF SignedPairs
  <2>3. ASSUME NEW i \in Id, Signed(i) PROVE \E p \in SignedPairs : p[1] = i
    <3>1. <<i, rows[i].signature>> \in SignedPairs
      BY <2>3 DEF SignedPairs
    <3> QED BY <3>1
  <2> QED BY <2>1, <2>2, <2>3
<1> QED BY <1>1, <1>2, <1>3

\* A commit of create_request is a submission: the pruned requests make room, and
\* the row it writes is pending with a later expiry, or is left as it was.
LEMMA SubmitStep ==
    ASSUME Inductive, Inductive', NEW w \in Worker, NEW i \in Id, NEW row \in Row \cup {Null},
           rows' = [Kept(w) EXCEPT ![i] = row], reviewed' = reviewed,
           \/ row = Kept(w)[i]
           \/ Signed(i) /\ row # Null /\ row.signature = rows[i].signature
           \/ /\ ~Signed(i) /\ row # Null /\ row.signature = Null
              /\ Kept(w)[i] # Null => Kept(w)[i].expires < row.expires
    PROVE  Contract!Next
<1> DEFINE old == {<<j, rows[j].expires>> : j \in req[w].pruned}
           kept == PendingPairs \ old
<1>0. /\ rows \in [Id -> Row \cup {Null}] /\ rows' \in [Id -> Row \cup {Null}]
      /\ req[w].pruned \subseteq Id
      /\ TypeOK /\ TypeOK'
  BY DEF Inductive, TypeOK, Request
<1>1. rows'[i] = row /\ \A j \in Id \ {i} : rows'[j] = Kept(w)[j]
  BY KeptFacts
<1>2. \A j \in Id : Signed(j)' <=> Signed(j)
  BY <1>1, KeptFacts DEF Signed
<1>3. \A j \in Id : Signed(j) => rows'[j].signature = rows[j].signature
  BY <1>1, KeptFacts DEF Signed
<1>4. SignedPairs' = SignedPairs
  <2>1. {j \in Id : Signed(j)'} = {j \in Id : Signed(j)}
    BY <1>2
  <2> QED BY <1>3, <2>1 DEF SignedPairs
<1>5. old \in SUBSET PendingPairs
  BY <1>0, KeptFacts DEF PendingPairs
<1>6. \A j, e : <<j, e>> \in kept <=>
         j \in Id /\ Kept(w)[j] # Null /\ Kept(w)[j].signature = Null /\ e = Kept(w)[j].expires
  <2> SUFFICES ASSUME NEW j, NEW e
               PROVE  <<j, e>> \in kept <=>
                        /\ j \in Id /\ Kept(w)[j] # Null /\ Kept(w)[j].signature = Null
                        /\ e = Kept(w)[j].expires
    OBVIOUS
  <2>1. <<j, e>> \in PendingPairs <=> j \in Id /\ Pending(j) /\ e = rows[j].expires
    BY <1>0, PairsFacts
  <2>2. <<j, e>> \in old <=> j \in req[w].pruned /\ e = rows[j].expires
    OBVIOUS
  <2>3. j \in req[w].pruned => j \in Id /\ Kept(w)[j] = Null
    BY <1>0 DEF Kept
  <2>4. j \in Id /\ j \notin req[w].pruned => Kept(w)[j] = rows[j]
    BY KeptFacts
  <2> HIDE DEF old
  <2> QED BY <2>1, <2>2, <2>3, <2>4 DEF Pending
<1>7. \A x \in kept : x = <<x[1], x[2]>>
  BY <1>0, PairsFacts
<1>8. /\ \A j, e : <<j, e>> \in PendingPairs' <=>
            j \in Id /\ rows'[j] # Null /\ rows'[j].signature = Null /\ e = rows'[j].expires
      /\ \A x \in PendingPairs' : x = <<x[1], x[2]>>
  BY DEF PendingPairs, Pending
<1>9. Cardinality(PendingPairs' \cup SignedPairs) <= Limit
  <2>1. IsFiniteSet(Live') /\ Cardinality(Live') <= Limit
    BY DEF Inductive, Retained
  <2> DEFINE both == PendingPairs' \cup SignedPairs'
             f == [j \in Live' |-> IF rows'[j].signature = Null THEN <<j, rows'[j].expires>>
                                                              ELSE <<j, rows'[j].signature>>]
  <2>2. f \in [Live' -> both]
    BY DEF Live, PendingPairs, SignedPairs, Pending, Signed
  <2>3. ASSUME NEW x \in both PROVE \E j \in Live' : f[j] = x
    BY DEF Live, PendingPairs, SignedPairs, Pending, Signed
  <2>4. f \in Surjection(Live', both)
    BY <2>2, <2>3 DEF Surjection
  <2> HIDE DEF f, both
  <2>5. IsFiniteSet(both) /\ Cardinality(both) <= Cardinality(Live')
    BY <2>1, <2>4, FS_Surjection
  <2>6. Cardinality(both) \in Nat /\ Cardinality(Live') \in Nat
    BY <2>1, <2>5, FS_CardinalityType
  <2> QED BY <1>4, <2>1, <2>5, <2>6, BoundsAssumption DEF both
<1> HIDE DEF old, kept
<1>10. CASE row = Kept(w)[i] \/ (Signed(i) /\ row # Null /\ row.signature = rows[i].signature)
  <2>1. PendingPairs' = kept
    <3>1. \A j \in Id : rows'[j] = Kept(w)[j] \/
             (rows'[j] # Null /\ rows'[j].signature # Null /\ Signed(j))
      BY <1>1, <1>10 DEF Signed
    <3>2. ASSUME NEW j, NEW e PROVE <<j, e>> \in PendingPairs' <=> <<j, e>> \in kept
      <4>1. CASE j \notin Id
        BY <1>6, <1>8, <4>1
      <4>2. CASE j \in Id /\ rows'[j] = Kept(w)[j]
        BY <1>6, <1>8, <4>2
      <4>3. CASE j \in Id /\ rows'[j] # Null /\ rows'[j].signature # Null /\ Signed(j)
        <5>1. Kept(w)[j] # Null /\ Kept(w)[j].signature # Null
          BY <4>3, KeptFacts
        <5> QED BY <1>6, <1>8, <4>3, <5>1
      <4> QED BY <3>1, <4>1, <4>2, <4>3
    <3>3. \A x \in PendingPairs' : x \in kept
      BY <1>8, <3>2
    <3>4. \A x \in kept : x \in PendingPairs'
      BY <1>7, <3>2
    <3> QED BY <3>3, <3>4
  <2>2. 0 \in Time
    BY BoundsAssumption DEF Time
  <2>3. Contract!Submit(i, old, 0)
    BY <1>4, <1>5, <1>9, <2>1, SameCardinality DEF Contract!Submit, kept
  <2> QED BY <1>5, <2>2, <2>3 DEF Contract!Next
<1>11. CASE /\ ~Signed(i) /\ row # Null /\ row.signature = Null
            /\ Kept(w)[i] # Null => Kept(w)[i].expires < row.expires
  <2>1. row.expires \in Time
    BY <1>11 DEF Row
  <2>2. PendingPairs' = {seen \in kept : seen[1] # i} \cup {<<i, row.expires>>}
    <3> DEFINE S == {seen \in kept : seen[1] # i} \cup {<<i, row.expires>>}
    <3>1. \A x \in S : x = <<x[1], x[2]>>
      BY <1>7
    <3>2. \A j, e : <<j, e>> \in S <=> (<<j, e>> \in kept /\ j # i) \/ (j = i /\ e = row.expires)
      OBVIOUS
    <3> HIDE DEF S
    <3>3. ASSUME NEW j, NEW e PROVE <<j, e>> \in PendingPairs' <=> <<j, e>> \in S
      <4>1. CASE j = i
        BY <1>1, <1>8, <1>11, <3>2, <4>1
      <4>2. CASE j # i /\ j \in Id
        BY <1>1, <1>6, <1>8, <3>2, <4>2
      <4>3. CASE j \notin Id
        BY <1>6, <1>8, <3>2, <4>3
      <4> QED BY <4>1, <4>2, <4>3
    <3>4. PendingPairs' = S
      BY <1>8, <3>1, <3>3
    <3> QED BY <3>4 DEF S
  <2>3. i \notin Contract!Ids(SignedPairs)
    BY <1>0, <1>11, PairsFacts
  <2>4. \A seen \in kept : seen[1] = i => seen[2] < row.expires
    BY <1>6, <1>7, <1>11
  <2>5. Contract!Submit(i, old, row.expires)
    BY <1>4, <1>5, <1>9, <2>2, <2>3, <2>4, SameCardinality DEF Contract!Submit, kept
  <2> QED BY <1>5, <2>1, <2>5 DEF Contract!Next
<1> QED BY <1>10, <1>11

\* Each step of the service is a step of the contract, or invisible to it: a commit
\* of create_request submits, get_request reviews, the commit of an approval
\* approves.
LEMMA ContractStep ==
    ASSUME Inductive, Inductive', [Next]_vars
    PROVE  [Contract!Next]_<<PendingPairs, SignedPairs, reviewed>>
<1>0. TypeOK /\ rows \in [Id -> Row \cup {Null}]
  BY DEF Inductive, TypeOK
<1>1. CASE rows' = rows /\ reviewed' = reviewed
  BY <1>1 DEF PendingPairs, SignedPairs, Pending, Signed
<1>2. ASSUME NEW w \in Worker, CreateSelect(w), rows' = Kept(w) PROVE Contract!Next
  <2> DEFINE i == req[w].id
  <2>1. i \in Id /\ reviewed' = reviewed
    BY <1>2 DEF CreateSelect, At, Inductive, RequestOK
  <2> HIDE DEF i
  <2>2. Kept(w)[i] \in Row \cup {Null} /\ rows' = [Kept(w) EXCEPT ![i] = Kept(w)[i]]
    BY <1>2, <2>1, KeptFacts
  <2> QED BY <2>1, <2>2, SubmitStep
<1>3. ASSUME NEW w \in Worker, CreateRenew(w) PROVE Contract!Next
  <2> DEFINE i == req[w].id
             t == req[w].t
             late == rows[i] # Null /\ rows[i].expires < t
             row == IF late THEN [Kept(w)[i] EXCEPT !.expires = t + Ttl] ELSE Kept(w)[i]
  <2>0. i \in Id /\ i \notin req[w].pruned /\ t <= now /\ t \in Nat /\ now \in 0..MaxTime
    <3>1. req[w] \in Request /\ RequestOK(req[w]) /\ now \in 0..MaxTime
      BY DEF Inductive, TypeOK
    <3>2. req[w].pc = "create.renew"
      BY <1>3 DEF CreateRenew, At
    <3> QED BY <3>1, <3>2 DEF RequestOK, Request, Time
  <2>1. Kept(w)[i] = rows[i] /\ Kept(w)[i] \in Row \cup {Null}
        /\ Kept(w) \in [Id -> Row \cup {Null}]
    BY <2>0, KeptFacts
  <2>2. reviewed' = reviewed /\ rows' = [Kept(w) EXCEPT ![i] = row]
    <3>1. CASE late
      BY <1>3, <2>0, <2>1, <3>1 DEF CreateRenew
    <3>2. CASE ~late
      <4>1. rows' = Kept(w)
        BY <1>3, <3>2 DEF CreateRenew
      <4> QED BY <1>3, <2>0, <2>1, <3>2, <4>1 DEF CreateRenew
    <3> QED BY <3>1, <3>2
  <2>3. t + Ttl \in Time
    BY <2>0, BoundsAssumption DEF Time
  <2>4. ~late => row = Kept(w)[i]
    OBVIOUS
  <2>5. late => /\ row \in Row /\ row.signature = rows[i].signature
                /\ Kept(w)[i].expires < row.expires
    <3> SUFFICES ASSUME late
                 PROVE  /\ row \in Row /\ row.signature = rows[i].signature
                        /\ Kept(w)[i].expires < row.expires
      OBVIOUS
    <3>1. rows[i] \in Row
      BY <2>1
    <3>2. row \in Row /\ row.signature = rows[i].signature /\ row.expires = t + Ttl
      BY <2>1, <2>3, <3>1 DEF Row
    <3>3. rows[i].expires \in Nat
      BY <3>1 DEF Row, Time
    <3>4. Kept(w)[i].expires < t + Ttl
      BY <2>0, <2>1, <3>3, BoundsAssumption
    <3> QED BY <3>2, <3>4
  <2> HIDE DEF row
  <2>6. row \in Row \cup {Null}
    BY <2>1, <2>4, <2>5
  <2>7. late => row # Null /\ (~Signed(i) => row.signature = Null)
    BY <2>5, NullAssumption DEF Signed
  <2> HIDE DEF i, late
  <2> QED BY <2>0, <2>2, <2>4, <2>5, <2>6, <2>7, SubmitStep
<1>4. ASSUME NEW w \in Worker, CreateInsert(w) PROVE Contract!Next
  <2> DEFINE i == req[w].id
             row == [expires |-> req[w].t + Ttl, signature |-> Null]
  <2>0. i \in Id /\ req[w].t <= now /\ req[w].t \in Nat /\ now \in 0..MaxTime
    <3>1. req[w] \in Request /\ RequestOK(req[w]) /\ now \in 0..MaxTime
      BY DEF Inductive, TypeOK
    <3>2. req[w].pc = "create.insert"
      BY <1>4 DEF CreateInsert, At
    <3> QED BY <3>1, <3>2 DEF RequestOK, Request, Time
  <2>1. /\ Kept(w)[i] = Null /\ reviewed' = reviewed
        /\ rows' = [Kept(w) EXCEPT ![i] = row]
    BY <1>4 DEF CreateInsert
  <2>2. row \in Row /\ row.signature = Null
    <3>1. req[w].t + Ttl \in Time
      BY <2>0, BoundsAssumption DEF Time
    <3> QED BY <3>1 DEF Row
  <2> HIDE DEF row, i
  <2>3. ~Signed(i) /\ row # Null
    BY <2>0, <2>1, <2>2, KeptFacts, NullAssumption
  <2> QED BY <2>0, <2>1, <2>2, <2>3, SubmitStep
<1>5. CASE GetRequest
  <2> PICK i \in Id : rows[i] # Null /\ reviewed' = reviewed \cup {<<i, rows[i].expires>>}
    BY <1>5 DEF GetRequest
  <2>1. rows[i].expires \in Time
    BY <1>0 DEF Row
  <2>2. <<i, rows[i].expires>> \in PendingPairs \/ i \in Contract!Ids(SignedPairs)
    BY <1>0, PairsFacts DEF Pending, Signed
  <2>3. UNCHANGED <<PendingPairs, SignedPairs>>
    BY <1>5 DEF GetRequest, PendingPairs, SignedPairs, Pending, Signed
  <2>4. Contract!Review(i, rows[i].expires)
    BY <2>2, <2>3 DEF Contract!Review
  <2> QED BY <2>1, <2>4 DEF Contract!Next
<1>6. ASSUME NEW w \in Worker, ApproveCommit(w) PROVE Contract!Next
  <2> DEFINE r == req[w]
             i == req[w].id
             e == req[w].expires
  <2>0. /\ r.pc = "approve.commit" /\ reviewed' = reviewed
        /\ rows' = [rows EXCEPT ![i].signature = r.signature]
    BY <1>6 DEF ApproveCommit, At
  <2>1. /\ i \in Id /\ rows[i] # Null /\ rows[i].signature = Null /\ rows[i].expires = e
        /\ r.signature = SignatureOf(i) /\ <<i, e>> \in reviewed
        /\ rows[i] \in Row /\ e \in Time
    <3>1. RequestOK(r) /\ r \in Request
      BY DEF Inductive, TypeOK
    <3> QED BY <1>0, <2>0, <3>1 DEF RequestOK, Locking, Signing, SignatureOf, Request
  <2>2. SignatureOf(i) \in Signature
    BY <2>1 DEF SignatureOf, Id, Signature
  <2>3. /\ \A j \in Id \ {i} : rows'[j] = rows[j]
        /\ rows'[i] \in Row /\ rows'[i].signature = SignatureOf(i)
    BY <1>0, <2>0, <2>1, <2>2 DEF Row
  <2>4. rows'[i] # Null /\ rows'[i].signature # Null
    BY <2>2, <2>3, NullAssumption
  <2> HIDE DEF i, e
  <2>5. PendingPairs' = PendingPairs \ {<<i, e>>}
    <3>1. /\ \A x \in PendingPairs' : \E j \in Id : Pending(j)' /\ x = <<j, rows'[j].expires>>
          /\ \A x \in PendingPairs : \E j \in Id : Pending(j) /\ x = <<j, rows[j].expires>>
          /\ \A j \in Id : Pending(j)' => <<j, rows'[j].expires>> \in PendingPairs'
          /\ \A j \in Id : Pending(j) => <<j, rows[j].expires>> \in PendingPairs
      BY DEF PendingPairs
    <3>2. /\ \A j \in Id \ {i} : (Pending(j)' <=> Pending(j)) /\ rows'[j] = rows[j]
          /\ \A j \in Id : Pending(j)' => j # i
      BY <2>1, <2>3, <2>4 DEF Pending
    <3>3. ASSUME NEW x \in PendingPairs' PROVE x \in PendingPairs \ {<<i, e>>}
      <4> PICK j \in Id : Pending(j)' /\ x = <<j, rows'[j].expires>>
        BY <3>1
      <4>1. j # i
        BY <3>2
      <4> QED BY <3>1, <3>2, <4>1
    <3>4. ASSUME NEW x \in PendingPairs \ {<<i, e>>} PROVE x \in PendingPairs'
      <4> PICK j \in Id : Pending(j) /\ x = <<j, rows[j].expires>>
        BY <3>1
      <4>1. j # i
        BY <2>1
      <4> QED BY <3>1, <3>2, <4>1
    <3> QED BY <3>3, <3>4
  <2>6. SignedPairs' = SignedPairs \cup {<<i, SignatureOf(i)>>}
    <3>1. {j \in Id : Signed(j)'} = {j \in Id : Signed(j)} \cup {i}
      BY <2>1, <2>3, <2>4 DEF Signed
    <3>2. \A j \in Id : Signed(j) => j # i /\ rows'[j] = rows[j]
      BY <2>1, <2>3 DEF Signed
    <3>3. SignedPairs' = {<<j, rows'[j].signature>> : j \in {k \in Id : Signed(k)} \cup {i}}
      BY <3>1 DEF SignedPairs
    <3>4. SignedPairs = {<<j, rows[j].signature>> : j \in {k \in Id : Signed(k)}}
      BY DEF SignedPairs
    <3> QED BY <2>1, <2>3, <3>2, <3>3, <3>4
  <2>7. <<i, e>> \in PendingPairs \cap reviewed
    BY <1>0, <2>1, PairsFacts DEF Pending
  <2>8. Contract!Approve(i, e)
    BY <2>0, <2>5, <2>6, <2>7 DEF Contract!Approve
  <2> QED BY <2>1, <2>8 DEF Contract!Next
<1>7. \/ rows' = rows /\ reviewed' = reviewed
      \/ \E w \in Worker : CreateSelect(w) /\ rows' = Kept(w)
      \/ \E w \in Worker : CreateRenew(w) \/ CreateInsert(w) \/ ApproveCommit(w)
      \/ GetRequest
  <2>1. ASSUME NEW w \in Worker, CreateStep(w)
        PROVE  \/ rows' = rows /\ reviewed' = reviewed
               \/ CreateSelect(w) /\ rows' = Kept(w)
               \/ CreateRenew(w) \/ CreateInsert(w)
    BY <2>1 DEF CreateStep, CreateBegin, CreateAdmit, CreatePrune, CreateSelect, CreateCount
  <2>2. ASSUME NEW w \in Worker, ApproveStep(w) \/ Abort(w)
        PROVE  (rows' = rows /\ reviewed' = reviewed) \/ ApproveCommit(w)
    BY <2>2 DEF ApproveStep, ApproveBegin, ApproveLock, ApproveKey, ApproveSign, ApproveRecheck,
                Abort
  <2> QED BY <2>1, <2>2 DEF Next, vars, OpenBaoChanges, Tick
<1> QED BY <1>1, <1>2, <1>3, <1>4, <1>5, <1>6, <1>7

\* The signer implements its contract, for any number of replicas, concurrent
\* requests and key changes: submissions, reviews and approvals happen at once or
\* not at all, under the limit, and a signature is never withdrawn.
THEOREM ContractCorrect == Spec => ImplementsContract
<1>1. Init => Contract!Init
  <2> SUFFICES ASSUME Init PROVE Contract!Init
    OBVIOUS
  <2>1. \A i \in Id : ~Pending(i) /\ ~Signed(i)
    BY DEF Init, Pending, Signed
  <2> QED BY <2>1 DEF Init, Contract!Init, PendingPairs, SignedPairs
<1>2. Inductive /\ Inductive' /\ [Next]_vars =>
         [Contract!Next]_<<PendingPairs, SignedPairs, reviewed>>
  BY ContractStep
<1> QED BY <1>1, <1>2, InductiveCorrect, PTL DEF Spec, ImplementsContract, Contract!Spec
=============================================================================
