---------------------------- MODULE SignerService ----------------------------
(***************************************************************************)
(* The managed release signer (signer/src/main.rs): signing requests in    *)
(* PostgreSQL, approval by a second identity, signatures by an OpenBao     *)
(* transit key, on any number of replicas that share the database.         *)
(*                                                                         *)
(* create_request and approve run in a READ COMMITTED transaction; a step  *)
(* is a statement that can block, that other transactions can observe, or  *)
(* a call to OpenBao.  A transaction's writes and its audit rows appear    *)
(* together when it commits, and a request that fails, times out or dies   *)
(* with its replica is rolled back.                                        *)
(***************************************************************************)
EXTENDS Naturals, Sequences, FiniteSets

CONSTANTS
    Product,       \* product slugs, each with its transit key reeva-<slug>
    Body,          \* the contents of a manifest besides its product
    Worker,        \* requests in flight (the permits of bounded_requests)
    Slots,         \* approvals in flight at once (8 per replica)
    Limit,         \* signing requests kept (10,000)
    Ttl,           \* lifetime of a pending request, in ticks (24 hours)
    MaxTime,       \* bound: the clock stops here
    MaxVersion,    \* bound: rotations of a transit key
    MaxGen,        \* bound: re-creations of a transit key
    Null

ASSUME BoundsAssumption ==
    /\ Slots \in Nat \ {0} /\ Limit \in Nat \ {0} /\ Ttl \in Nat \ {0}
    /\ MaxTime \in Nat /\ MaxVersion \in Nat \ {0} /\ MaxGen \in Nat \ {0}

VARIABLES
    rows,          \* table signing_requests
    audit,         \* table signing_audit, the events of each request in order
    bao,           \* the transit key of each product (OpenBao)
    now,           \* the clock, in ticks
    req,           \* the request each worker is executing
    reviewed,      \* <<id, expiry>> pairs shown to the approver
    approvals      \* history: the approval that led to each signature

vars == <<rows, audit, bao, now, req, reviewed, approvals>>

-----------------------------------------------------------------------------
(* Keys, requests and signatures *)

KeyId == [product: Product, version: 1..MaxVersion, gen: 1..MaxGen]
Payload == [product: Product, body: Body]
Time == 0..(MaxTime + Ttl)

\* request_id: a digest of product, key fingerprint and payload.
Id == {i \in [key: KeyId, payload: Payload] : i.key.product = i.payload.product}

Signature == [key: KeyId, payload: Payload]
Row == [expires: Time, signature: Signature \cup {Null}]
Event == {"requested", "renewed", "approved"}

ASSUME NullAssumption == /\ Null \notin Id /\ Null \notin KeyId
                         /\ Null \notin Row /\ Null \notin Signature

\* OpenBao's transit key: versions min..latest sign, while the key satisfies the
\* custody policy; re-creating it gives every version a new fingerprint.
TransitKey == [latest: 1..MaxVersion, min: 1..MaxVersion, gen: 1..MaxGen, custody: BOOLEAN]

Steps == {"idle", "create.admit", "create.prune", "create.select", "create.renew",
          "create.count", "create.insert", "approve.lock", "approve.key",
          "approve.sign", "approve.recheck", "approve.commit"}

Request == [pc: Steps, id: Id \cup {Null}, t: Time, expires: Time,
            pruned: SUBSET Id, key: KeyId \cup {Null}, signature: Signature \cup {Null}]

Idle == [pc |-> "idle", id |-> Null, t |-> 0, expires |-> 0, pruned |-> {},
         key |-> Null, signature |-> Null]

At(w, step) == req[w].pc = step
Become(w, r) == req' = [req EXCEPT ![w] = r]
Goto(w, step) == Become(w, [req[w] EXCEPT !.pc = step])
Finish(w) == Become(w, Idle)

Signed(i) == rows[i] # Null /\ rows[i].signature # Null
Pending(i) == rows[i] # Null /\ rows[i].signature = Null

\* Bao::key: the fingerprint of a version, when custody policy and the enabled
\* range of versions allow it.
BaoKey(p, v) ==
    IF bao[p].custody /\ v \in bao[p].min .. bao[p].latest
    THEN [product |-> p, version |-> v, gen |-> bao[p].gen]
    ELSE Null

\* Bao::sign: OpenBao signs with an enabled version whatever its custody attributes,
\* and the signature verifies only under the public key of the same generation.
BaoSigns(key) ==
    /\ key.version \in bao[key.product].min .. bao[key.product].latest
    /\ bao[key.product].gen = key.gen

\* Row locks: FOR UPDATE of an approval until it ends, DELETE of a pruning
\* transaction until it commits.
Holds(w, i) ==
    \/ req[w].pc \in {"approve.key", "approve.sign", "approve.recheck", "approve.commit"}
       /\ req[w].id = i
    \/ i \in req[w].pruned

LockedByOther(w, i) == \E u \in Worker \ {w} : Holds(u, i)

\* The holder of the advisory lock that serialises admission.
Admitted(w) == req[w].pc \in {"create.prune", "create.select", "create.renew",
                                "create.count", "create.insert"}

\* The rows a transaction of create_request leaves behind its DELETE.
Kept(w) == [i \in Id |-> IF i \in req[w].pruned THEN Null ELSE rows[i]]

-----------------------------------------------------------------------------
(* create_request *)

\* Authentication and parsing passed; the key version is enabled and has the
\* submitted fingerprint.  BEGIN fixes the transaction's now().
CreateBegin(w) ==
    /\ At(w, "idle")
    /\ \E i \in Id :
        /\ BaoKey(i.key.product, i.key.version) = i.key
        /\ Become(w, [Idle EXCEPT !.pc = "create.admit", !.id = i, !.t = now])
    /\ UNCHANGED <<rows, audit, bao, now, reviewed, approvals>>

\* pg_advisory_xact_lock.
CreateAdmit(w) ==
    /\ At(w, "create.admit")
    /\ \A u \in Worker : ~Admitted(u)
    /\ Goto(w, "create.prune")
    /\ UNCHANGED <<rows, audit, bao, now, reviewed, approvals>>

\* The unsigned rows that expired more than a day ago.
Expired(t) == {i \in Id : Pending(i) /\ rows[i].expires + Ttl < t}

\* DELETE waits for the row locks of approvals, then locks what it deletes.
CreatePrune(w) ==
    LET old == Expired(req[w].t)
    IN  /\ At(w, "create.prune")
        /\ \A i \in old : ~LockedByOther(w, i)
        /\ Become(w, [req[w] EXCEPT !.pc = "create.select", !.pruned = old])
        /\ UNCHANGED <<rows, audit, bao, now, reviewed, approvals>>

\* SELECT without a lock: a completed request is returned as stored, which
\* commits the DELETE.
CreateSelect(w) ==
    LET row == Kept(w)[req[w].id]
    IN  /\ At(w, "create.select")
        /\ \/ /\ row = Null
              /\ Goto(w, "create.count")
              /\ UNCHANGED rows
           \/ /\ row # Null
              /\ row.signature = Null
              /\ Goto(w, "create.renew")
              /\ UNCHANGED rows
           \/ /\ row # Null
              /\ row.signature # Null
              /\ rows' = Kept(w)
              /\ Finish(w)
        /\ UNCHANGED <<audit, bao, now, reviewed, approvals>>

\* Mutant: the update does not wait for the approval that holds the row.
RenewWithoutLock(w) ==
    LET i == req[w].id
        t == req[w].t
    IN  /\ At(w, "create.renew")
        /\ rows[i] # Null
        /\ rows[i].expires < t
        /\ rows' = [Kept(w) EXCEPT ![i].expires = t + Ttl]
        /\ audit' = [audit EXCEPT ![i] = Append(@, "renewed")]
        /\ Finish(w)
        /\ UNCHANGED <<bao, now, reviewed, approvals>>

\* UPDATE ... WHERE id AND expires_at < now(): it waits for the row lock and then
\* tests its condition on the row as last committed.
CreateRenew(w) ==
    LET i == req[w].id
        t == req[w].t
        late == rows[i] # Null /\ rows[i].expires < t
    IN  /\ At(w, "create.renew")
        /\ ~LockedByOther(w, i)
        /\ rows' = IF late THEN [Kept(w) EXCEPT ![i].expires = t + Ttl] ELSE Kept(w)
        /\ audit' = IF late THEN [audit EXCEPT ![i] = Append(@, "renewed")] ELSE audit
        /\ Finish(w)
        /\ UNCHANGED <<bao, now, reviewed, approvals>>

\* The retention limit, on the rows the transaction sees.
CreateCount(w) ==
    /\ At(w, "create.count")
    /\ Cardinality({j \in Id : Kept(w)[j] # Null}) < Limit
    /\ Goto(w, "create.insert")
    /\ UNCHANGED <<rows, audit, bao, now, reviewed, approvals>>

\* Mutant: the expiry is stored in a smaller unit than the clock's.
InsertWrongUnit(w) ==
    LET i == req[w].id
        row == [expires |-> (req[w].t + Ttl) * 2, signature |-> Null]
    IN  /\ At(w, "create.insert")
        /\ Kept(w)[i] = Null
        /\ rows' = [Kept(w) EXCEPT ![i] = row]
        /\ audit' = [audit EXCEPT ![i] = Append(@, "requested")]
        /\ Finish(w)
        /\ UNCHANGED <<bao, now, reviewed, approvals>>

CreateInsert(w) ==
    LET i == req[w].id
        row == [expires |-> req[w].t + Ttl, signature |-> Null]
    IN  /\ At(w, "create.insert")
        /\ Kept(w)[i] = Null
        /\ rows' = [Kept(w) EXCEPT ![i] = row]
        /\ audit' = [audit EXCEPT ![i] = Append(@, "requested")]
        /\ Finish(w)
        /\ UNCHANGED <<bao, now, reviewed, approvals>>

-----------------------------------------------------------------------------
(* get_request and approve *)

\* The approver fetches a request and reviews its manifest and expiry.
GetRequest ==
    /\ \E i \in Id :
        /\ rows[i] # Null
        /\ reviewed' = reviewed \cup {<<i, rows[i].expires>>}
    /\ UNCHANGED <<rows, audit, bao, now, req, approvals>>

\* A slot is free; the approval names the digest, artifact and expiry reviewed.
ApproveBegin(w) ==
    /\ At(w, "idle")
    /\ Cardinality({u \in Worker : req[u].pc \in
          {"approve.lock", "approve.key", "approve.sign", "approve.recheck", "approve.commit"}})
          < Slots
    /\ \E seen \in reviewed :
        Become(w, [Idle EXCEPT !.pc = "approve.lock", !.id = seen[1], !.expires = seen[2],
                               !.t = now])
    /\ UNCHANGED <<rows, audit, bao, now, reviewed, approvals>>

\* Mutant: the row is read without FOR UPDATE.
ApproveWithoutLock(w) ==
    /\ At(w, "approve.lock")
    /\ rows[req[w].id] # Null
    /\ rows[req[w].id].expires = req[w].expires
    /\ Become(w, [req[w] EXCEPT !.pc = "approve.key", !.signature = rows[req[w].id].signature])
    /\ UNCHANGED <<rows, audit, bao, now, reviewed, approvals>>

\* SELECT ... FOR UPDATE, and the comparison with what the approver reviewed.
ApproveLock(w) ==
    /\ At(w, "approve.lock")
    /\ ~LockedByOther(w, req[w].id)
    /\ rows[req[w].id] # Null
    /\ rows[req[w].id].expires = req[w].expires
    /\ Become(w, [req[w] EXCEPT !.pc = "approve.key", !.signature = rows[req[w].id].signature])
    /\ UNCHANGED <<rows, audit, bao, now, reviewed, approvals>>

\* Mutant: the fingerprint is not compared with the request's.
ApproveAnyKey(w) ==
    LET i == req[w].id
        key == BaoKey(i.key.product, i.key.version)
    IN  /\ At(w, "approve.key")
        /\ key # Null
        /\ IF req[w].signature # Null
           THEN Finish(w)
           ELSE Become(w, [req[w] EXCEPT !.pc = "approve.sign", !.key = key])
        /\ UNCHANGED <<rows, audit, bao, now, reviewed, approvals>>

\* The request's key version is still enabled with the same fingerprint; a
\* completed request is returned as stored.
ApproveKey(w) ==
    LET i == req[w].id
        key == BaoKey(i.key.product, i.key.version)
    IN  /\ At(w, "approve.key")
        /\ key = i.key
        /\ IF req[w].signature # Null
           THEN Finish(w)
           ELSE Become(w, [req[w] EXCEPT !.pc = "approve.sign", !.key = key])
        /\ UNCHANGED <<rows, audit, bao, now, reviewed, approvals>>

\* Mutant: the expiry is compared with what was reviewed, not with the clock.
ApproveSignExpired(w) ==
    LET i == req[w].id
        key == req[w].key
    IN  /\ At(w, "approve.sign")
        /\ BaoSigns(key)
        /\ Become(w, [req[w] EXCEPT !.pc = "approve.recheck",
                                    !.signature = [key |-> key, payload |-> i.payload]])
        /\ UNCHANGED <<rows, audit, bao, now, reviewed, approvals>>

\* Not expired at the transaction's now(); OpenBao signs, and the signature is
\* verified under the public key read before.
ApproveSign(w) ==
    LET i == req[w].id
        key == req[w].key
    IN  /\ At(w, "approve.sign")
        /\ req[w].expires >= req[w].t
        /\ BaoSigns(key)
        /\ Become(w, [req[w] EXCEPT !.pc = "approve.recheck",
                                    !.signature = [key |-> key, payload |-> i.payload]])
        /\ UNCHANGED <<rows, audit, bao, now, reviewed, approvals>>

ApproveRecheck(w) ==
    LET key == req[w].key
    IN  /\ At(w, "approve.recheck")
        /\ BaoKey(key.product, key.version) = key
        /\ Goto(w, "approve.commit")
        /\ UNCHANGED <<rows, audit, bao, now, reviewed, approvals>>

\* The result and its audit row commit together.
ApproveCommit(w) ==
    LET r == req[w]
    IN  /\ At(w, "approve.commit")
        /\ rows' = [rows EXCEPT ![r.id].signature = r.signature]
        /\ audit' = [audit EXCEPT ![r.id] = Append(@, "approved")]
        /\ approvals' = [approvals EXCEPT ![r.id] = [expires |-> r.expires, at |-> r.t]]
        /\ Finish(w)
        /\ UNCHANGED <<bao, now, reviewed>>

\* A failed check, an unavailable backend, lock_timeout, the 30 s deadline or the
\* loss of the replica: the transaction rolls back.
Abort(w) ==
    /\ ~At(w, "idle")
    /\ Finish(w)
    /\ UNCHANGED <<rows, audit, bao, now, reviewed, approvals>>

-----------------------------------------------------------------------------
(* The environment *)

\* An operator rotates a key, disables old versions, deletes and re-creates the
\* key, or changes an attribute the custody policy looks at.
OpenBaoChanges ==
    /\ \E p \in Product :
        \/ /\ bao[p].latest < MaxVersion
           /\ bao' = [bao EXCEPT ![p].latest = @ + 1]
        \/ /\ bao[p].min < bao[p].latest
           /\ bao' = [bao EXCEPT ![p].min = @ + 1]
        \/ /\ bao[p].gen < MaxGen
           /\ bao' = [bao EXCEPT ![p] =
                 [latest |-> 1, min |-> 1, gen |-> @.gen + 1, custody |-> TRUE]]
        \/ bao' = [bao EXCEPT ![p].custody = ~@]
    /\ UNCHANGED <<rows, audit, now, req, reviewed, approvals>>

\* A transaction lives for at most 30 seconds and a tick is a good part of a day:
\* one tick may pass during a transaction, never two.
Tick ==
    /\ now < MaxTime
    /\ \A w \in Worker : ~At(w, "idle") => req[w].t = now
    /\ now' = now + 1
    /\ UNCHANGED <<rows, audit, bao, req, reviewed, approvals>>

-----------------------------------------------------------------------------

Init ==
    /\ rows = [i \in Id |-> Null]
    /\ audit = [i \in Id |-> <<>>]
    /\ bao = [p \in Product |-> [latest |-> 1, min |-> 1, gen |-> 1, custody |-> TRUE]]
    /\ now = 0
    /\ req = [w \in Worker |-> Idle]
    /\ reviewed = {}
    /\ approvals = [i \in Id |-> Null]

CreateStep(w) ==
    \/ CreateBegin(w) \/ CreateAdmit(w) \/ CreatePrune(w) \/ CreateSelect(w)
    \/ CreateRenew(w) \/ CreateCount(w) \/ CreateInsert(w)

ApproveStep(w) ==
    \/ ApproveBegin(w) \/ ApproveLock(w) \/ ApproveKey(w) \/ ApproveSign(w)
    \/ ApproveRecheck(w) \/ ApproveCommit(w)

Next ==
    \/ \E w \in Worker : CreateStep(w) \/ ApproveStep(w) \/ Abort(w)
    \/ GetRequest
    \/ OpenBaoChanges
    \/ Tick

Spec == Init /\ [][Next]_vars

-----------------------------------------------------------------------------
(* Properties *)

\* Tables, transit keys and requests hold values of their types.
TypeOK ==
    /\ rows \in [Id -> Row \cup {Null}]
    /\ audit \in [Id -> Seq(Event)]
    /\ bao \in [Product -> TransitKey]
    /\ now \in 0..MaxTime
    /\ req \in [Worker -> Request]
    /\ reviewed \subseteq Id \X Time
    /\ approvals \in [Id -> [expires: Time, at: Time] \cup {Null}]

Approved(i) == {n \in DOMAIN audit[i] : audit[i][n] = "approved"}

\* Audit and result commit together and row locks serialise approvals: a request
\* is signed exactly when the audit log holds one approval of it, however many
\* approvals, retries and failures of several replicas raced, and so pruning and
\* renewal never take a signature away again.
OneAuditedApproval ==
    \A i \in Id : Cardinality(Approved(i)) = (IF Signed(i) THEN 1 ELSE 0)

\* The stored signature was made, over the request's own manifest, with the key
\* whose fingerprint the request names, also when the transit key was rotated or
\* re-created between the request, the approval and the signature.
SignedByRequestedKey ==
    \A i \in Id : Signed(i) => rows[i].signature = [key |-> i.key, payload |-> i.payload]

\* A request is only ever signed under the expiry the approver reviewed, which is
\* the one the row has when the signature is stored and which had not passed when
\* the approval began: a renewal in between voids the approval.
ApprovalBoundToExpiry ==
    [][\A i \in Id : (~Signed(i) /\ Signed(i)') =>
          /\ approvals'[i].expires = rows[i].expires
          /\ approvals'[i].at <= approvals'[i].expires]_<<rows, approvals>>

\* The contract of the signer, for the rows of committed transactions.
SignatureOf(i) == [key |-> i.key, payload |-> i.payload]
PendingPairs == {<<i, rows[i].expires>> : i \in {j \in Id : Pending(j)}}
SignedPairs == {<<i, rows[i].signature>> : i \in {j \in Id : Signed(j)}}

Contract == INSTANCE SigningContract WITH pending <- PendingPairs, signed <- SignedPairs

\* The service implements the contract: with transactions that interleave on
\* several replicas, wait, time out and die, and a transit key that changes under
\* them, its clients see each operation happen at once or not at all.  A signature
\* appears on a pending request under the expiry it then has and that was reviewed,
\* is the one of that request, and is never withdrawn; admission is serialised across
\* replicas, so the table never outgrows its limit.
ImplementsContract == Contract!Spec

\* The documented promise that completed requests return the stored result: the
\* approval that completed a request, sent again, still matches the row.
CompletedMatchesItsApproval ==
    \A i \in Id : Signed(i) => rows[i].expires = approvals[i].expires
=============================================================================
