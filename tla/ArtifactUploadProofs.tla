------------------------ MODULE ArtifactUploadProofs ------------------------
(***************************************************************************)
(* Proofs about ArtifactUpload, for any uploads, workers, quotas, sizes,   *)
(* batch size, reservation lifetime and time.                              *)
(***************************************************************************)
EXTENDS ArtifactUpload, FiniteSetTheorems, TLAPS

-----------------------------------------------------------------------------
(* The inductive invariant *)

Busy(w) == ~At(w, "idle")

\* Before its reservation is committed.
Early == {"clean.read", "clean.objects", "clean.rows", "reserve", "reserve.insert"}

\* A request outlives neither its reservation nor what it may still undo.
OwnerOK(w) ==
    LET r == req[w]
    IN  Busy(w) =>
            /\ r.id \in used /\ r.size \in Size
            /\ r.t <= now /\ now < r.t + Ttl
            /\ reservations[r.id] \in {Null, [size |-> r.size, expires |-> r.t + Ttl]}
            /\ r.pc \in Early => r.id \notin Reserved \cup Stored \cup objects
            /\ r.pc \in {"put", "insert"} => r.id \in Reserved
            /\ r.pc = "put" => r.id \notin objects
            /\ r.pc = "insert" => r.id \in objects
            /\ r.pc = "undo" => r.id \in Reserved \cup lost
            /\ r.pc = "release" => r.id \notin objects \/ r.id \in lost

\* What a clean-up works on belongs to no running upload and to no artifact.
BatchOK(w) ==
    LET r == req[w]
    IN  /\ r.todo \subseteq r.batch /\ r.batch \subseteq used
        /\ r.pc # "clean.objects" => r.todo = {}
        /\ r.batch \cap (Stored \ lost) = {}
        /\ (r.batch \ r.todo) \cap objects = {}
        /\ \A v \in Worker : req[v].id \notin r.batch

\* While the provider row is locked, the sum of the artifact rows stays true.
LockOK ==
    /\ \A w \in Worker : At(w, "reserve.insert") => req[w].usage = ArtifactsUsage
    /\ \A v, w \in Worker : At(v, "reserve.insert") /\ At(w, "reserve.insert") => v = w

Distinct == \A v, w \in Worker : req[v].id = req[w].id => v = w \/ req[v].id = Null

\* A reservation and an artifact exclude each other, and both have an id in use.
RowsOK ==
    /\ Reserved \cap Stored = {}
    /\ Reserved \cup Stored \cup objects \subseteq used

Inductive ==
    /\ TypeOK /\ RowsMatchObjects /\ RowsOK /\ Distinct /\ LockOK
    /\ \A w \in Worker : OwnerOK(w) /\ BatchOK(w)
    /\ \A w \in Worker : At(w, "idle") => req[w] = Idle

-----------------------------------------------------------------------------
(* Bytes *)

LEMMA BytesFacts ==
    ASSUME NEW u, NEW size \in Nat
    PROVE  IsFiniteSet(Bytes(u, size)) /\ Cardinality(Bytes(u, size)) = size
<1>1. IsFiniteSet({u}) /\ Cardinality({u}) = 1
  BY FS_Singleton
<1>2. IsFiniteSet(1..size) /\ Cardinality(1..size) = size
  <2>1. 1 \in Int /\ size \in Int
    OBVIOUS
  <2>2. IsFiniteSet(1..size) /\ Cardinality(1..size) = IF 1 > size THEN 0 ELSE size - 1 + 1
    BY <2>1, FS_Interval
  <2>3. (IF 1 > size THEN 0 ELSE size - 1 + 1) = size
    OBVIOUS
  <2> QED BY <2>2, <2>3
<1>3. IsFiniteSet({u} \X (1..size)) /\ Cardinality({u} \X (1..size)) = size
  <2>1. PICK T : T = 1..size
    OBVIOUS
  <2>2. /\ IsFiniteSet({u} \X T)
        /\ Cardinality({u} \X T) = Cardinality({u}) * Cardinality(T)
    BY <1>1, <1>2, <2>1, FS_Product
  <2>3. 1 * size = size
    OBVIOUS
  <2> QED BY <1>1, <1>2, <2>1, <2>2, <2>3
<1> QED BY <1>3 DEF Bytes

\* The bytes of two uploads are different.
LEMMA BytesApart ==
    ASSUME NEW u, NEW v, u # v, NEW m, NEW n PROVE Bytes(u, m) \cap Bytes(v, n) = {}
BY DEF Bytes

\* Finitely many rows account for finitely many bytes.
LEMMA TotalFinite ==
    ASSUME NEW S, IsFiniteSet(S), NEW f \in [S -> Nat]
    PROVE  IsFiniteSet(UNION {Bytes(u, f[u]) : u \in S})
<1> DEFINE T == {Bytes(u, f[u]) : u \in S}
           g == [u \in S |-> Bytes(u, f[u])]
<1>1. g \in Surjection(S, T)
  BY DEF Surjection
<1>2. IsFiniteSet(T)
  <2> HIDE DEF g, T
  <2> QED BY <1>1, FS_Surjection
<1>3. \A t \in T : IsFiniteSet(t)
  BY BytesFacts
<1> HIDE DEF T
<1>4. IsFiniteSet(UNION T)
  BY <1>2, <1>3, FS_UNION
<1> QED BY <1>4 DEF T

\* The two tables.
LEMMA UsageFacts ==
    ASSUME TypeOK, NEW t
    PROVE  /\ IsFiniteSet(ArtifactBytes) /\ ArtifactsUsage \in Nat
           /\ IsFiniteSet(ReservedBytes(t)) /\ ReservationsUsage(t) \in Nat
<1>1. \A u \in Stored : artifacts[u] \in Nat
  BY BoundsAssumption DEF Stored, TypeOK
<1>2. \A u \in Reserved : reservations[u].size \in Nat
  BY BoundsAssumption DEF Reserved, TypeOK, Reservation
<1>3. IsFiniteSet(Stored) /\ IsFiniteSet(Reserved \ Expired(t))
  <2>1. Stored \in SUBSET Upload /\ Reserved \ Expired(t) \in SUBSET Upload
    BY DEF Stored, Reserved
  <2> QED BY <2>1, FS_Subset, BoundsAssumption
<1>4. IsFiniteSet(ArtifactBytes)
  <2> DEFINE f == [u \in Stored |-> artifacts[u]]
  <2>1. f \in [Stored -> Nat]
    BY <1>1
  <2>2. ArtifactBytes = UNION {Bytes(u, f[u]) : u \in Stored}
    BY DEF ArtifactBytes
  <2> HIDE DEF f
  <2> QED BY <1>3, <2>1, <2>2, TotalFinite
<1>5. IsFiniteSet(ReservedBytes(t))
  <2> DEFINE S == Reserved \ Expired(t)
             f == [u \in S |-> reservations[u].size]
  <2>1. f \in [S -> Nat]
    BY <1>2
  <2>2. ReservedBytes(t) = UNION {Bytes(u, f[u]) : u \in S}
    BY DEF ReservedBytes
  <2> HIDE DEF f, S
  <2> QED BY <1>3, <2>1, <2>2, TotalFinite DEF S
<1> QED BY <1>4, <1>5, FS_CardinalityType DEF ArtifactsUsage, ReservationsUsage

LEMMA ArtifactByte ==
    ASSUME NEW x PROVE x \in ArtifactBytes <=> \E u \in Stored : x \in Bytes(u, artifacts[u])
BY DEF ArtifactBytes

LEMMA ReservedByte ==
    ASSUME NEW t, NEW x
    PROVE  x \in ReservedBytes(t)
               <=> \E u \in Reserved \ Expired(t) : x \in Bytes(u, reservations[u].size)
BY DEF ReservedBytes

-----------------------------------------------------------------------------
(* Requests *)

LEMMA RequestFacts ==
    ASSUME TypeOK, NEW w \in Worker
    PROVE  /\ req[w] \in Request
           /\ req[w].pc \in Steps /\ req[w].id \in Upload \cup {Null}
           /\ req[w].size \in Size \cup {0} /\ req[w].t \in Time
           /\ req[w].batch \subseteq Upload /\ req[w].todo \subseteq Upload
           /\ req[w].usage \in Nat
BY DEF TypeOK, Request

LEMMA IdleFacts ==
    /\ Idle \in Request /\ Idle.pc = "idle" /\ Idle.id = Null
    /\ Idle.batch = {} /\ Idle.todo = {}
BY BoundsAssumption DEF Idle, Request, Steps, Time

\* A busy request has an upload, and it is the only one that has it.
LEMMA BusyFacts ==
    ASSUME Inductive, NEW w \in Worker, Busy(w)
    PROVE  /\ req[w].id \in Upload /\ req[w].id \in used /\ req[w].id # Null
           /\ req[w].size \in Size /\ req[w].size \in Nat
           /\ \A v \in Worker : v # w => req[v].id # req[w].id
           /\ \A v \in Worker : req[w].id \notin req[v].batch
<1>1. req[w].id \in used /\ req[w].size \in Size /\ used \subseteq Upload
  BY DEF Inductive, OwnerOK, TypeOK
<1>2. req[w].id # Null
  BY <1>1, NullAssumption
<1> QED BY <1>1, <1>2, BoundsAssumption DEF Inductive, Distinct, BatchOK

\* A request works with a time that has passed.
LEMMA TimeFacts ==
    ASSUME Inductive, NEW w \in Worker, Busy(w)
    PROVE  /\ req[w].t \in Nat /\ req[w].t <= now /\ now \in 0..MaxTime /\ now \in Nat
           /\ now < req[w].t + Ttl
<1>1. req[w].t \in Time /\ now \in 0..MaxTime
  BY RequestFacts DEF Inductive, TypeOK
<1>2. req[w].t <= now /\ now < req[w].t + Ttl
  BY DEF Inductive, OwnerOK
<1> QED BY <1>1, <1>2, BoundsAssumption DEF Time

\* No running upload's reservation has expired for any clean-up.
LEMMA NotExpired ==
    ASSUME Inductive, NEW v \in Worker, Busy(v), NEW t \in Nat, t <= now
    PROVE  req[v].id \notin Expired(t)
<1>1. /\ reservations[req[v].id] \in {Null, [size |-> req[v].size, expires |-> req[v].t + Ttl]}
      /\ now < req[v].t + Ttl
  BY DEF Inductive, OwnerOK
<1>2. PICK e \in Nat, n \in Nat : e = req[v].t + Ttl /\ n = now
  <2>1. req[v].t \in Nat /\ now \in Nat
    BY TimeFacts
  <2> QED BY <2>1, BoundsAssumption
<1>3. ~(e <= t)
  BY <1>1, <1>2
<1> QED BY <1>1, <1>2, <1>3 DEF Expired, Reserved

-----------------------------------------------------------------------------
(* What a step of one request leaves alone *)

\* Nothing about upload u changes.
Steady(u) ==
    /\ reservations'[u] = reservations[u] /\ artifacts'[u] = artifacts[u]
    /\ u \in objects' <=> u \in objects

\* No object appears, and no row, for what a clean-up works on.
BatchesSteady ==
    \A v \in Worker : \A u \in req[v].batch :
        artifacts'[u] = artifacts[u] /\ (u \in objects' => u \in objects)

\* What a request's step keeps typed.
TablesTyped ==
    /\ UNCHANGED <<active, quota, now>>
    /\ used \subseteq used' /\ used' \subseteq Upload
    /\ lost \subseteq lost' /\ lost' \subseteq Upload
    /\ objects' \subseteq Upload
    /\ reservations' \in [Upload -> Reservation \cup {Null}]
    /\ artifacts' \in [Upload -> Size \cup {Null}]

\* A step of w that touches no other running upload, and no batch, keeps what the
\* invariant says of the others.
LEMMA Others ==
    ASSUME Inductive, NEW w \in Worker, NEW n \in Request, Become(w, n), TablesTyped,
           n.id \in used => n.id = req[w].id,
           \A v \in Worker : v # w /\ Busy(v) => Steady(req[v].id),
           BatchesSteady
    PROVE  /\ TypeOK' /\ Distinct'
           /\ req'[w] = n
           /\ \A v \in Worker : v # w =>
                  /\ req'[v] = req[v]
                  /\ OwnerOK(v)' /\ BatchOK(v)'
                  /\ (At(v, "idle") => req[v] = Idle)'
<1>1. req' = [req EXCEPT ![w] = n] /\ req \in [Worker -> Request]
  BY DEF Become, Inductive, TypeOK
<1>2. req'[w] = n /\ \A v \in Worker : v # w => req'[v] = req[v]
  BY <1>1
<1>3. TypeOK'
  BY <1>1 DEF Inductive, TypeOK, TablesTyped
<1>4. \A v \in Worker : req[v].id # Null => Busy(v) /\ req[v].id \in used
  BY IdleFacts DEF Inductive, OwnerOK, Busy, At
<1>5. Distinct'
  <2> SUFFICES ASSUME NEW v \in Worker, NEW x \in Worker, req'[v].id = req'[x].id, v # x,
                      req'[v].id # Null
               PROVE  FALSE
    BY DEF Distinct
  <2>1. CASE v = w
    <3>1. n.id = req[x].id /\ req[x].id # Null
      BY <1>2, <2>1
    <3>2. req[w].id = req[x].id
      BY <1>4, <3>1
    <3> QED BY <2>1, <3>1, <3>2 DEF Inductive, Distinct
  <2>2. CASE x = w
    <3>1. n.id = req[v].id /\ req[v].id # Null
      BY <1>2, <2>2
    <3>2. req[w].id = req[v].id
      BY <1>4, <3>1
    <3> QED BY <2>2, <3>1, <3>2 DEF Inductive, Distinct
  <2>3. CASE v # w /\ x # w
    BY <1>2, <2>3 DEF Inductive, Distinct
  <2> QED BY <2>1, <2>2, <2>3
<1>6. ASSUME NEW v \in Worker, v # w PROVE OwnerOK(v)'
  <2>1. req'[v] = req[v] /\ now' = now
    BY <1>2, <1>6 DEF TablesTyped
  <2> SUFFICES ASSUME Busy(v) PROVE OwnerOK(v)'
    BY <2>1 DEF OwnerOK, Busy, At
  <2>2. Steady(req[v].id) /\ req[v].id \in Upload
    BY <1>6, BusyFacts
  <2>3. /\ req[v].id \in Reserved' <=> req[v].id \in Reserved
        /\ req[v].id \in Stored' <=> req[v].id \in Stored
        /\ req[v].id \in objects' <=> req[v].id \in objects
        /\ req[v].id \in used => req[v].id \in used'
        /\ req[v].id \in lost => req[v].id \in lost'
        /\ reservations'[req[v].id] = reservations[req[v].id]
    BY <2>2 DEF Steady, Reserved, Stored, TablesTyped
  <2>4. OwnerOK(v)
    BY DEF Inductive
  <2> QED BY <2>1, <2>3, <2>4 DEF OwnerOK, Early
<1>7. ASSUME NEW v \in Worker, v # w PROVE BatchOK(v)'
  <2>1. req'[v] = req[v]
    BY <1>2, <1>7
  <2>2. BatchOK(v) /\ req[v].batch \subseteq used /\ req[v].batch \subseteq Upload
    BY RequestFacts DEF Inductive, BatchOK
  <2>3. \A u \in req[v].batch : /\ u \in Stored' <=> u \in Stored
                                /\ u \in objects' => u \in objects
                                /\ u \in lost => u \in lost'
                                /\ u \in used'
    BY <2>2 DEF BatchesSteady, Stored, TablesTyped
  <2>4. \A x \in Worker : req'[x].id \notin req[v].batch
    <3> SUFFICES ASSUME NEW x \in Worker, req'[x].id \in req[v].batch PROVE FALSE
      OBVIOUS
    <3>1. CASE x # w
      BY <1>2, <2>2, <3>1 DEF BatchOK
    <3>2. CASE x = w
      BY <1>2, <2>2, <3>2 DEF BatchOK
    <3> QED BY <3>1, <3>2
  <2> QED BY <2>1, <2>2, <2>3, <2>4 DEF BatchOK
<1>8. ASSUME NEW v \in Worker, v # w PROVE (At(v, "idle") => req[v] = Idle)'
  BY <1>2, <1>8 DEF Inductive, At, Idle
<1> QED BY <1>2, <1>3, <1>5, <1>6, <1>7, <1>8

\* A step that only moves w on.
LEMMA OnlyRequest ==
    ASSUME Inductive, UNCHANGED <<active, quota, reservations, artifacts, objects, now, lost>>,
           used \subseteq used', used' \subseteq Upload
    PROVE  /\ TablesTyped /\ BatchesSteady /\ \A u : Steady(u)
           /\ Reserved' = Reserved /\ Stored' = Stored
           /\ RowsMatchObjects' /\ RowsOK'
<1>1. TablesTyped
  BY DEF TablesTyped, Inductive, TypeOK
<1>2. BatchesSteady /\ \A u : Steady(u)
  BY DEF BatchesSteady, Steady
<1>3. Reserved' = Reserved /\ Stored' = Stored
  BY DEF Reserved, Stored
<1>4. RowsMatchObjects' /\ RowsOK'
  BY <1>3 DEF Inductive, RowsMatchObjects, RowsOK
<1> QED BY <1>1, <1>2, <1>3, <1>4

\* Without a new artifact row, what the holder of the lock has summed stays true.
LEMMA LockKept ==
    ASSUME Inductive, NEW w \in Worker, NEW n, Become(w, n), n.pc # "reserve.insert",
           artifacts' = artifacts \/ ~ProviderLocked
    PROVE  LockOK'
<1>1. req' = [req EXCEPT ![w] = n] /\ req \in [Worker -> Request]
  BY DEF Become, Inductive, TypeOK
<1>2. \A v \in Worker : At(v, "reserve.insert")' =>
          req'[v] = req[v] /\ At(v, "reserve.insert") /\ ProviderLocked
  BY <1>1 DEF At, ProviderLocked
<1>3. artifacts' = artifacts => ArtifactsUsage' = ArtifactsUsage
  BY DEF ArtifactsUsage, ArtifactBytes, Stored
<1> QED BY <1>2, <1>3 DEF LockOK, Inductive

\* A request that has ended owns nothing.
LEMMA EndedFacts ==
    ASSUME NEW w \in Worker, req'[w] = Idle
    PROVE  OwnerOK(w)' /\ BatchOK(w)' /\ (At(w, "idle") => req[w] = Idle)'
<1>1. OwnerOK(w)'
  BY IdleFacts DEF OwnerOK, Busy, At
<1>2. BatchOK(w)'
  BY IdleFacts DEF BatchOK
<1>3. (At(w, "idle") => req[w] = Idle)'
  BY DEF Idle
<1> QED BY <1>1, <1>2, <1>3

-----------------------------------------------------------------------------
(* The steps of an upload *)

LEMMA InitInductive == Init => Inductive
<1> SUFFICES ASSUME Init PROVE Inductive
  OBVIOUS
<1>1. TypeOK
  BY IdleFacts, BoundsAssumption DEF Init, TypeOK
<1>2. Reserved = {} /\ Stored = {} /\ objects = {}
  BY DEF Init, Reserved, Stored
<1>3. \A w \in Worker : req[w] = Idle
  BY DEF Init
<1>4. RowsMatchObjects /\ RowsOK
  BY <1>2 DEF RowsMatchObjects, RowsOK
<1>5. Distinct /\ LockOK
  BY <1>3, IdleFacts DEF Distinct, LockOK, At
<1>6. \A w \in Worker : OwnerOK(w) /\ BatchOK(w)
  BY <1>3, IdleFacts DEF OwnerOK, BatchOK, Busy, At
<1> QED BY <1>1, <1>3, <1>4, <1>5, <1>6 DEF Inductive

LEMMA StopStep == ASSUME Inductive, NEW w \in Worker, Stop(w) PROVE Inductive'
<1>1. /\ Become(w, Idle)
      /\ UNCHANGED <<active, quota, reservations, artifacts, objects, now, used, lost>>
  BY DEF Stop, Finish
<1>2. TablesTyped /\ BatchesSteady /\ (\A u : Steady(u)) /\ RowsMatchObjects' /\ RowsOK'
  BY <1>1, OnlyRequest DEF Inductive, TypeOK
<1>3. Idle.id \notin used
  BY IdleFacts, NullAssumption DEF Inductive, TypeOK
<1>4. /\ TypeOK' /\ Distinct' /\ req'[w] = Idle
      /\ \A v \in Worker : v # w =>
             OwnerOK(v)' /\ BatchOK(v)' /\ (At(v, "idle") => req[v] = Idle)'
  BY <1>1, <1>2, <1>3, IdleFacts, Others
<1>5. LockOK'
  BY <1>1, IdleFacts, LockKept
<1> QED BY <1>2, <1>4, <1>5, EndedFacts DEF Inductive

LEMMA BeginStep == ASSUME Inductive, NEW w \in Worker, Begin(w) PROVE Inductive'
<1>1. PICK u \in Upload, size \in Size :
          /\ u \notin used /\ used' = used \cup {u}
          /\ Become(w, [Idle EXCEPT !.pc = "clean.read", !.id = u, !.size = size, !.t = now])
  BY DEF Begin
<1> DEFINE n == [Idle EXCEPT !.pc = "clean.read", !.id = u, !.size = size, !.t = now]
<1>2. /\ n \in Request /\ n.pc = "clean.read" /\ n.id = u /\ n.size = size /\ n.t = now
      /\ n.batch = {} /\ n.todo = {}
  <2>1. now \in Time
    BY BoundsAssumption DEF Inductive, TypeOK, Time
  <2> QED BY <2>1, IdleFacts DEF Idle, Request, Steps
<1>3. Become(w, n) /\ UNCHANGED <<active, quota, reservations, artifacts, objects, now, lost>>
  BY <1>1 DEF Begin
<1> HIDE DEF n
<1>4. /\ TablesTyped /\ BatchesSteady /\ (\A x : Steady(x)) /\ RowsMatchObjects' /\ RowsOK'
      /\ Reserved' = Reserved /\ Stored' = Stored
  BY <1>1, <1>3, OnlyRequest DEF Inductive, TypeOK
<1>5. /\ TypeOK' /\ Distinct' /\ req'[w] = n
      /\ \A v \in Worker : v # w =>
             OwnerOK(v)' /\ BatchOK(v)' /\ (At(v, "idle") => req[v] = Idle)'
  BY <1>1, <1>2, <1>3, <1>4, Others
<1>6. LockOK'
  BY <1>2, <1>3, LockKept
<1>7. OwnerOK(w)'
  <2>1. u \notin Reserved /\ u \notin Stored /\ u \notin objects
    BY <1>1 DEF Inductive, RowsOK
  <2>2. reservations'[u] = Null
    BY <1>3, <2>1 DEF Reserved
  <2>3. now \in Nat /\ now <= now /\ now < now + Ttl
    BY BoundsAssumption DEF Inductive, TypeOK
  <2> QED BY <1>1, <1>2, <1>3, <1>4, <1>5, <2>1, <2>2, <2>3 DEF OwnerOK
<1>8. BatchOK(w)' /\ ~At(w, "idle")'
  BY <1>2, <1>5 DEF BatchOK, At
<1> QED BY <1>4, <1>5, <1>6, <1>7, <1>8 DEF Inductive

\* A request that moves on keeps what it has read for its clean-up.
LEMMA BatchMoved ==
    ASSUME Inductive, NEW w \in Worker, NEW n, req'[w] = n,
           \A v \in Worker : v # w => req'[v] = req[v],
           n.batch = req[w].batch, n.todo = req[w].todo, n.id = req[w].id,
           req[w].pc # "clean.objects", TablesTyped, BatchesSteady
    PROVE  BatchOK(w)'
<1>1. BatchOK(w) /\ req[w].batch \subseteq used /\ req[w].batch \subseteq Upload
  BY RequestFacts DEF Inductive, BatchOK
<1>2. \A u \in req[w].batch : /\ u \in Stored' <=> u \in Stored
                              /\ u \in objects' => u \in objects
                              /\ u \in lost => u \in lost'
                              /\ u \in used'
  BY <1>1 DEF BatchesSteady, Stored, TablesTyped
<1>3. \A v \in Worker : req'[v].id = req[v].id
  OBVIOUS
<1> QED BY <1>1, <1>2, <1>3 DEF BatchOK

\* A step that touches nothing but the request's own upload.
LEMMA OwnStep ==
    ASSUME Inductive, NEW w \in Worker, Busy(w), NEW n \in Request, Become(w, n), TablesTyped,
           n.id \in {req[w].id, Null},
           \A u \in Upload : u # req[w].id => Steady(u),
           ~(reservations'[req[w].id] # Null /\ artifacts'[req[w].id] # Null),
           artifacts'[req[w].id] # Null => req[w].id \in objects' \cup lost',
           req[w].id \in objects' => \/ reservations'[req[w].id] # Null
                                     \/ artifacts'[req[w].id] # Null
                                     \/ req[w].id \in lost'
    PROVE  /\ TypeOK' /\ Distinct' /\ RowsMatchObjects' /\ RowsOK'
           /\ req'[w] = n /\ BatchesSteady
           /\ \A v \in Worker : v # w =>
                  /\ req'[v] = req[v]
                  /\ OwnerOK(v)' /\ BatchOK(v)'
                  /\ (At(v, "idle") => req[v] = Idle)'
<1>1. PICK i \in Upload : i = req[w].id /\ i \in used
  BY BusyFacts
<1>2. \A v \in Worker : v # w /\ Busy(v) => Steady(req[v].id)
  BY BusyFacts
<1>3. \A v \in Worker : req[v].batch \subseteq Upload /\ req[w].id \notin req[v].batch
  BY BusyFacts, RequestFacts DEF Inductive
<1>4. BatchesSteady
  BY <1>3 DEF BatchesSteady, Steady
<1>5. n.id \in used => n.id = req[w].id
  BY NullAssumption DEF Inductive, TypeOK
<1>6. \A u \in Upload : u # i =>
          /\ u \in Reserved' <=> u \in Reserved
          /\ u \in Stored' <=> u \in Stored
          /\ u \in objects' <=> u \in objects
          /\ u \in lost => u \in lost'
          /\ u \in used => u \in used'
  BY <1>1 DEF Steady, Reserved, Stored, TablesTyped
<1>7. /\ i \in Reserved' <=> reservations'[i] # Null
      /\ i \in Stored' <=> artifacts'[i] # Null
  BY DEF Reserved, Stored
<1>8. i \in used' /\ objects' \subseteq Upload /\ Reserved' \subseteq Upload /\ Stored' \subseteq Upload
  BY <1>1 DEF TablesTyped, Reserved, Stored
<1>9. RowsMatchObjects'
  BY <1>1, <1>6, <1>7, <1>8 DEF Inductive, RowsMatchObjects
<1>10. RowsOK'
  BY <1>1, <1>6, <1>7, <1>8 DEF Inductive, RowsOK
<1> QED BY <1>2, <1>4, <1>5, <1>9, <1>10, Others

LEMMA ReserveInsertStep ==
    ASSUME Inductive, NEW w \in Worker, ReserveInsert(w) PROVE Inductive'
<1>1. PICK i \in Upload : i = req[w].id /\ req[w].size \in Size /\ Busy(w)
  <2>1. Busy(w)
    BY DEF ReserveInsert, At, Busy
  <2> QED BY <2>1, BusyFacts
<1> DEFINE n == [req[w] EXCEPT !.pc = "put"]
           row == [size |-> req[w].size, expires |-> req[w].t + Ttl]
<1>2. /\ n \in Request /\ n.pc = "put" /\ n.id = i /\ n.size = req[w].size /\ n.t = req[w].t
      /\ n.batch = req[w].batch /\ n.todo = req[w].todo
  BY <1>1, RequestFacts DEF Inductive, Request, Steps
<1>3. row \in Reservation
  <2>1. /\ req[w].t \in Nat /\ req[w].t <= now /\ now \in 0..MaxTime
    BY <1>1, TimeFacts
  <2>2. req[w].t + Ttl \in Time
    BY <2>1, BoundsAssumption DEF Time
  <2> QED BY <1>1, <2>2 DEF Reservation
<1>4. row # Null
  BY <1>3, NullAssumption
<1>5. /\ Become(w, n) /\ reservations' = [reservations EXCEPT ![i] = row]
      /\ UNCHANGED <<active, quota, artifacts, objects, now, used, lost>>
      /\ req[w].pc = "reserve.insert"
  BY <1>1 DEF ReserveInsert, Goto, At
<1> HIDE DEF n, row
<1>6. /\ reservations \in [Upload -> Reservation \cup {Null}]
      /\ reservations' \in [Upload -> Reservation \cup {Null}]
      /\ reservations'[i] = row /\ \A u \in Upload : u # i => reservations'[u] = reservations[u]
  BY <1>3, <1>5 DEF Inductive, TypeOK
<1>7. TablesTyped
  BY <1>5, <1>6 DEF TablesTyped, Inductive, TypeOK
<1>8. i \notin Reserved /\ i \notin Stored /\ i \notin objects
  BY <1>1, <1>5 DEF Inductive, OwnerOK, Early
<1>9. artifacts'[i] = Null
  BY <1>5, <1>8 DEF Stored
<1>10. /\ TypeOK' /\ Distinct' /\ RowsMatchObjects' /\ RowsOK'
       /\ req'[w] = n /\ BatchesSteady
       /\ \A v \in Worker : v # w =>
              /\ req'[v] = req[v] /\ OwnerOK(v)' /\ BatchOK(v)'
              /\ (At(v, "idle") => req[v] = Idle)'
  <2>1. \A u \in Upload : u # i => Steady(u)
    BY <1>5, <1>6 DEF Steady
  <2> QED BY <1>1, <1>2, <1>5, <1>7, <1>8, <1>9, <2>1, OwnStep
<1>11. LockOK'
  BY <1>2, <1>5, LockKept
<1>12. OwnerOK(w)'
  <2>1. /\ i \in used /\ req[w].t <= now /\ now < req[w].t + Ttl
    BY <1>1 DEF Inductive, OwnerOK
  <2>2. i \in Reserved'
    BY <1>4, <1>6 DEF Reserved
  <2> QED BY <1>1, <1>2, <1>5, <1>6, <1>8, <1>10, <2>1, <2>2 DEF OwnerOK, Early, row
<1>13. BatchOK(w)'
  BY <1>1, <1>2, <1>5, <1>7, <1>10, BatchMoved
<1>14. ~At(w, "idle")'
  BY <1>2, <1>10 DEF At
<1> QED BY <1>10, <1>11, <1>12, <1>13, <1>14 DEF Inductive

\* A request that only goes on.
LEMMA GoneOn ==
    ASSUME Inductive, NEW w \in Worker, NEW step \in Steps
    PROVE  LET n == [req[w] EXCEPT !.pc = step]
           IN  /\ n \in Request /\ n.pc = step /\ n.id = req[w].id /\ n.size = req[w].size
               /\ n.t = req[w].t /\ n.batch = req[w].batch /\ n.todo = req[w].todo
BY RequestFacts DEF Inductive, Request

LEMMA PutStep == ASSUME Inductive, NEW w \in Worker, Put(w) PROVE Inductive'
<1>1. PICK i \in Upload : i = req[w].id /\ Busy(w) /\ i \in used
  <2>1. Busy(w)
    BY DEF Put, At, Busy
  <2> QED BY <2>1, BusyFacts
<1>2. PICK step \in {"insert", "release"} :
          /\ Goto(w, step) /\ lost \subseteq lost' /\ lost' \subseteq lost \cup {i}
          /\ objects \subseteq objects' /\ objects' \subseteq objects \cup {i}
          /\ step = "insert" => i \in objects'
          /\ step = "release" => i \notin objects' \/ i \in lost'
  <2>1. i \notin objects
    BY <1>1 DEF Put, At, Inductive, OwnerOK
  <2> QED BY <1>1, <2>1 DEF Put
<1> DEFINE n == [req[w] EXCEPT !.pc = step]
<1>3. /\ n \in Request /\ n.pc = step /\ n.id = req[w].id /\ n.size = req[w].size
      /\ n.t = req[w].t /\ n.batch = req[w].batch /\ n.todo = req[w].todo
  <2>1. step \in Steps
    BY DEF Steps
  <2> QED BY <2>1, GoneOn
<1>4. /\ Become(w, n) /\ UNCHANGED <<active, quota, reservations, artifacts, now, used>>
      /\ req[w].pc = "put"
  BY <1>2 DEF Put, Goto, At
<1> HIDE DEF n
<1>5. TablesTyped
  BY <1>1, <1>2, <1>4 DEF TablesTyped, Inductive, TypeOK
<1>6. i \in Reserved /\ i \notin Stored /\ reservations[i] # Null /\ artifacts[i] = Null
  BY <1>1, <1>4 DEF Inductive, OwnerOK, RowsOK, Reserved, Stored
<1>7. /\ TypeOK' /\ Distinct' /\ RowsMatchObjects' /\ RowsOK'
      /\ req'[w] = n /\ BatchesSteady
      /\ \A v \in Worker : v # w =>
             /\ req'[v] = req[v] /\ OwnerOK(v)' /\ BatchOK(v)'
             /\ (At(v, "idle") => req[v] = Idle)'
  <2>1. \A u \in Upload : u # i => Steady(u)
    BY <1>2, <1>4 DEF Steady
  <2> QED BY <1>1, <1>3, <1>4, <1>5, <1>6, <2>1, OwnStep
<1>8. LockOK'
  BY <1>2, <1>3, <1>4, LockKept
<1>9. OwnerOK(w)'
  <2>1. /\ i \in used /\ req[w].t <= now /\ now < req[w].t + Ttl /\ req[w].size \in Size
        /\ reservations[i] \in {Null, [size |-> req[w].size, expires |-> req[w].t + Ttl]}
    BY <1>1 DEF Inductive, OwnerOK
  <2>2. Reserved' = Reserved
    BY <1>4 DEF Reserved
  <2> QED BY <1>1, <1>2, <1>3, <1>4, <1>6, <1>7, <2>1, <2>2 DEF OwnerOK, Early
<1>10. BatchOK(w)'
  BY <1>3, <1>4, <1>5, <1>7, BatchMoved
<1>11. ~At(w, "idle")'
  BY <1>2, <1>3, <1>7 DEF At
<1> QED BY <1>7, <1>8, <1>9, <1>10, <1>11 DEF Inductive

\* The commit, when it happens, is the whole of what the tables show of it.
LEMMA InsertStep == ASSUME Inductive, NEW w \in Worker, Insert(w) PROVE Inductive'
<1>1. PICK i \in Upload : i = req[w].id /\ Busy(w) /\ i \in used /\ req[w].size \in Size
  <2>1. Busy(w)
    BY DEF Insert, At, Busy
  <2> QED BY <2>1, BusyFacts
<1>2. i \in Reserved /\ i \notin Stored /\ i \in objects /\ reservations[i] # Null /\ artifacts[i] = Null
  BY <1>1 DEF Insert, At, Inductive, OwnerOK, RowsOK, Reserved, Stored
<1>3. PICK n \in {Idle, [req[w] EXCEPT !.pc = "undo"]} :
          /\ Become(w, n) /\ lost \subseteq lost' /\ lost' \subseteq lost \cup {i}
          /\ \/ UNCHANGED <<artifacts, reservations>>
             \/ /\ artifacts' = [artifacts EXCEPT ![i] = req[w].size]
                /\ reservations' = [reservations EXCEPT ![i] = Null]
                /\ n = Idle \/ i \in lost'
  BY <1>1 DEF Insert, Finish, Goto
<1>4. UNCHANGED <<active, quota, objects, now, used>> /\ req[w].pc = "insert" /\ ~ProviderLocked
  BY DEF Insert, At
<1>5. /\ n \in Request /\ n.id \in {i, Null} /\ n.pc # "reserve.insert"
      /\ n = Idle \/ (/\ n.pc = "undo" /\ n.id = i /\ n.size = req[w].size
                      /\ n.t = req[w].t /\ n.batch = req[w].batch /\ n.todo = req[w].todo)
  <2>1. "undo" \in Steps
    BY DEF Steps
  <2>2. CASE n = Idle
    BY <2>2, IdleFacts
  <2>3. CASE n = [req[w] EXCEPT !.pc = "undo"]
    BY <1>1, <2>1, <2>3, GoneOn
  <2> QED BY <2>2, <2>3
<1>6. /\ reservations \in [Upload -> Reservation \cup {Null}]
      /\ artifacts \in [Upload -> Size \cup {Null}]
  BY DEF Inductive, TypeOK
<1>7. /\ reservations' \in [Upload -> Reservation \cup {Null}]
      /\ artifacts' \in [Upload -> Size \cup {Null}]
      /\ \A u \in Upload : u # i => reservations'[u] = reservations[u] /\ artifacts'[u] = artifacts[u]
      /\ \/ reservations'[i] = reservations[i] /\ artifacts'[i] = Null
         \/ reservations'[i] = Null /\ (n = Idle \/ i \in lost')
  BY <1>1, <1>2, <1>3, <1>6
<1>8. TablesTyped
  BY <1>1, <1>3, <1>4, <1>7 DEF TablesTyped, Inductive, TypeOK
<1>9. /\ TypeOK' /\ Distinct' /\ RowsMatchObjects' /\ RowsOK'
      /\ req'[w] = n /\ BatchesSteady
      /\ \A v \in Worker : v # w =>
             /\ req'[v] = req[v] /\ OwnerOK(v)' /\ BatchOK(v)'
             /\ (At(v, "idle") => req[v] = Idle)'
  <2>1. \A u \in Upload : u # i => Steady(u)
    BY <1>4, <1>7 DEF Steady
  <2>2. ~(reservations'[i] # Null /\ artifacts'[i] # Null) /\ i \in objects'
    BY <1>2, <1>4, <1>7
  <2>3. reservations'[i] # Null \/ artifacts'[i] # Null
    <3>1. CASE UNCHANGED <<artifacts, reservations>>
      BY <1>2, <3>1
    <3>2. CASE artifacts' = [artifacts EXCEPT ![i] = req[w].size]
      BY <1>1, <1>6, <3>2, NullAssumption
    <3> QED BY <1>3, <3>1, <3>2
  <2> QED BY <1>1, <1>3, <1>5, <1>8, <2>1, <2>2, <2>3, OwnStep
<1>10. LockOK'
  BY <1>3, <1>4, <1>5, LockKept
<1>11. CASE n = Idle
  BY <1>9, <1>10, <1>11, EndedFacts DEF Inductive
<1>12. CASE n # Idle
  <2>1. OwnerOK(w)'
    <3>1. /\ i \in used /\ req[w].t <= now /\ now < req[w].t + Ttl /\ req[w].size \in Size
          /\ reservations[i] \in {Null, [size |-> req[w].size, expires |-> req[w].t + Ttl]}
      BY <1>1 DEF Inductive, OwnerOK
    <3>2. reservations'[i] \in {Null, [size |-> req[w].size, expires |-> req[w].t + Ttl]}
      BY <1>7, <3>1
    <3>3. i \in Reserved' \cup lost'
      BY <1>2, <1>7, <1>12 DEF Reserved
    <3> QED BY <1>4, <1>5, <1>9, <1>12, <3>1, <3>2, <3>3 DEF OwnerOK, Early
  <2>2. BatchOK(w)'
    BY <1>1, <1>4, <1>5, <1>8, <1>9, <1>12, BatchMoved
  <2>3. ~At(w, "idle")'
    BY <1>5, <1>9, <1>12 DEF At
  <2> QED BY <1>9, <1>10, <2>1, <2>2, <2>3 DEF Inductive
<1> QED BY <1>11, <1>12

LEMMA UndoStep == ASSUME Inductive, NEW w \in Worker, Undo(w) PROVE Inductive'
<1>1. PICK i \in Upload : i = req[w].id /\ Busy(w) /\ i \in used
  <2>1. Busy(w)
    BY DEF Undo, At, Busy
  <2> QED BY <2>1, BusyFacts
<1>2. artifacts[i] # Null => i \in lost
  BY <1>1 DEF Undo, At, Inductive, OwnerOK, RowsOK, Reserved, Stored
<1>3. PICK n \in {Idle, [req[w] EXCEPT !.pc = "release"]} :
          /\ Become(w, n)
          /\ \/ objects' = objects /\ n = Idle
             \/ objects' = objects \ {i}
  BY <1>1 DEF Undo, Finish, Goto
<1>4. /\ UNCHANGED <<active, quota, reservations, artifacts, now, used, lost>>
      /\ req[w].pc = "undo"
  BY DEF Undo, At
<1>5. /\ n \in Request /\ n.id \in {i, Null} /\ n.pc # "reserve.insert"
      /\ n = Idle \/ (/\ n.pc = "release" /\ n.id = i /\ n.size = req[w].size
                      /\ n.t = req[w].t /\ n.batch = req[w].batch /\ n.todo = req[w].todo)
  <2>1. "release" \in Steps
    BY DEF Steps
  <2>2. CASE n = Idle
    BY <2>2, IdleFacts
  <2>3. CASE n = [req[w] EXCEPT !.pc = "release"]
    BY <1>1, <2>1, <2>3, GoneOn
  <2> QED BY <2>2, <2>3
<1>6. TablesTyped
  BY <1>3, <1>4 DEF TablesTyped, Inductive, TypeOK
<1>7. /\ TypeOK' /\ Distinct' /\ RowsMatchObjects' /\ RowsOK'
      /\ req'[w] = n /\ BatchesSteady
      /\ \A v \in Worker : v # w =>
             /\ req'[v] = req[v] /\ OwnerOK(v)' /\ BatchOK(v)'
             /\ (At(v, "idle") => req[v] = Idle)'
  <2>1. \A u \in Upload : u # i => Steady(u)
    BY <1>3, <1>4 DEF Steady
  <2>2. ~(reservations'[i] # Null /\ artifacts'[i] # Null)
    BY <1>4 DEF Inductive, RowsOK, Reserved, Stored
  <2>3. i \in objects' => reservations'[i] # Null \/ artifacts'[i] # Null \/ i \in lost'
    BY <1>3, <1>4 DEF Inductive, RowsMatchObjects, Reserved, Stored
  <2> QED BY <1>1, <1>2, <1>3, <1>4, <1>5, <1>6, <2>1, <2>2, <2>3, OwnStep
<1>8. LockOK'
  BY <1>3, <1>4, <1>5, LockKept
<1>9. CASE n = Idle
  BY <1>7, <1>8, <1>9, EndedFacts DEF Inductive
<1>10. CASE n # Idle
  <2>1. OwnerOK(w)'
    <3>1. /\ i \in used /\ req[w].t <= now /\ now < req[w].t + Ttl /\ req[w].size \in Size
          /\ reservations[i] \in {Null, [size |-> req[w].size, expires |-> req[w].t + Ttl]}
      BY <1>1 DEF Inductive, OwnerOK
    <3> QED BY <1>3, <1>4, <1>5, <1>7, <1>10, <3>1 DEF OwnerOK, Early
  <2>2. BatchOK(w)'
    BY <1>1, <1>4, <1>5, <1>6, <1>7, <1>10, BatchMoved
  <2>3. ~At(w, "idle")'
    BY <1>5, <1>7, <1>10 DEF At
  <2> QED BY <1>7, <1>8, <2>1, <2>2, <2>3 DEF Inductive
<1> QED BY <1>9, <1>10

LEMMA ReleaseStep == ASSUME Inductive, NEW w \in Worker, Release(w) PROVE Inductive'
<1>1. PICK i \in Upload : i = req[w].id /\ Busy(w) /\ i \in used
  <2>1. Busy(w)
    BY DEF Release, At, Busy
  <2> QED BY <2>1, BusyFacts
<1>2. /\ Become(w, Idle) /\ UNCHANGED <<active, quota, artifacts, objects, now, used, lost>>
      /\ \/ reservations' = [reservations EXCEPT ![i] = Null]
         \/ UNCHANGED reservations
  BY <1>1 DEF Release, Finish
<1>3. /\ reservations' \in [Upload -> Reservation \cup {Null}]
      /\ reservations'[i] \in {reservations[i], Null}
      /\ \A u \in Upload : u # i => reservations'[u] = reservations[u]
  BY <1>2 DEF Inductive, TypeOK
<1>4. TablesTyped
  BY <1>2, <1>3 DEF TablesTyped, Inductive, TypeOK
<1>5. /\ TypeOK' /\ Distinct' /\ RowsMatchObjects' /\ RowsOK' /\ req'[w] = Idle
      /\ \A v \in Worker : v # w =>
             OwnerOK(v)' /\ BatchOK(v)' /\ (At(v, "idle") => req[v] = Idle)'
  <2>1. \A u \in Upload : u # i => Steady(u)
    BY <1>2, <1>3 DEF Steady
  <2>2. ~(reservations'[i] # Null /\ artifacts'[i] # Null)
    BY <1>2, <1>3 DEF Inductive, RowsOK, Reserved, Stored
  <2>3. i \in objects' => i \in lost'
    BY <1>1, <1>2 DEF Release, At, Inductive, OwnerOK
  <2>4. artifacts'[i] # Null => i \in objects' \cup lost'
    BY <1>2 DEF Inductive, RowsMatchObjects, Stored
  <2> QED BY <1>1, <1>2, <1>4, <2>1, <2>2, <2>3, <2>4, IdleFacts, OwnStep
<1>6. LockOK'
  BY <1>2, IdleFacts, LockKept
<1> QED BY <1>5, <1>6, EndedFacts DEF Inductive

\* A request that has not reserved its quota yet stays as it is while it moves on.
LEMMA EarlyKept ==
    ASSUME Inductive, NEW w \in Worker, Busy(w), req[w].pc \in Early, NEW n, req'[w] = n,
           n.pc \in Early, n.id = req[w].id, n.size = req[w].size, n.t \in {req[w].t, now},
           now' = now, used' = used, Steady(req[w].id)
    PROVE  OwnerOK(w)' /\ ~At(w, "idle")'
<1>1. PICK i \in Upload : i = req[w].id /\ i \in used /\ req[w].size \in Size
  BY BusyFacts
<1>2. i \notin Reserved /\ i \notin Stored /\ i \notin objects
  BY <1>1 DEF Inductive, OwnerOK
<1>3. i \notin Reserved' /\ i \notin Stored' /\ i \notin objects' /\ reservations'[i] = Null
  BY <1>1, <1>2 DEF Steady, Reserved, Stored
<1>4. n.t <= now /\ now < n.t + Ttl
  BY TimeFacts, BoundsAssumption
<1>5. OwnerOK(w)'
  BY <1>1, <1>3, <1>4 DEF OwnerOK, Early
<1> QED BY <1>5 DEF At, Early

LEMMA CleanReadStep == ASSUME Inductive, NEW w \in Worker, CleanRead(w) PROVE Inductive'
<1>1. PICK batch \in SUBSET Expired(req[w].t) :
          Become(w, [req[w] EXCEPT !.batch = batch, !.todo = batch,
                       !.pc = IF batch = {} THEN "reserve" ELSE "clean.objects"])
  BY DEF CleanRead
<1> DEFINE n == [req[w] EXCEPT !.batch = batch, !.todo = batch,
                               !.pc = IF batch = {} THEN "reserve" ELSE "clean.objects"]
<1>2. batch \subseteq Reserved /\ batch \subseteq Upload
  BY DEF Expired, Reserved
<1>3. /\ n \in Request /\ n.pc \in {"reserve", "clean.objects"}
      /\ n.pc # "clean.objects" => batch = {}
      /\ n.id = req[w].id /\ n.size = req[w].size
      /\ n.t = req[w].t /\ n.batch = batch /\ n.todo = batch
  BY <1>2, RequestFacts DEF Inductive, Request, Steps
<1>4. /\ Become(w, n) /\ req[w].pc = "clean.read" /\ Busy(w)
      /\ UNCHANGED <<active, quota, reservations, artifacts, objects, now, used, lost>>
  BY <1>1 DEF CleanRead, At, Busy
<1> HIDE DEF n
<1>5. /\ TablesTyped /\ BatchesSteady /\ (\A u : Steady(u)) /\ RowsMatchObjects' /\ RowsOK'
      /\ Reserved' = Reserved /\ Stored' = Stored
  BY <1>4, OnlyRequest DEF Inductive, TypeOK
<1>6. /\ TypeOK' /\ Distinct' /\ req'[w] = n
      /\ \A v \in Worker : v # w =>
             /\ req'[v] = req[v] /\ OwnerOK(v)' /\ BatchOK(v)'
             /\ (At(v, "idle") => req[v] = Idle)'
  BY <1>3, <1>4, <1>5, Others
<1>7. LockOK'
  BY <1>3, <1>4, LockKept
<1>8. OwnerOK(w)' /\ ~At(w, "idle")'
  BY <1>3, <1>4, <1>5, <1>6, EarlyKept DEF Early
<1>9. BatchOK(w)'
  <2>1. batch \subseteq used' /\ batch \cap Stored' = {}
    BY <1>2, <1>4, <1>5 DEF Inductive, RowsOK
  <2>2. \A v \in Worker : req[v].id \notin batch
    <3> SUFFICES ASSUME NEW v \in Worker, req[v].id \in batch PROVE FALSE
      OBVIOUS
    <3>1. Busy(v)
      BY <1>2, IdleFacts, NullAssumption DEF Inductive, Busy
    <3>2. req[w].t \in Nat /\ req[w].t <= now
      BY <1>4, TimeFacts
    <3> QED BY <3>1, <3>2, NotExpired
  <2>3. \A v \in Worker : req'[v].id = req[v].id
    BY <1>3, <1>6
  <2> QED BY <1>3, <1>6, <2>1, <2>2, <2>3 DEF BatchOK
<1> QED BY <1>5, <1>6, <1>7, <1>8, <1>9 DEF Inductive

LEMMA CleanObjectStep == ASSUME Inductive, NEW w \in Worker, CleanObject(w) PROVE Inductive'
<1>1. PICK u \in req[w].todo :
          /\ objects' = objects \ {u}
          /\ Become(w, [req[w] EXCEPT !.todo = @ \ {u},
                          !.pc = IF req[w].todo = {u} THEN "clean.rows" ELSE @])
  BY DEF CleanObject
<1> DEFINE n == [req[w] EXCEPT !.todo = @ \ {u},
                               !.pc = IF req[w].todo = {u} THEN "clean.rows" ELSE @]
<1>2. /\ Become(w, n) /\ req[w].pc = "clean.objects" /\ Busy(w)
      /\ UNCHANGED <<active, quota, reservations, artifacts, now, used, lost>>
  BY <1>1 DEF CleanObject, At, Busy
<1>3. /\ n \in Request /\ n.pc \in {"clean.rows", "clean.objects"}
      /\ n.pc # "clean.objects" => req[w].todo = {u}
      /\ n.id = req[w].id /\ n.size = req[w].size
      /\ n.t = req[w].t /\ n.batch = req[w].batch /\ n.todo = req[w].todo \ {u}
  BY <1>2, RequestFacts DEF Inductive, Request, Steps
<1> HIDE DEF n
<1>4. /\ u \in req[w].batch /\ u \in Upload /\ u \notin Stored \ lost
      /\ \A v \in Worker : req[v].id # u
  BY RequestFacts DEF Inductive, BatchOK
<1>5. TablesTyped /\ BatchesSteady /\ \A v \in Worker : Steady(req[v].id)
  BY <1>1, <1>2, <1>4 DEF TablesTyped, BatchesSteady, Steady, Inductive, TypeOK
<1>6. Reserved' = Reserved /\ Stored' = Stored
  BY <1>2 DEF Reserved, Stored
<1>7. RowsMatchObjects' /\ RowsOK'
  BY <1>1, <1>2, <1>4, <1>6 DEF Inductive, RowsMatchObjects, RowsOK
<1>8. /\ TypeOK' /\ Distinct' /\ req'[w] = n
      /\ \A v \in Worker : v # w =>
             /\ req'[v] = req[v] /\ OwnerOK(v)' /\ BatchOK(v)'
             /\ (At(v, "idle") => req[v] = Idle)'
  BY <1>2, <1>3, <1>5, Others
<1>9. LockOK'
  BY <1>2, <1>3, LockKept
<1>10. OwnerOK(w)' /\ ~At(w, "idle")'
  BY <1>2, <1>3, <1>5, <1>8, EarlyKept DEF Early
<1>11. BatchOK(w)'
  <2>1. BatchOK(w)
    BY DEF Inductive
  <2>2. \A v \in Worker : req'[v].id = req[v].id
    BY <1>3, <1>8
  <2> QED BY <1>1, <1>2, <1>3, <1>6, <1>8, <2>1, <2>2 DEF BatchOK
<1> QED BY <1>7, <1>8, <1>9, <1>10, <1>11 DEF Inductive

LEMMA CleanRowsStep == ASSUME Inductive, NEW w \in Worker, CleanRows(w) PROVE Inductive'
<1> DEFINE n == [req[w] EXCEPT !.pc = "clean.read"]
           gone == req[w].batch \cap Expired(req[w].t)
<1>1. /\ n \in Request /\ n.pc = "clean.read" /\ n.id = req[w].id /\ n.size = req[w].size
      /\ n.t = req[w].t /\ n.batch = req[w].batch /\ n.todo = req[w].todo
  <2>1. "clean.read" \in Steps
    BY DEF Steps
  <2> QED BY <2>1, GoneOn
<1>2. /\ Become(w, n) /\ req[w].pc = "clean.rows" /\ Busy(w)
      /\ reservations' = [u \in Upload |-> IF u \in gone THEN Null ELSE reservations[u]]
      /\ UNCHANGED <<active, quota, artifacts, objects, now, used, lost>>
  BY DEF CleanRows, Goto, At, Busy
<1>3. /\ gone \subseteq req[w].batch /\ req[w].batch \subseteq Upload
      /\ gone \cap objects = {} /\ \A v \in Worker : req[v].id \notin gone
  BY <1>2, RequestFacts DEF Inductive, BatchOK
<1> HIDE DEF n, gone
<1>4. /\ reservations' \in [Upload -> Reservation \cup {Null}]
      /\ \A u \in Upload : u \notin gone => reservations'[u] = reservations[u]
      /\ Reserved' = Reserved \ gone
  BY <1>2 DEF Inductive, TypeOK, Reserved
<1>5. Stored' = Stored
  BY <1>2 DEF Stored
<1>6. TablesTyped /\ BatchesSteady
  BY <1>2, <1>4 DEF TablesTyped, BatchesSteady, Inductive, TypeOK
<1>7. \A v \in Worker : Busy(v) => Steady(req[v].id)
  BY <1>2, <1>3, <1>4, BusyFacts DEF Steady
<1>8. RowsMatchObjects' /\ RowsOK'
  BY <1>2, <1>3, <1>4, <1>5 DEF Inductive, RowsMatchObjects, RowsOK
<1>9. /\ TypeOK' /\ Distinct' /\ req'[w] = n
      /\ \A v \in Worker : v # w =>
             /\ req'[v] = req[v] /\ OwnerOK(v)' /\ BatchOK(v)'
             /\ (At(v, "idle") => req[v] = Idle)'
  BY <1>1, <1>2, <1>6, <1>7, Others
<1>10. LockOK'
  BY <1>1, <1>2, LockKept
<1>11. OwnerOK(w)' /\ ~At(w, "idle")'
  BY <1>1, <1>2, <1>7, <1>9, EarlyKept DEF Early
<1>12. BatchOK(w)'
  BY <1>1, <1>2, <1>6, <1>9, BatchMoved
<1> QED BY <1>8, <1>9, <1>10, <1>11, <1>12 DEF Inductive

LEMMA ReserveLockStep == ASSUME Inductive, NEW w \in Worker, ReserveLock(w) PROVE Inductive'
<1> DEFINE n == [req[w] EXCEPT !.pc = "reserve.insert", !.t = now, !.usage = ArtifactsUsage]
<1>1. /\ n \in Request /\ n.pc = "reserve.insert" /\ n.id = req[w].id /\ n.size = req[w].size
      /\ n.t = now /\ n.batch = req[w].batch /\ n.todo = req[w].todo /\ n.usage = ArtifactsUsage
  <2>1. now \in Time
    BY BoundsAssumption DEF Inductive, TypeOK, Time
  <2>2. ArtifactsUsage \in Nat
    BY UsageFacts DEF Inductive
  <2>3. "reserve.insert" \in Steps
    BY DEF Steps
  <2> QED BY <2>1, <2>2, <2>3, RequestFacts DEF Inductive, Request
<1>2. /\ Become(w, n) /\ req[w].pc = "reserve" /\ Busy(w) /\ ~ProviderLocked
      /\ UNCHANGED <<active, quota, reservations, artifacts, objects, now, used, lost>>
  BY DEF ReserveLock, At, Busy
<1> HIDE DEF n
<1>3. /\ TablesTyped /\ BatchesSteady /\ (\A u : Steady(u)) /\ RowsMatchObjects' /\ RowsOK'
  BY <1>2, OnlyRequest DEF Inductive, TypeOK
<1>4. /\ TypeOK' /\ Distinct' /\ req'[w] = n
      /\ \A v \in Worker : v # w =>
             /\ req'[v] = req[v] /\ OwnerOK(v)' /\ BatchOK(v)'
             /\ (At(v, "idle") => req[v] = Idle)'
  BY <1>1, <1>2, <1>3, Others
<1>5. LockOK'
  <2>1. ArtifactsUsage' = ArtifactsUsage
    BY <1>2 DEF ArtifactsUsage, ArtifactBytes, Stored
  <2>2. \A v \in Worker : At(v, "reserve.insert")' => v = w
    BY <1>2, <1>4 DEF At, ProviderLocked
  <2> QED BY <1>1, <1>4, <2>1, <2>2 DEF LockOK
<1>6. OwnerOK(w)' /\ ~At(w, "idle")'
  BY <1>1, <1>2, <1>3, <1>4, EarlyKept DEF Early
<1>7. BatchOK(w)'
  BY <1>1, <1>2, <1>3, <1>4, BatchMoved
<1> QED BY <1>3, <1>4, <1>5, <1>6, <1>7 DEF Inductive

\* The provider row and the clock; no upload outlives its reservation.
LEMMA EnvironmentStep ==
    ASSUME Inductive, ActivateProvider \/ UpdateProvider \/ Tick \/ UNCHANGED vars
    PROVE  Inductive'
<1>1. UNCHANGED <<reservations, artifacts, objects, used, req, lost>>
  BY DEF ActivateProvider, UpdateProvider, Tick, vars
<1>2. active' \in BOOLEAN /\ quota' \in Quota /\ now' \in 0..MaxTime
  <2>1. active' \in BOOLEAN /\ quota' \in Quota
    BY DEF ActivateProvider, UpdateProvider, Tick, vars, Inductive, TypeOK
  <2>2. now \in 0..MaxTime
    BY DEF Inductive, TypeOK
  <2>3. Tick => now' \in 0..MaxTime
    BY <2>2, BoundsAssumption DEF Tick
  <2>4. now' = now => now' \in 0..MaxTime
    BY <2>2
  <2> QED BY <2>1, <2>3, <2>4 DEF ActivateProvider, UpdateProvider, vars
<1>3. TypeOK'
  BY <1>1, <1>2 DEF Inductive, TypeOK
<1>4. /\ Reserved' = Reserved /\ Stored' = Stored /\ ArtifactsUsage' = ArtifactsUsage
  BY <1>1 DEF Reserved, Stored, ArtifactsUsage, ArtifactBytes
<1>5. RowsMatchObjects' /\ RowsOK' /\ Distinct' /\ LockOK'
  <2>1. RowsMatchObjects' /\ RowsOK'
    BY <1>1, <1>4 DEF Inductive, RowsMatchObjects, RowsOK
  <2>2. Distinct'
    BY <1>1 DEF Inductive, Distinct
  <2>3. LockOK'
    BY <1>1, <1>4 DEF Inductive, LockOK, At
  <2> QED BY <2>1, <2>2, <2>3
<1>6. ASSUME NEW w \in Worker PROVE BatchOK(w)' /\ (At(w, "idle") => req[w] = Idle)'
  <2>1. BatchOK(w) /\ (At(w, "idle") => req[w] = Idle)
    BY DEF Inductive
  <2>2. BatchOK(w)'
    BY <1>1, <1>4, <2>1 DEF BatchOK
  <2> QED BY <1>1, <2>1, <2>2 DEF At, Idle
<1>7. ASSUME NEW w \in Worker, Busy(w) PROVE req[w].t <= now' /\ now' < req[w].t + Ttl
  <2>1. /\ req[w].t \in Nat /\ req[w].t <= now /\ now \in Nat /\ now < req[w].t + Ttl
    BY <1>7, TimeFacts
  <2>2. CASE Tick
    <3>1. now' = now + 1 /\ now + 1 < req[w].t + Ttl
      BY <1>7, <2>2 DEF Tick, Busy
    <3> QED BY <2>1, <3>1
  <2>3. CASE now' = now
    BY <2>1, <2>3
  <2> QED BY <2>2, <2>3 DEF ActivateProvider, UpdateProvider, vars
<1>8. ASSUME NEW w \in Worker PROVE OwnerOK(w)'
  <2> SUFFICES ASSUME Busy(w) PROVE OwnerOK(w)'
    BY <1>1 DEF OwnerOK, Busy, At
  <2>1. OwnerOK(w) /\ req[w].t <= now' /\ now' < req[w].t + Ttl
    BY <1>7 DEF Inductive
  <2> QED BY <1>1, <1>4, <2>1 DEF OwnerOK
<1> QED BY <1>3, <1>5, <1>6, <1>8 DEF Inductive

LEMMA NextInductive == Inductive /\ [Next]_vars => Inductive'
<1> SUFFICES ASSUME Inductive, [Next]_vars PROVE Inductive'
  OBVIOUS
<1>1. ASSUME NEW w \in Worker, UploadStep(w) PROVE Inductive'
  BY <1>1, BeginStep, CleanReadStep, CleanObjectStep, CleanRowsStep, ReserveLockStep,
     ReserveInsertStep, PutStep, InsertStep, UndoStep, ReleaseStep DEF UploadStep
<1>2. ASSUME NEW w \in Worker, Stop(w) PROVE Inductive'
  BY <1>2, StopStep
<1>3. CASE ActivateProvider \/ UpdateProvider \/ Tick \/ UNCHANGED vars
  BY <1>3, EnvironmentStep
<1> QED BY <1>1, <1>2, <1>3 DEF Next

-----------------------------------------------------------------------------
(* The quota *)

\* The bytes that live reservations take now, and after a step.
LEMMA LiveByte ==
    ASSUME NEW x
    PROVE  /\ x \in ReservedBytes(now) <=>
                  \E u \in Upload : /\ reservations[u] # Null /\ ~(reservations[u].expires <= now)
                                    /\ x \in Bytes(u, reservations[u].size)
           /\ x \in ReservedBytes(now)' <=>
                  \E u \in Upload : /\ reservations'[u] # Null /\ ~(reservations'[u].expires <= now')
                                    /\ x \in Bytes(u, reservations'[u].size)
BY DEF ReservedBytes, Reserved, Expired

\* The bytes of the artifact rows after a step.
LEMMA StoredByte ==
    ASSUME NEW x
    PROVE  x \in ArtifactBytes' <=>
               \E u \in Upload : artifacts'[u] # Null /\ x \in Bytes(u, artifacts'[u])
BY DEF ArtifactBytes, Stored

\* Both tables account for finitely many bytes.
UsageTyped ==
    /\ ArtifactsUsage \in Nat /\ ReservationsUsage(now) \in Nat
    /\ IsFiniteSet(ArtifactBytes) /\ IsFiniteSet(ReservedBytes(now))

LEMMA UsageIsTyped == TypeOK => UsageTyped
BY UsageFacts DEF UsageTyped

\* The usage before and after a step.
LEMMA UsageTypes ==
    ASSUME TypeOK, TypeOK'
    PROVE  /\ ArtifactsUsage \in Nat /\ ArtifactsUsage' \in Nat
           /\ ReservationsUsage(now) \in Nat /\ ReservationsUsage(now)' \in Nat
           /\ IsFiniteSet(ArtifactBytes) /\ IsFiniteSet(ArtifactBytes')
           /\ IsFiniteSet(ReservedBytes(now)) /\ IsFiniteSet(ReservedBytes(now)')
           /\ ArtifactsUsage' = Cardinality(ArtifactBytes')
           /\ ReservationsUsage(now)' = Cardinality(ReservedBytes(now)')
<1>1. UsageTyped /\ UsageTyped'
  BY UsageIsTyped, PTL
<1> QED BY <1>1 DEF UsageTyped, ArtifactsUsage, ReservationsUsage

\* Reservations that go, or whose time passes, take no more of the quota.
LEMMA UsageFalls ==
    ASSUME TypeOK, TypeOK', artifacts' = artifacts, now <= now',
           \A u \in Upload : reservations'[u] \in {reservations[u], Null}
    PROVE  Usage' <= Usage
<1>1. \A u \in Upload : reservations[u] # Null => reservations[u].expires \in Nat
  BY BoundsAssumption DEF TypeOK, Reservation, Time
<1>2. now \in Nat /\ now' \in Nat
  BY BoundsAssumption DEF TypeOK
<1>3. ReservedBytes(now)' \in SUBSET ReservedBytes(now)
  <2> SUFFICES ASSUME NEW x \in ReservedBytes(now)' PROVE x \in ReservedBytes(now)
    OBVIOUS
  <2>1. PICK u \in Upload : /\ reservations'[u] # Null /\ ~(reservations'[u].expires <= now')
                            /\ x \in Bytes(u, reservations'[u].size)
    BY LiveByte
  <2>2. reservations'[u] = reservations[u] /\ ~(reservations[u].expires <= now)
    BY <1>1, <1>2, <2>1
  <2> QED BY <2>1, <2>2, LiveByte
<1>4. ArtifactsUsage' = ArtifactsUsage
  BY DEF ArtifactsUsage, ArtifactBytes, Stored
<1>5. ReservationsUsage(now)' <= ReservationsUsage(now)
  BY <1>3, UsageTypes, FS_Subset DEF ReservationsUsage
<1>6. Usage' = ArtifactsUsage' + ReservationsUsage(now)' /\ Usage = ArtifactsUsage + ReservationsUsage(now)
  BY DEF Usage
<1> QED BY <1>4, <1>5, <1>6, UsageTypes

\* What reserveQuota has compared with the quota is at least what the tables then show.
LEMMA ReserveWithinQuota ==
    ASSUME Inductive, Inductive', NEW w \in Worker, ReserveInsert(w)
    PROVE  quota = 0 \/ Usage' <= quota
<1>1. PICK i \in Upload, size \in Nat : i = req[w].id /\ size = req[w].size /\ Busy(w)
  <2>1. Busy(w)
    BY DEF ReserveInsert, At, Busy
  <2> QED BY <2>1, BusyFacts
<1>2. PICK t \in Nat, m \in Nat : t = req[w].t /\ m = now /\ t <= m
  BY <1>1, TimeFacts
<1> DEFINE row == [size |-> size, expires |-> t + Ttl]
<1>3. /\ reservations' = [reservations EXCEPT ![i] = row]
      /\ now' = now /\ artifacts' = artifacts
      /\ quota > 0 => req[w].usage + ReservationsUsage(t) + size <= quota
  BY <1>1, <1>2 DEF ReserveInsert
<1>4. req[w].usage = ArtifactsUsage
  BY DEF ReserveInsert, Inductive, LockOK
<1>5. \A u \in Upload : reservations[u] # Null => reservations[u].expires \in Nat
  BY BoundsAssumption DEF Inductive, TypeOK, Reservation, Time
<1>6. reservations'[i].size = size /\ \A u \in Upload : u # i => reservations'[u] = reservations[u]
  BY <1>3 DEF Inductive, TypeOK
<1> HIDE DEF row
<1>7. ReservedBytes(now)' \in SUBSET (ReservedBytes(t) \cup Bytes(i, size))
  <2> SUFFICES ASSUME NEW x \in ReservedBytes(now)', x \notin Bytes(i, size)
               PROVE  x \in ReservedBytes(t)
    OBVIOUS
  <2>1. PICK u \in Upload : /\ reservations'[u] # Null /\ ~(reservations'[u].expires <= now')
                            /\ x \in Bytes(u, reservations'[u].size)
    BY LiveByte
  <2>2. u # i /\ reservations'[u] = reservations[u]
    BY <1>6, <2>1
  <2>3. ~(reservations[u].expires <= t)
    BY <1>2, <1>3, <1>5, <2>1, <2>2
  <2>4. u \in Reserved \ Expired(t)
    BY <2>1, <2>2, <2>3 DEF Reserved, Expired
  <2> QED BY <2>1, <2>2, <2>4, ReservedByte
<1>8. /\ IsFiniteSet(ReservedBytes(t)) /\ ReservationsUsage(t) \in Nat
      /\ IsFiniteSet(Bytes(i, size)) /\ Cardinality(Bytes(i, size)) = size
  BY UsageFacts, BytesFacts DEF Inductive
<1>9. PICK both : both = ReservedBytes(t) \cup Bytes(i, size)
  OBVIOUS
<1>10. IsFiniteSet(both) /\ Cardinality(both) <= ReservationsUsage(t) + size
  <2>1. /\ IsFiniteSet(both)
        /\ Cardinality(both) = Cardinality(ReservedBytes(t)) + Cardinality(Bytes(i, size))
                                   - Cardinality(ReservedBytes(t) \cap Bytes(i, size))
    BY <1>8, <1>9, FS_Union
  <2>2. Cardinality(ReservedBytes(t) \cap Bytes(i, size)) \in Nat
    BY <1>8, FS_Intersection, FS_CardinalityType
  <2> QED BY <1>8, <2>1, <2>2 DEF ReservationsUsage
<1>11. TypeOK /\ TypeOK'
  BY DEF Inductive
<1>12. ReservationsUsage(now)' <= Cardinality(both) /\ Cardinality(both) \in Nat
  BY <1>7, <1>9, <1>10, <1>11, UsageTypes, FS_Subset, FS_CardinalityType
<1>13. ArtifactsUsage' = ArtifactsUsage /\ Usage' = ArtifactsUsage' + ReservationsUsage(now)'
  BY <1>3 DEF Usage, ArtifactsUsage, ArtifactBytes, Stored
<1>14. quota \in Nat
  BY BoundsAssumption DEF Inductive, TypeOK
<1> QED BY <1>3, <1>4, <1>8, <1>10, <1>11, <1>12, <1>13, <1>14, UsageTypes

\* The commit moves the bytes of a live reservation to the artifact row.
LEMMA CommitKeepsUsage ==
    ASSUME Inductive, Inductive', NEW w \in Worker, At(w, "insert"), now' = now,
           artifacts' = [artifacts EXCEPT ![req[w].id] = req[w].size],
           reservations' = [reservations EXCEPT ![req[w].id] = Null]
    PROVE  Usage' = Usage
<1>0. Busy(w)
  BY DEF At, Busy
<1>1. PICK i \in Upload, size \in Nat : i = req[w].id /\ size = req[w].size /\ size # Null
  BY <1>0, BusyFacts, NullAssumption
<1>2. PICK t \in Nat, m \in Nat : t = req[w].t /\ m = now /\ m < t + Ttl
  BY <1>0, TimeFacts
<1>3. /\ reservations[i] = [size |-> size, expires |-> t + Ttl] /\ reservations[i] # Null
      /\ artifacts[i] = Null
  BY <1>0, <1>1, <1>2 DEF Inductive, OwnerOK, At, RowsOK, Reserved, Stored
<1>4. /\ reservations'[i] = Null /\ artifacts'[i] = size
      /\ \A u \in Upload : u # i => reservations'[u] = reservations[u] /\ artifacts'[u] = artifacts[u]
  BY <1>1 DEF Inductive, TypeOK
<1>5. PICK B : B = Bytes(i, size)
  OBVIOUS
<1>6. reservations[i].size = size /\ ~(reservations[i].expires <= now)
  BY <1>2, <1>3, BoundsAssumption
<1>7. \A u \in Upload : \A k : u # i => Bytes(u, k) \cap B = {}
  BY <1>5, BytesApart
<1>8. ArtifactBytes' = ArtifactBytes \cup B /\ ArtifactBytes \cap B = {}
  <2>1. \A x : x \in ArtifactBytes <=>
                   \E u \in Upload : artifacts[u] # Null /\ x \in Bytes(u, artifacts[u])
    BY ArtifactByte DEF Stored
  <2>2. \A x : x \in ArtifactBytes' <=>
                   \E u \in Upload : artifacts'[u] # Null /\ x \in Bytes(u, artifacts'[u])
    BY StoredByte
  <2>3. ArtifactBytes \cap B = {}
    BY <1>3, <1>7, <2>1
  <2>4. ASSUME NEW x \in ArtifactBytes' PROVE x \in ArtifactBytes \cup B
    BY <1>4, <1>5, <2>1, <2>2, <2>4
  <2>5. ASSUME NEW x \in ArtifactBytes PROVE x \in ArtifactBytes'
    BY <1>3, <1>4, <2>1, <2>2, <2>5
  <2>6. ASSUME NEW x \in B PROVE x \in ArtifactBytes'
    BY <1>1, <1>4, <1>5, <2>2, <2>6
  <2> QED BY <2>3, <2>4, <2>5, <2>6
<1>9. ReservedBytes(now) = ReservedBytes(now)' \cup B /\ ReservedBytes(now)' \cap B = {}
  <2>1. ReservedBytes(now)' \cap B = {}
    BY <1>4, <1>7, LiveByte
  <2>2. ASSUME NEW x \in ReservedBytes(now) PROVE x \in ReservedBytes(now)' \cup B
    <3>1. PICK u \in Upload : /\ reservations[u] # Null /\ ~(reservations[u].expires <= now)
                              /\ x \in Bytes(u, reservations[u].size)
      BY <2>2, LiveByte
    <3>2. CASE u = i
      BY <1>5, <1>6, <3>1, <3>2
    <3>3. CASE u # i
      BY <1>4, <3>1, <3>3, LiveByte
    <3> QED BY <3>2, <3>3
  <2>3. ASSUME NEW x \in ReservedBytes(now)' PROVE x \in ReservedBytes(now)
    <3>1. PICK u \in Upload : /\ reservations'[u] # Null /\ ~(reservations'[u].expires <= now')
                              /\ x \in Bytes(u, reservations'[u].size)
      BY <2>3, LiveByte
    <3>2. reservations'[u] = reservations[u]
      BY <1>4, <3>1
    <3> QED BY <3>1, <3>2, LiveByte
  <2>4. ASSUME NEW x \in B PROVE x \in ReservedBytes(now)
    BY <1>3, <1>5, <1>6, <2>4, LiveByte
  <2> QED BY <2>1, <2>2, <2>3, <2>4
<1>10. TypeOK /\ TypeOK'
  BY DEF Inductive
<1>11. IsFiniteSet(B) /\ Cardinality(B) = size
  BY <1>5, BytesFacts
<1>12. ArtifactsUsage' = ArtifactsUsage + size
  <2>1. PICK X : X = ArtifactBytes /\ IsFiniteSet(X) /\ X \cap B = {} /\ ArtifactBytes' = X \cup B
    BY <1>8, <1>10, UsageTypes
  <2>2. Cardinality(X \cup B) = Cardinality(X) + Cardinality(B) - Cardinality(X \cap B)
    BY <1>11, <2>1, FS_Union
  <2>3. Cardinality(X \cap B) = 0
    BY <2>1, FS_EmptySet
  <2>4. ArtifactsUsage = Cardinality(X) /\ ArtifactsUsage' = Cardinality(X \cup B)
    BY <2>1 DEF ArtifactsUsage
  <2> QED BY <1>10, <1>11, <2>2, <2>3, <2>4, UsageTypes
<1>13. ReservationsUsage(now) = ReservationsUsage(now)' + size
  <2>1. PICK X : X = ReservedBytes(now)' /\ IsFiniteSet(X) /\ X \cap B = {}
                   /\ ReservedBytes(now) = X \cup B
    BY <1>9, <1>10, UsageTypes
  <2>2. Cardinality(X \cup B) = Cardinality(X) + Cardinality(B) - Cardinality(X \cap B)
    BY <1>11, <2>1, FS_Union
  <2>3. Cardinality(X \cap B) = 0
    BY <2>1, FS_EmptySet
  <2>4. ReservationsUsage(now)' = Cardinality(X) /\ ReservationsUsage(now) = Cardinality(X \cup B)
    BY <2>1 DEF ReservationsUsage
  <2> QED BY <1>10, <1>11, <2>2, <2>3, <2>4, UsageTypes
<1>14. Usage' = ArtifactsUsage' + ReservationsUsage(now)' /\ Usage = ArtifactsUsage + ReservationsUsage(now)
  BY DEF Usage
<1> QED BY <1>10, <1>12, <1>13, <1>14, UsageTypes

\* Every step: only reserveQuota raises the usage.
LEMMA QuotaStep ==
    ASSUME Inductive, Inductive', [Next]_vars
    PROVE  Usage' > Usage => quota = 0 \/ Usage' <= quota
<1>1. TypeOK /\ TypeOK'
  BY DEF Inductive
<1>2. PICK a \in Nat, b \in Nat : a = Usage /\ b = Usage'
  <2>1. Usage = ArtifactsUsage + ReservationsUsage(now)
          /\ Usage' = ArtifactsUsage' + ReservationsUsage(now)'
    BY DEF Usage
  <2> QED BY <1>1, <2>1, UsageTypes
<1>3. now \in Nat /\ now <= now
  BY <1>1, BoundsAssumption DEF TypeOK
<1>4. ASSUME artifacts' = artifacts, now <= now',
             \A u \in Upload : reservations'[u] \in {reservations[u], Null}
      PROVE  Usage' > Usage => quota = 0 \/ Usage' <= quota
  <2>1. b <= a
    BY <1>1, <1>2, <1>4, UsageFalls
  <2> QED BY <1>2, <2>1
<1>5. ASSUME NEW w \in Worker, UploadStep(w)
      PROVE  Usage' > Usage => quota = 0 \/ Usage' <= quota
  <2>1. CASE ReserveInsert(w)
    BY <2>1, ReserveWithinQuota
  <2>2. CASE Insert(w)
    <3>1. CASE UNCHANGED <<artifacts, reservations>>
      BY <1>3, <1>4, <2>2, <3>1 DEF Insert
    <3>2. CASE /\ artifacts' = [artifacts EXCEPT ![req[w].id] = req[w].size]
               /\ reservations' = [reservations EXCEPT ![req[w].id] = Null]
      <4>1. Usage' = Usage
        BY <2>2, <3>2, CommitKeepsUsage DEF Insert
      <4> QED BY <1>2, <4>1
    <3> QED BY <2>2, <3>1, <3>2 DEF Insert
  <2>3. CASE CleanRows(w)
    BY <1>3, <1>4, <2>3 DEF CleanRows
  <2>4. CASE Release(w)
    <3>1. \A u \in Upload : reservations'[u] \in {reservations[u], Null}
      BY <1>1, <2>4 DEF Release, TypeOK
    <3> QED BY <1>3, <1>4, <2>4, <3>1 DEF Release
  <2>5. CASE Begin(w) \/ CleanRead(w) \/ CleanObject(w) \/ ReserveLock(w) \/ Put(w) \/ Undo(w)
    <3>1. UNCHANGED <<artifacts, reservations, now>>
      BY <2>5 DEF Begin, CleanRead, CleanObject, ReserveLock, Put, Undo
    <3> QED BY <1>3, <1>4, <3>1
  <2> QED BY <1>5, <2>1, <2>2, <2>3, <2>4, <2>5 DEF UploadStep
<1>6. ASSUME NEW w \in Worker, Stop(w)
      PROVE  Usage' > Usage => quota = 0 \/ Usage' <= quota
  BY <1>3, <1>4, <1>6 DEF Stop
<1>7. CASE ActivateProvider \/ UpdateProvider \/ UNCHANGED vars
  <2>1. UNCHANGED <<artifacts, reservations, now>>
    BY <1>7 DEF ActivateProvider, UpdateProvider, vars
  <2> QED BY <1>3, <1>4, <2>1
<1>8. CASE Tick
  <2>1. UNCHANGED <<artifacts, reservations>> /\ now' = now + 1
    BY <1>8 DEF Tick
  <2> QED BY <1>3, <1>4, <2>1
<1> QED BY <1>5, <1>6, <1>7, <1>8 DEF Next

-----------------------------------------------------------------------------
(* Theorems *)

\* The invariant the other theorems rest on.
THEOREM InductiveCorrect == Spec => []Inductive
BY InitInductive, NextInductive, PTL DEF Spec

\* Tables, objects and requests hold values of their types.
THEOREM TypeCorrect == Spec => []TypeOK
<1>1. Inductive => TypeOK
  BY DEF Inductive
<1> QED BY <1>1, InductiveCorrect, PTL

\* Whatever uploadArtifact and cleanupExpiredReservations do concurrently, and
\* wherever a process stops, the artifact rows have their objects and the objects a
\* row or a reservation, except where an answer got lost.
THEOREM RowsCorrect == Spec => []RowsMatchObjects
<1>1. Inductive => RowsMatchObjects
  BY DEF Inductive
<1> QED BY <1>1, InductiveCorrect, PTL

\* reserveQuota is the only step that raises the usage, and it does so within the
\* quota in force, for any number of concurrent uploads.
THEOREM QuotaCorrect == Spec => QuotaRespected
<1>1. Inductive /\ Inductive' /\ [Next]_vars =>
          [Usage' > Usage => quota = 0 \/ Usage' <= quota]_vars
  BY QuotaStep
<1> QED BY <1>1, InductiveCorrect, PTL DEF Spec, QuotaRespected
=============================================================================
