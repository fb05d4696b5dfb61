--------------------------- MODULE DefaultsProofs ---------------------------
(***************************************************************************)
(* Proofs about Defaults, for every set of products, providers and         *)
(* concurrent requests.                                                    *)
(***************************************************************************)
EXTENDS Defaults, FiniteSetTheorems, TLAPS

-----------------------------------------------------------------------------
(* The inductive invariant: what a request holds, and what its locks keep. *)

\* A toggle holds the row as it is in the table, which is not the active default;
\* setDefault has locked the active rows, its target among them.
SoftwareRequestOK(w) ==
    /\ At(w, "toggle.save") =>
         /\ req[w].id \in Software
         /\ software[req[w].id] # Null
         /\ req[w].row = software[req[w].id]
         /\ ~(req[w].row.default /\ req[w].row.active)
    /\ At(w, "default.lock") => req[w].id \in Software
    /\ At(w, "default.save") =>
         /\ req[w].id \in req[w].rows
         /\ \A s \in req[w].rows : software[s] # Null /\ software[s].active

\* No row of table software is locked by two transactions.
RowLocksExclude(u, w) ==
    u # w /\ At(u, "toggle.save") =>
        /\ At(w, "toggle.save") => req[u].id # req[w].id
        /\ At(w, "default.save") => req[u].id \notin req[w].rows

HoldsProviders(w) == req[w].pc \in {"activate.load", "activate.save", "seed.save"}

\* An activation holds a row that exists; the seeder's look at the defaults is
\* still right.
ProviderRequestOK(w) ==
    /\ At(w, "activate.load") => req[w].id \in Provider
    /\ At(w, "activate.save") =>
         req[w].id \in Provider /\ providers[req[w].id] # Null /\ req[w].row \in Row
    /\ At(w, "seed.save") => req[w].current = HasDefault

AtMostOne ==
    \A p, q \in Provider :
        /\ providers[p] # Null /\ providers[p].default
        /\ providers[q] # Null /\ providers[q].default
        => p = q

SoftwareInv ==
    /\ \A w \in Worker : SoftwareRequestOK(w)
    /\ \A u, w \in Worker : RowLocksExclude(u, w)
    /\ OneActiveDefault

ProviderInv ==
    /\ \A w \in Worker : ProviderRequestOK(w)
    /\ \A u, w \in Worker : HoldsProviders(u) /\ HoldsProviders(w) => u = w
    /\ AtMostOne

Inductive == TypeOK /\ SoftwareInv /\ ProviderInv

-----------------------------------------------------------------------------
(* Requests about one table leave the other table's part alone *)

\* A worker without a request is in a typed state.
LEMMA IdleType == Idle \in Request
BY DEF Idle, Request, Steps

\* A step that leaves table software and its locks alone keeps their part.
LEMMA SoftwareFrame ==
    ASSUME TypeOK, SoftwareInv, NEW w \in Worker, NEW r \in Request,
           req' = [req EXCEPT ![w] = r], software' = software,
           r.pc \notin {"toggle.save", "default.lock", "default.save"}
    PROVE  SoftwareInv'
<1>1. req'[w] = r /\ \A u \in Worker \ {w} : req'[u] = req[u]
  BY DEF TypeOK
<1>2. \A u \in Worker : SoftwareRequestOK(u)'
  BY <1>1 DEF SoftwareInv, SoftwareRequestOK, At
<1>3. \A u, v \in Worker : RowLocksExclude(u, v)'
  BY <1>1 DEF SoftwareInv, RowLocksExclude, At
<1>4. OneActiveDefault'
  BY DEF SoftwareInv, OneActiveDefault
<1> QED BY <1>2, <1>3, <1>4 DEF SoftwareInv

\* A step that leaves table storage_providers and its lock alone keeps their part.
LEMMA ProviderFrame ==
    ASSUME TypeOK, ProviderInv, NEW w \in Worker, NEW r \in Request,
           req' = [req EXCEPT ![w] = r], providers' = providers,
           r.pc \notin {"activate.load", "activate.save", "seed.save"}
    PROVE  ProviderInv'
<1>1. req'[w] = r /\ \A u \in Worker \ {w} : req'[u] = req[u]
  BY DEF TypeOK
<1>2. \A u \in Worker : ProviderRequestOK(u)'
  BY <1>1 DEF ProviderInv, ProviderRequestOK, At, HasDefault
<1>3. \A u, v \in Worker : HoldsProviders(u)' /\ HoldsProviders(v)' => u = v
  BY <1>1 DEF ProviderInv, HoldsProviders
<1>4. AtMostOne'
  BY DEF ProviderInv, AtMostOne
<1> QED BY <1>2, <1>3, <1>4 DEF ProviderInv

\* A step without a request that changes one table keeps the other's part.
LEMMA StillFrame ==
    ASSUME Inductive, req' = req
    PROVE  /\ software' = software => SoftwareInv'
           /\ providers' = providers => ProviderInv'
<1>1. ASSUME software' = software PROVE SoftwareInv'
  BY <1>1 DEF Inductive, SoftwareInv, SoftwareRequestOK, RowLocksExclude, At, OneActiveDefault
<1>2. ASSUME providers' = providers PROVE ProviderInv'
  BY <1>2 DEF Inductive, ProviderInv, ProviderRequestOK, HoldsProviders, At, HasDefault, AtMostOne
<1> QED BY <1>1, <1>2

-----------------------------------------------------------------------------
(* software_service.ts *)

\* create adds a row that is not the default.
LEMMA CreateStep == ASSUME Inductive, NEW w \in Worker, Create(w) PROVE Inductive'
<1> PICK s \in Software :
      /\ software[s] = Null
      /\ software' = [software EXCEPT ![s] = [active |-> TRUE, default |-> FALSE]]
  BY DEF Create
<1>0. req' = req /\ providers' = providers
  BY DEF Create
<1>1. TypeOK'
  BY <1>0 DEF Inductive, TypeOK, Row
<1>2. /\ \A t \in Software \ {s} : software'[t] = software[t]
      /\ software'[s] = [active |-> TRUE, default |-> FALSE]
  BY DEF Inductive, TypeOK
<1>3. \A u \in Worker : SoftwareRequestOK(u)'
  <2> SUFFICES ASSUME NEW u \in Worker PROVE SoftwareRequestOK(u)'
    OBVIOUS
  <2>1. SoftwareRequestOK(u) /\ req[u] \in Request
    BY DEF Inductive, SoftwareInv, TypeOK
  <2>2. req[u].rows \subseteq Software
    BY <2>1 DEF Request
  <2> QED BY <1>0, <1>2, <2>1, <2>2, NullAssumption DEF SoftwareRequestOK, At, Row
<1>4. \A u, v \in Worker : RowLocksExclude(u, v)'
  BY <1>0 DEF Inductive, SoftwareInv, RowLocksExclude, At
<1>5. OneActiveDefault'
  BY <1>2 DEF Inductive, SoftwareInv, OneActiveDefault
<1>6. ProviderInv'
  BY <1>0, StillFrame
<1> QED BY <1>1, <1>3, <1>4, <1>5, <1>6 DEF Inductive, SoftwareInv

\* toggleActive takes the lock of a row that nobody has locked.
LEMMA ToggleActiveStep == ASSUME Inductive, NEW w \in Worker, ToggleActive(w) PROVE Inductive'
<1> PICK s \in Software :
      /\ software[s] # Null
      /\ ~Locked(s)
      /\ ~(software[s].default /\ software[s].active)
      /\ Become(w, [Idle EXCEPT !.pc = "toggle.save", !.id = s, !.row = software[s]])
  BY DEF ToggleActive
<1> DEFINE r == [Idle EXCEPT !.pc = "toggle.save", !.id = s, !.row = software[s]]
<1>0. software' = software /\ providers' = providers
  BY DEF ToggleActive
<1>1. r \in Request /\ r.pc = "toggle.save" /\ r.id = s /\ r.row = software[s]
  BY IdleType DEF Inductive, TypeOK, Request, Steps, Idle
<1>2. req'[w] = r /\ \A u \in Worker \ {w} : req'[u] = req[u]
  BY DEF Inductive, TypeOK, Become
<1>2a. req' = [req EXCEPT ![w] = r]
  BY DEF Become
<1> HIDE DEF r
<1>3. TypeOK'
  BY <1>0, <1>1, <1>2a DEF Inductive, TypeOK
<1>4. \A u \in Worker : SoftwareRequestOK(u)'
  <2> SUFFICES ASSUME NEW u \in Worker PROVE SoftwareRequestOK(u)'
    OBVIOUS
  <2>1. CASE u = w
    <3>1. /\ req'[u].pc = "toggle.save" /\ req'[u].id = s /\ req'[u].row = software[s]
          /\ software'[s] = software[s]
      BY <1>0, <1>1, <1>2, <2>1
    <3> QED BY <3>1 DEF SoftwareRequestOK, At
  <2>2. CASE u # w
    BY <1>0, <1>2, <2>2 DEF Inductive, SoftwareInv, SoftwareRequestOK, At
  <2> QED BY <2>1, <2>2
<1>5. \A u \in Worker \ {w} :
         /\ At(u, "toggle.save") => req[u].id # s
         /\ At(u, "default.save") => s \notin req[u].rows
  BY DEF Locked
<1>6. \A u, v \in Worker : RowLocksExclude(u, v)'
  BY <1>1, <1>2, <1>5 DEF Inductive, SoftwareInv, RowLocksExclude, At
<1>7. OneActiveDefault'
  BY <1>0 DEF Inductive, SoftwareInv, OneActiveDefault
<1>8. ProviderInv'
  BY <1>0, <1>1, <1>2a, ProviderFrame DEF Inductive
<1> QED BY <1>3, <1>4, <1>6, <1>7, <1>8 DEF Inductive, SoftwareInv

\* The toggled row is not the default, and nobody else holds it.
LEMMA ToggleSaveStep == ASSUME Inductive, NEW w \in Worker, ToggleSave(w) PROVE Inductive'
<1> DEFINE i == req[w].id
<1>0. /\ At(w, "toggle.save")
      /\ software' = [software EXCEPT ![i].active = ~req[w].row.active]
      /\ req' = [req EXCEPT ![w] = Idle]
      /\ providers' = providers
  BY DEF ToggleSave, Finish, Become
<1>1. /\ i \in Software /\ software[i] # Null /\ software[i] \in Row
      /\ req[w].row = software[i]
      /\ ~(software[i].default /\ software[i].active)
  BY <1>0 DEF Inductive, SoftwareInv, SoftwareRequestOK, TypeOK
<1>2. /\ \A t \in Software \ {i} : software'[t] = software[t]
      /\ software'[i] = [software[i] EXCEPT !.active = ~req[w].row.active]
      /\ software'[i] \in Row
  BY <1>0, <1>1 DEF Inductive, TypeOK, Row
<1>3. req'[w] = Idle /\ \A u \in Worker \ {w} : req'[u] = req[u]
  BY <1>0 DEF Inductive, TypeOK
<1>4. TypeOK'
  BY <1>0, <1>2, IdleType DEF Inductive, TypeOK
<1>5. \A u \in Worker : SoftwareRequestOK(u)'
  <2> SUFFICES ASSUME NEW u \in Worker PROVE SoftwareRequestOK(u)'
    OBVIOUS
  <2>1. CASE u = w
    BY <1>3, <2>1 DEF SoftwareRequestOK, At, Idle
  <2>2. CASE u # w
    <3>1. SoftwareRequestOK(u) /\ RowLocksExclude(w, u) /\ req[u] \in Request
      BY DEF Inductive, SoftwareInv, TypeOK
    <3>2. req[u].rows \subseteq Software
      BY <3>1 DEF Request
    <3> QED BY <1>0, <1>2, <1>3, <2>2, <3>1, <3>2 DEF SoftwareRequestOK, RowLocksExclude, At
  <2> QED BY <2>1, <2>2
<1>6. \A u, v \in Worker : RowLocksExclude(u, v)'
  BY <1>3 DEF Inductive, SoftwareInv, RowLocksExclude, At, Idle
<1>7. OneActiveDefault'
  <2> PICK s \in Software :
        /\ software[s] # Null /\ software[s].default /\ software[s].active
        /\ \A t \in Software \ {s} : software[t] # Null => ~software[t].default
    BY DEF Inductive, SoftwareInv, OneActiveDefault
  <2>1. s # i
    BY <1>1
  <2>2. software'[i].default = software[i].default
    BY <1>1, <1>2 DEF Row
  <2>3. \A t \in Software \ {s} : software'[t] # Null => ~software'[t].default
    BY <1>1, <1>2, <2>1, <2>2
  <2> QED BY <1>2, <2>1, <2>3 DEF OneActiveDefault
<1>8. ProviderInv'
  BY <1>0, IdleType, ProviderFrame DEF Inductive, Idle
<1> QED BY <1>4, <1>5, <1>6, <1>7, <1>8 DEF Inductive, SoftwareInv

\* setDefault waits for the advisory lock.
LEMMA SetDefaultStep == ASSUME Inductive, NEW w \in Worker, SetDefault(w) PROVE Inductive'
<1> PICK s \in Software : Become(w, [Idle EXCEPT !.pc = "default.lock", !.id = s])
  BY DEF SetDefault
<1> DEFINE r == [Idle EXCEPT !.pc = "default.lock", !.id = s]
<1>0. software' = software /\ providers' = providers
  BY DEF SetDefault
<1>1. r \in Request /\ r.pc = "default.lock" /\ r.id = s
  BY DEF Request, Steps, Idle
<1>2. req'[w] = r /\ \A u \in Worker \ {w} : req'[u] = req[u]
  BY DEF Inductive, TypeOK, Become
<1>2a. req' = [req EXCEPT ![w] = r]
  BY DEF Become
<1> HIDE DEF r
<1>3. TypeOK'
  BY <1>0, <1>1, <1>2a DEF Inductive, TypeOK
<1>4. \A u \in Worker : SoftwareRequestOK(u)'
  BY <1>0, <1>1, <1>2 DEF Inductive, SoftwareInv, SoftwareRequestOK, At
<1>5. \A u, v \in Worker : RowLocksExclude(u, v)'
  BY <1>1, <1>2 DEF Inductive, SoftwareInv, RowLocksExclude, At
<1>6. OneActiveDefault'
  BY <1>0 DEF Inductive, SoftwareInv, OneActiveDefault
<1>7. ProviderInv'
  BY <1>0, <1>1, <1>2a, ProviderFrame DEF Inductive
<1> QED BY <1>3, <1>4, <1>5, <1>6, <1>7 DEF Inductive, SoftwareInv

\* The active rows are locked once no toggle holds one of them.
LEMMA DefaultLockStep == ASSUME Inductive, NEW w \in Worker, DefaultLock(w) PROVE Inductive'
<1> DEFINE rows == {s \in Software : software[s] # Null /\ software[s].active}
           r == [req[w] EXCEPT !.pc = "default.save", !.rows = rows]
<1>0. /\ At(w, "default.lock")
      /\ \A s \in rows : ~Locked(s)
      /\ req[w].id \in rows
      /\ req' = [req EXCEPT ![w] = r]
      /\ software' = software /\ providers' = providers
  BY DEF DefaultLock, Become
<1>a. req[w] \in Request
  BY DEF Inductive, TypeOK
<1>1. r \in Request /\ r.pc = "default.save" /\ r.rows = rows /\ r.id = req[w].id
  BY <1>a DEF Request, Steps
<1>2. req'[w] = r /\ \A u \in Worker \ {w} : req'[u] = req[u]
  BY <1>0 DEF Inductive, TypeOK
<1> HIDE DEF r
<1>3. TypeOK'
  BY <1>0, <1>1 DEF Inductive, TypeOK
<1>4. \A u \in Worker : SoftwareRequestOK(u)'
  BY <1>0, <1>1, <1>2 DEF Inductive, SoftwareInv, SoftwareRequestOK, At
<1>5. \A u \in Worker : At(u, "toggle.save") => req[u].id \notin rows
  BY <1>0 DEF Locked
<1>6. \A u, v \in Worker : RowLocksExclude(u, v)'
  BY <1>1, <1>2, <1>5 DEF Inductive, SoftwareInv, RowLocksExclude, At
<1>7. OneActiveDefault'
  BY <1>0 DEF Inductive, SoftwareInv, OneActiveDefault
<1>8. ProviderInv'
  BY <1>0, <1>1, ProviderFrame DEF Inductive
<1> QED BY <1>3, <1>4, <1>6, <1>7, <1>8 DEF Inductive, SoftwareInv

\* The flag moves to a row that is still active.
LEMMA DefaultSaveStep == ASSUME Inductive, NEW w \in Worker, DefaultSave(w) PROVE Inductive'
<1> DEFINE i == req[w].id
<1>0. /\ At(w, "default.save")
      /\ \A u \in Worker : ~At(u, "toggle.save")
      /\ software' = [s \in Software |->
            IF software[s] = Null THEN Null
            ELSE [software[s] EXCEPT !.default = (s = i)]]
      /\ req' = [req EXCEPT ![w] = Idle]
      /\ providers' = providers
  BY DEF DefaultSave, Finish, Become
<1>1. i \in Software /\ software[i] # Null /\ software[i].active
  <2>1. req[w] \in Request /\ SoftwareRequestOK(w)
    BY DEF Inductive, TypeOK, SoftwareInv
  <2> QED BY <1>0, <2>1 DEF SoftwareRequestOK, Request
<1>2. \A s \in Software :
         /\ software[s] = Null => software'[s] = Null
         /\ software[s] # Null =>
              /\ software'[s] \in Row
              /\ software'[s].active = software[s].active
              /\ software'[s].default <=> s = i
  <2> TAKE s \in Software
  <2>1. software[s] \in Row \cup {Null}
    BY DEF Inductive, TypeOK
  <2> QED BY <1>0, <2>1 DEF Row
<1>3. req'[w] = Idle /\ \A u \in Worker \ {w} : req'[u] = req[u]
  BY <1>0 DEF Inductive, TypeOK
<1>4. TypeOK'
  <2>1. software' \in [Software -> Row \cup {Null}]
    BY <1>0, <1>2
  <2> QED BY <1>0, <2>1, IdleType DEF Inductive, TypeOK
<1>5. \A u \in Worker : SoftwareRequestOK(u)'
  <2> SUFFICES ASSUME NEW u \in Worker PROVE SoftwareRequestOK(u)'
    OBVIOUS
  <2>1. CASE u = w
    BY <1>3, <2>1 DEF SoftwareRequestOK, At, Idle
  <2>2. CASE u # w
    <3>1. SoftwareRequestOK(u) /\ req[u] \in Request
      BY DEF Inductive, SoftwareInv, TypeOK
    <3>2. req[u].rows \subseteq Software
      BY <3>1 DEF Request
    <3>3. ~At(u, "toggle.save") /\ req'[u] = req[u]
      BY <1>0, <1>3, <2>2
    <3>4. \A s \in req[u].rows : software[s] # Null => software'[s] # Null /\ software'[s].active = software[s].active
      BY <1>2, <3>2, NullAssumption
    <3> QED BY <3>1, <3>3, <3>4 DEF SoftwareRequestOK, At
  <2> QED BY <2>1, <2>2
<1>6. \A u, v \in Worker : RowLocksExclude(u, v)'
  BY <1>0, <1>3 DEF RowLocksExclude, At, Idle
<1>7. OneActiveDefault'
  BY <1>1, <1>2, NullAssumption DEF OneActiveDefault
<1>8. ProviderInv'
  BY <1>0, IdleType, ProviderFrame DEF Inductive, Idle
<1> QED BY <1>4, <1>5, <1>6, <1>7, <1>8 DEF Inductive, SoftwareInv
-----------------------------------------------------------------------------
(* storage_provider_service.ts and the seeder *)

\* createProvider adds a row that is not the default, whoever holds the lock.
LEMMA CreateProviderStep ==
    ASSUME Inductive, NEW w \in Worker, CreateProvider(w) PROVE Inductive'
<1> PICK p \in Provider :
      /\ providers[p] = Null
      /\ providers' = [providers EXCEPT ![p] = [active |-> TRUE, default |-> FALSE]]
  BY DEF CreateProvider
<1>0. req' = req /\ software' = software
  BY DEF CreateProvider
<1>1. TypeOK'
  BY <1>0 DEF Inductive, TypeOK, Row
<1>2. /\ \A q \in Provider \ {p} : providers'[q] = providers[q]
      /\ providers'[p] # Null /\ ~providers'[p].default
  <2>1. [active |-> TRUE, default |-> FALSE] \in Row
    BY DEF Row
  <2> QED BY <2>1, NullAssumption DEF Inductive, TypeOK
<1>3. HasDefault' = HasDefault
  BY <1>2 DEF HasDefault
<1>4. \A u \in Worker : ProviderRequestOK(u)'
  <2> SUFFICES ASSUME NEW u \in Worker PROVE ProviderRequestOK(u)'
    OBVIOUS
  <2>1. ProviderRequestOK(u) /\ req'[u] = req[u]
    BY <1>0 DEF Inductive, ProviderInv
  <2>2. \A q \in Provider : providers[q] # Null => providers'[q] # Null
    BY <1>2
  <2> QED BY <1>3, <2>1, <2>2 DEF ProviderRequestOK, At
<1>5. \A u, v \in Worker : HoldsProviders(u)' /\ HoldsProviders(v)' => u = v
  BY <1>0 DEF Inductive, ProviderInv, HoldsProviders
<1>6. AtMostOne'
  BY <1>2 DEF Inductive, ProviderInv, AtMostOne
<1>7. SoftwareInv'
  BY <1>0, StillFrame
<1> QED BY <1>1, <1>4, <1>5, <1>6, <1>7 DEF Inductive, ProviderInv

\* A request that takes the free advisory lock, or keeps it, changing no row.
LEMMA ProviderLockStep ==
    ASSUME Inductive, NEW w \in Worker, NEW r \in Request,
           req' = [req EXCEPT ![w] = r], UNCHANGED <<software, providers>>,
           ~ProvidersLocked \/ HoldsProviders(w),
           r.pc \in {"activate.load", "activate.save", "seed.save"},
           r.pc = "activate.load" => r.id \in Provider,
           r.pc = "activate.save" =>
               r.id \in Provider /\ providers[r.id] # Null /\ r.row \in Row,
           r.pc = "seed.save" => r.current = HasDefault
    PROVE  Inductive'
<1>1. TypeOK'
  BY DEF Inductive, TypeOK
<1>2. req'[w] = r /\ \A u \in Worker \ {w} : req'[u] = req[u]
  BY DEF Inductive, TypeOK
<1>3. HasDefault' = HasDefault
  BY DEF HasDefault
<1>4. \A u \in Worker : ProviderRequestOK(u)'
  BY <1>2, <1>3 DEF Inductive, ProviderInv, ProviderRequestOK, At
<1>5. \A u \in Worker \ {w} : ~HoldsProviders(u)
  BY DEF Inductive, ProviderInv, HoldsProviders, ProvidersLocked
<1>6. \A u, v \in Worker : HoldsProviders(u)' /\ HoldsProviders(v)' => u = v
  BY <1>2, <1>5 DEF HoldsProviders
<1>7. AtMostOne'
  BY DEF Inductive, ProviderInv, AtMostOne
<1>8. SoftwareInv'
  BY SoftwareFrame DEF Inductive
<1> QED BY <1>1, <1>4, <1>6, <1>7, <1>8 DEF Inductive, ProviderInv

\* The advisory lock, the load of the model, and the seeder's first read.
LEMMA ProviderReadSteps ==
    ASSUME Inductive, NEW w \in Worker, ActivateProvider(w) \/ ActivateLoad(w) \/ Seed(w)
    PROVE  Inductive'
<1>1. CASE ActivateProvider(w)
  <2> PICK p \in Provider : Become(w, [Idle EXCEPT !.pc = "activate.load", !.id = p])
    BY <1>1 DEF ActivateProvider
  <2> DEFINE r == [Idle EXCEPT !.pc = "activate.load", !.id = p]
  <2>1. r \in Request /\ r.pc = "activate.load" /\ r.id = p
    BY DEF Idle, Request, Steps
  <2>2. req' = [req EXCEPT ![w] = r]
    BY DEF Become
  <2> HIDE DEF r
  <2> QED BY <1>1, <2>1, <2>2, ProviderLockStep DEF ActivateProvider
<1>2. CASE ActivateLoad(w)
  <2> DEFINE r == [req[w] EXCEPT !.pc = "activate.save", !.row = providers[req[w].id]]
  <2>1. /\ req[w] \in Request /\ req[w].id \in Provider
        /\ providers[req[w].id] # Null /\ providers[req[w].id] \in Row
        /\ HoldsProviders(w)
    BY <1>2 DEF ActivateLoad, Inductive, TypeOK, ProviderInv, ProviderRequestOK, At,
                HoldsProviders
  <2>2. /\ r \in Request /\ r.pc = "activate.save" /\ r.id = req[w].id
        /\ r.row = providers[req[w].id]
    BY <2>1 DEF Request, Steps
  <2>3. req' = [req EXCEPT ![w] = r] /\ UNCHANGED <<software, providers>>
    BY <1>2 DEF ActivateLoad, Become
  <2> HIDE DEF r
  <2> QED BY <2>1, <2>2, <2>3, ProviderLockStep
<1>3. CASE Seed(w)
  <2> DEFINE r == [Idle EXCEPT !.pc = "seed.save", !.current = HasDefault]
  <2>1. r \in Request /\ r.pc = "seed.save" /\ r.current = HasDefault
    <3>1. HasDefault \in BOOLEAN
      BY DEF HasDefault
    <3> QED BY <3>1 DEF Idle, Request, Steps
  <2>2. req' = [req EXCEPT ![w] = r] /\ UNCHANGED <<software, providers>> /\ ~ProvidersLocked
    BY <1>3 DEF Seed, Become
  <2> HIDE DEF r
  <2> QED BY <2>1, <2>2, ProviderLockStep
<1> QED BY <1>1, <1>2, <1>3

\* The holder of the lock writes the table and ends; AtMostOne is all that is left
\* to show of it.
LEMMA ProviderWriteStep ==
    ASSUME Inductive, NEW w \in Worker, HoldsProviders(w),
           req' = [req EXCEPT ![w] = Idle], software' = software,
           providers' \in [Provider -> Row \cup {Null}], AtMostOne'
    PROVE  Inductive'
<1>1. TypeOK'
  BY IdleType DEF Inductive, TypeOK
<1>2. req'[w] = Idle /\ \A u \in Worker \ {w} : req'[u] = req[u]
  BY DEF Inductive, TypeOK
<1>3. \A u \in Worker : ~HoldsProviders(u)'
  BY <1>2 DEF Inductive, ProviderInv, HoldsProviders, Idle
<1>4. \A u \in Worker : ProviderRequestOK(u)'
  BY <1>3 DEF ProviderRequestOK, HoldsProviders, At
<1>5. SoftwareInv'
  BY IdleType, SoftwareFrame DEF Inductive, Idle
<1> QED BY <1>1, <1>3, <1>4, <1>5 DEF Inductive, ProviderInv

\* After an activation no other provider is the default, whether or not save()
\* finds the target's own flag dirty.
LEMMA ActivateSaveStep == ASSUME Inductive, NEW w \in Worker, ActivateSave(w) PROVE Inductive'
<1> DEFINE p == req[w].id
           cleared == [q \in Provider |->
             IF providers[q] = Null THEN Null ELSE [providers[q] EXCEPT !.default = FALSE]]
           new == [active |-> Dirty(cleared[p].active, req[w].row.active, TRUE),
                   default |-> Dirty(cleared[p].default, req[w].row.default, TRUE)]
<1>1. /\ At(w, "activate.save")
      /\ providers' = [cleared EXCEPT ![p] = new]
      /\ req' = [req EXCEPT ![w] = Idle] /\ software' = software
  BY DEF ActivateSave, Finish, Become
<1>2. p \in Provider /\ providers[p] # Null /\ req[w].row \in Row
  BY <1>1 DEF Inductive, ProviderInv, ProviderRequestOK
<1>3. cleared \in [Provider -> Row \cup {Null}]
  <2> SUFFICES ASSUME NEW q \in Provider PROVE cleared[q] \in Row \cup {Null}
    OBVIOUS
  <2>1. providers[q] \in Row \cup {Null}
    BY DEF Inductive, TypeOK
  <2> QED BY <2>1 DEF Row
<1>4. \A q \in Provider : cleared[q] # Null => ~cleared[q].default
  <2> TAKE q \in Provider
  <2>1. providers[q] \in Row \cup {Null}
    BY DEF Inductive, TypeOK
  <2> QED BY <2>1 DEF Row
<1>5. cleared[p] \in Row
  <2>1. providers[p] \in Row
    BY <1>2 DEF Inductive, TypeOK
  <2> QED BY <1>2, <2>1 DEF Row
<1>6. new \in Row
  BY <1>2, <1>5 DEF Row, Dirty
<1> HIDE DEF new, cleared
<1>7. providers' \in [Provider -> Row \cup {Null}]
  BY <1>1, <1>3, <1>6
<1>8. \A q \in Provider \ {p} : providers'[q] # Null => ~providers'[q].default
  BY <1>1, <1>3, <1>4
<1>9. AtMostOne'
  BY <1>8 DEF AtMostOne
<1> QED BY <1>1, <1>7, <1>9, ProviderWriteStep DEF HoldsProviders, At

\* The seeder sets the flag of the local provider only when no row has one.
LEMMA SeedSaveStep == ASSUME Inductive, NEW w \in Worker, SeedSave(w) PROVE Inductive'
<1> DEFINE Created(p) == IF p = Local THEN [active |-> TRUE, default |-> ~req[w].current]
                                      ELSE [active |-> FALSE, default |-> FALSE]
<1>1. /\ At(w, "seed.save")
      /\ providers' = [p \in Provider |->
            IF providers[p] = Null
            THEN IF p \in {Local} \cup Catalogue THEN Created(p) ELSE Null
            ELSE IF p = Local /\ ~req[w].current
            THEN [active |-> TRUE, default |-> TRUE]
            ELSE providers[p]]
      /\ req' = [req EXCEPT ![w] = Idle] /\ software' = software
  BY DEF SeedSave, Finish, Become
<1>2. req[w].current \in BOOLEAN
  BY DEF Inductive, TypeOK, Request
<1>3. req[w].current = HasDefault
  BY <1>1 DEF Inductive, ProviderInv, ProviderRequestOK
<1>4. \A p \in Provider : Created(p) \in Row /\ (p # Local => ~Created(p).default)
  BY <1>2 DEF Row
<1>5. providers' \in [Provider -> Row \cup {Null}]
  <2> SUFFICES ASSUME NEW p \in Provider PROVE providers'[p] \in Row \cup {Null}
    BY <1>1
  <2>1. providers[p] \in Row \cup {Null}
    BY DEF Inductive, TypeOK
  <2>2. [active |-> TRUE, default |-> TRUE] \in Row
    BY DEF Row
  <2> HIDE DEF Created
  <2> QED BY <1>1, <1>4, <2>1, <2>2
<1>6. \A p \in Provider \ {Local} :
        providers'[p] # Null /\ providers'[p].default => providers[p] # Null /\ providers[p].default
  <2> HIDE DEF Created
  <2> QED BY <1>1, <1>4
<1>7. AtMostOne'
  <2>1. CASE req[w].current
    <3>1. \A p \in Provider : providers'[p] # Null /\ providers'[p].default =>
             providers[p] # Null /\ providers[p].default
      BY <1>1, <2>1
    <3> QED BY <3>1 DEF AtMostOne, Inductive, ProviderInv
  <2>2. CASE ~req[w].current
    BY <1>3, <1>6, <2>2 DEF AtMostOne, HasDefault
  <2> QED BY <1>2, <2>1, <2>2
<1> HIDE DEF Created
<1> QED BY <1>1, <1>5, <1>7, ProviderWriteStep DEF HoldsProviders, At

-----------------------------------------------------------------------------
(* The theorems *)

\* A request that ends without a commit leaves both tables as they are.
LEMMA AbortStep == ASSUME Inductive, NEW w \in Worker, Abort(w) PROVE Inductive'
<1>1. req' = [req EXCEPT ![w] = Idle] /\ UNCHANGED <<software, providers>>
  BY DEF Abort, Finish, Become
<1>2. TypeOK'
  BY <1>1, IdleType DEF Inductive, TypeOK
<1>3. Idle.pc = "idle"
  BY DEF Idle
<1> QED BY <1>1, <1>2, <1>3, IdleType, SoftwareFrame, ProviderFrame DEF Inductive

\* The migration's product is the default; nothing is locked and no provider exists.
LEMMA InitInductive == Init => Inductive
<1> SUFFICES ASSUME Init PROVE Inductive
  OBVIOUS
<1> PICK first \in Software :
      software = [s \in Software |->
          IF s = first THEN [active |-> TRUE, default |-> TRUE] ELSE Null]
  BY DEF Init
<1>1. \A w \in Worker : req[w] = Idle
  BY DEF Init
<1>2. TypeOK
  BY IdleType DEF Init, TypeOK, Row
<1>3. OneActiveDefault
  <2>1. [active |-> TRUE, default |-> TRUE] \in Row
    BY DEF Row
  <2>2. software[first] = [active |-> TRUE, default |-> TRUE]
    OBVIOUS
  <2>3. software[first] # Null
    BY <2>1, <2>2, NullAssumption
  <2> QED BY <2>2, <2>3 DEF OneActiveDefault
<1>4. SoftwareInv
  BY <1>1, <1>3 DEF SoftwareInv, SoftwareRequestOK, RowLocksExclude, At, Idle
<1>5. ProviderInv
  BY <1>1 DEF Init, ProviderInv, ProviderRequestOK, HoldsProviders, AtMostOne, At, Idle
<1> QED BY <1>2, <1>4, <1>5 DEF Inductive

\* Every state that toggles, default changes, activations and seeders reach
\* satisfies the invariant that ties the locks to what their holders have read.
THEOREM InductiveCorrect == Spec => []Inductive
<1>1. Inductive /\ [Next]_vars => Inductive'
  <2> SUFFICES ASSUME Inductive, [Next]_vars PROVE Inductive'
    OBVIOUS
  <2>1. ASSUME NEW w \in Worker, SoftwareStep(w) PROVE Inductive'
    BY <2>1, CreateStep, ToggleActiveStep, ToggleSaveStep, SetDefaultStep,
       DefaultLockStep, DefaultSaveStep DEF SoftwareStep
  <2>2. ASSUME NEW w \in Worker, ProviderStep(w) PROVE Inductive'
    BY <2>2, CreateProviderStep, ProviderReadSteps, ActivateSaveStep, SeedSaveStep
       DEF ProviderStep
  <2>3. ASSUME NEW w \in Worker, Abort(w) PROVE Inductive'
    BY <2>3, AbortStep
  <2>4. CASE UNCHANGED vars
    <3>1. TypeOK'
      BY <2>4 DEF Inductive, TypeOK, vars
    <3> QED BY <2>4, <3>1, StillFrame DEF Inductive, vars
  <2> QED BY <2>1, <2>2, <2>3, <2>4 DEF Next
<1> QED BY <1>1, InitInductive, PTL DEF Spec

\* Columns and requests keep their types, for any number of products, providers
\* and concurrent requests.
THEOREM TypeCorrect == Spec => []TypeOK
<1>1. Inductive => TypeOK
  BY DEF Inductive
<1> QED BY <1>1, InductiveCorrect, PTL

\* toggleActive and setDefault, whatever their number, leave exactly one default
\* product, and it is active.
THEOREM DefaultProductCorrect == Spec => []OneActiveDefault
<1>1. Inductive => OneActiveDefault
  BY DEF Inductive, SoftwareInv
<1> QED BY <1>1, InductiveCorrect, PTL

\* activateProvider and any number of seeders never leave two default providers.
THEOREM DefaultProviderCorrect == Spec => []AtMostOneDefaultProvider
<1>1. AtMostOne => AtMostOneDefaultProvider
  <2> SUFFICES ASSUME AtMostOne PROVE AtMostOneDefaultProvider
    OBVIOUS
  <2> DEFINE D == {p \in Provider : providers[p] # Null /\ providers[p].default}
  <2>1. CASE D = {}
    BY <2>1, FS_EmptySet DEF AtMostOneDefaultProvider
  <2>2. CASE D # {}
    <3> PICK p \in D : TRUE
      BY <2>2
    <3>1. D = {p}
      BY DEF AtMostOne
    <3>2. Cardinality(D) = 1
      <4> HIDE DEF D
      <4> QED BY <3>1, FS_Singleton
    <3> QED BY <3>2 DEF AtMostOneDefaultProvider
  <2> QED BY <2>1, <2>2
<1>2. Inductive => AtMostOneDefaultProvider
  BY <1>1 DEF Inductive, ProviderInv
<1> QED BY <1>2, InductiveCorrect, PTL
=============================================================================
