-------------------------- MODULE LicensesProofs --------------------------
(***************************************************************************)
(* Proofs about Licenses, for any number of licenses, activations,         *)
(* machines, key pairs and concurrent requests.                            *)
(***************************************************************************)
EXTENDS Licenses, FiniteSetTheorems, TLAPS

-----------------------------------------------------------------------------
(* The inductive invariant: what a request has read is still so at its     *)
(* commit, because of the row lock and the key lock.                       *)

\* What the row lock and the reads under it give a request.
RequestOK(r) ==
    /\ r.pc # "idle" =>
         r.id \in License /\ licenses[r.id] # Null /\ licenses[r.id] = r.row /\ ~r.row.deleted
    /\ r.pc \in {"issue.count", "issue.key", "issue.save"} =>
         r.machine \in Machine /\ r.row.status = "active"
    /\ r.pc \in {"issue.key", "issue.save"} =>
         /\ r.total = Cardinality(Of(r.id)) /\ r.total < r.row.max
         /\ \A a \in Of(r.id) : activations[a].machine # r.machine
    /\ r.pc = "issue.save" => r.key \in Key /\ (~r.generated => r.key = setting.private)
    /\ r.pc # "issue.save" => ~r.generated
    /\ r.pc \in {"remove.count", "remove.save"} => r.activation \in Activation
    /\ r.pc = "remove.save" =>
         /\ r.activation \in Of(r.id)
         /\ r.total = Cardinality(Of(r.id) \ {r.activation})

\* A license row and the key lock have one holder.
LocksExclude ==
    \A u, w \in Worker : u # w =>
        /\ req[u].pc # "idle" /\ req[w].pc # "idle" => req[u].id # req[w].id
        /\ ~(req[u].pc = "issue.save" /\ req[w].pc = "issue.save")

\* The two key settings are written together, and a live private key is a key.
KeyPairStored ==
    /\ setting.private = setting.public
    /\ setting.live => setting.private \in Key

\* Activations have a license, and each license finitely many of them.
ActivationsOwned ==
    /\ \A a \in Activation : activations[a] # Null => licenses[activations[a].license] # Null
    /\ \A l \in License : IsFiniteSet(Of(l))

Inductive ==
    /\ TypeOK
    /\ \A w \in Worker : RequestOK(req[w])
    /\ LocksExclude
    /\ KeyPairStored
    /\ ActivationsOwned
    /\ ActivationCountExact
    /\ MachineActivatedOnce
    /\ TokensVerify

-----------------------------------------------------------------------------
(* Frames *)

\* A worker without a request is in a typed state.
LEMMA IdleFacts == Idle \in Request /\ Idle.pc = "idle" /\ Idle.generated = FALSE
BY DEF Idle, Request, Steps

\* A request with the row lock of its license, and with what its step needs, changes
\* no table.
LEMMA QuietStep ==
    ASSUME Inductive, NEW w \in Worker, NEW r \in Request,
           req' = [req EXCEPT ![w] = r],
           UNCHANGED <<licenses, activations, setting, now>>,
           RequestOK(r),
           r.pc # "idle" => \A u \in Worker \ {w} : req[u].pc = "idle" \/ req[u].id # r.id,
           r.pc = "issue.save" => \A u \in Worker \ {w} : req[u].pc # "issue.save"
    PROVE  Inductive'
<1>1. req'[w] = r /\ \A u \in Worker \ {w} : req'[u] = req[u]
  BY DEF Inductive, TypeOK
<1>2. TypeOK'
  BY DEF Inductive, TypeOK
<1>3. \A u \in Worker : RequestOK(req[u])'
  <2> SUFFICES ASSUME NEW u \in Worker PROVE RequestOK(req[u])'
    OBVIOUS
  <2> DEFINE q == req'[u]
  <2>1. RequestOK(q)
    BY <1>1 DEF Inductive
  <2>2. \A l : Of(l)' = Of(l)
    BY DEF Of
  <2>3. Of(req[u].id)' = Of(q.id)
    BY DEF Of
  <2>4. licenses' = licenses /\ activations' = activations /\ setting' = setting
    OBVIOUS
  <2> HIDE DEF q
  <2>5. q = req'[u]
    BY DEF q
  <2> QED BY <2>1, <2>3, <2>4, <2>5 DEF RequestOK
<1>4. LocksExclude'
  BY <1>1 DEF Inductive, LocksExclude
<1>5. KeyPairStored' /\ ActivationsOwned' /\ ActivationCountExact'
  BY DEF Inductive, KeyPairStored, ActivationsOwned, ActivationCountExact, Of
<1>6. MachineActivatedOnce' /\ TokensVerify'
  BY DEF Inductive, MachineActivatedOnce, TokensVerify
<1> QED BY <1>2, <1>3, <1>4, <1>5, <1>6 DEF Inductive

\* A row that no request has locked is written, its count left right.
LEMMA RowStep ==
    ASSUME Inductive, UNCHANGED <<activations, setting, now, req>>,
           NEW l \in License, NEW new \in LicenseRow,
           licenses' = [licenses EXCEPT ![l] = new],
           \A u \in Worker : req[u].pc = "idle" \/ req[u].id # l,
           new.count = Cardinality(Of(l))
    PROVE  Inductive'
<1>1. licenses'[l] = new /\ \A j \in License \ {l} : licenses'[j] = licenses[j]
  BY DEF Inductive, TypeOK
<1>2. TypeOK'
  BY DEF Inductive, TypeOK
<1>3. \A j : Of(j)' = Of(j)
  BY DEF Of
<1>4. \A u \in Worker : RequestOK(req[u])'
  <2> SUFFICES ASSUME NEW u \in Worker PROVE RequestOK(req[u])'
    OBVIOUS
  <2> DEFINE q == req[u]
  <2>1. RequestOK(q)
    BY DEF Inductive
  <2>2. q.pc # "idle" => licenses'[q.id] = licenses[q.id]
    BY <1>1, <2>1 DEF RequestOK
  <2>3. Of(req[u].id)' = Of(q.id) /\ req'[u] = q
    BY DEF Of
  <2> HIDE DEF q
  <2> QED BY <2>1, <2>2, <2>3 DEF RequestOK
<1>5. LocksExclude'
  BY DEF Inductive, LocksExclude
<1>6. KeyPairStored' /\ TokensVerify' /\ MachineActivatedOnce'
  BY DEF Inductive, KeyPairStored, TokensVerify, MachineActivatedOnce
<1>7. ActivationsOwned'
  BY <1>1, <1>3, NullAssumption DEF Inductive, ActivationsOwned, TypeOK, ActivationRow
<1>8. ActivationCountExact'
  BY <1>1, <1>3 DEF Inductive, ActivationCountExact
<1> QED BY <1>2, <1>4, <1>5, <1>6, <1>7, <1>8 DEF Inductive

\* A request commits: the row and the activations of its license change, and the
\* key settings under the key lock.
LEMMA CommitStep ==
    ASSUME Inductive, NEW w \in Worker, req[w].pc # "idle", TypeOK',
           req' = [req EXCEPT ![w] = Idle],
           \A j \in License \ {req[w].id} :
               /\ licenses'[j] = licenses[j]
               /\ Of(j)' = Of(j)
               /\ \A a \in Of(j) : activations'[a] = activations[a],
           setting' = setting \/ req[w].pc = "issue.save",
           KeyPairStored', ActivationsOwned', ActivationCountExact',
           MachineActivatedOnce', TokensVerify'
    PROVE  Inductive'
<1>1. req'[w] = Idle /\ \A u \in Worker \ {w} : req'[u] = req[u]
  BY DEF Inductive, TypeOK
<1>2. \A u \in Worker : RequestOK(req[u])'
  <2> SUFFICES ASSUME NEW u \in Worker PROVE RequestOK(req[u])'
    OBVIOUS
  <2>1. CASE u = w
    BY <1>1, <2>1, IdleFacts DEF RequestOK
  <2>2. CASE u # w
    <3> DEFINE q == req[u]
    <3>0. RequestOK(q) /\ req'[u] = q
      BY <1>1, <2>2 DEF Inductive
    <3>1. /\ q.pc # "idle" => q.id # req[w].id
          /\ q.pc = "issue.save" => setting' = setting
      BY <2>2 DEF Inductive, LocksExclude
    <3>2. q.pc # "idle" => q.id \in License
      BY <3>0 DEF RequestOK
    <3>3. q.pc # "idle" =>
            /\ licenses'[q.id] = licenses[q.id]
            /\ \A a \in Of(q.id) : activations'[a] = activations[a]
      BY <3>1, <3>2
    <3>4. q.pc # "idle" => Of(req[u].id)' = Of(q.id)
      <4> SUFFICES ASSUME q.pc # "idle" PROVE Of(req[u].id)' = Of(q.id)
        OBVIOUS
      <4>1. \A j \in License \ {req[w].id} :
              {a \in Activation : activations'[a] # Null /\ activations'[a].live
                                    /\ activations'[a].license = j} = Of(j)
        BY DEF Of
      <4>2. Of(req[u].id)' = {a \in Activation : activations'[a] # Null /\ activations'[a].live
                                    /\ activations'[a].license = q.id}
        BY <3>0 DEF Of
      <4> QED BY <3>1, <3>2, <4>1, <4>2
    <3> HIDE DEF q
    <3> QED BY <3>0, <3>1, <3>3, <3>4 DEF RequestOK
  <2> QED BY <2>1, <2>2
<1>3. LocksExclude'
  BY <1>1, IdleFacts DEF Inductive, LocksExclude
<1> QED BY <1>2, <1>3 DEF Inductive

-----------------------------------------------------------------------------
(* License rows *)

\* A row that exists, is not locked, and is written with the count it had.
LEMMA UnlockedRow ==
    ASSUME Inductive, NEW l \in License, Found(l), ~Locked(l)
    PROVE  /\ licenses[l] \in LicenseRow
           /\ licenses[l].count = Cardinality(Of(l))
           /\ \A u \in Worker : req[u].pc = "idle" \/ req[u].id # l
<1>1. licenses[l] \in LicenseRow
  BY DEF Inductive, TypeOK, Found
<1>2. licenses[l].count = Cardinality(Of(l))
  BY DEF Inductive, ActivationCountExact, Found
<1> QED BY <1>1, <1>2 DEF Locked, At

\* Creating, editing, toggling and deleting a license keep its count.
LEMMA LicenseSteps == ASSUME Inductive, NEW w \in Worker, LicenseStep(w) PROVE Inductive'
<1>1. CASE CreateLicense(w)
  <2> PICK l \in License, status \in Status, max \in Limit, expires \in Time \cup {Null} :
        /\ licenses[l] = Null
        /\ licenses' = [licenses EXCEPT ![l] =
              [status |-> status, max |-> max, count |-> 0,
               expires |-> expires, deleted |-> FALSE]]
    BY <1>1 DEF CreateLicense
  <2> DEFINE new == [status |-> status, max |-> max, count |-> 0,
                     expires |-> expires, deleted |-> FALSE]
  <2>1. new \in LicenseRow /\ new.count = 0
    BY DEF LicenseRow
  <2>2. licenses' = [licenses EXCEPT ![l] = new]
    OBVIOUS
  <2> HIDE DEF new
  <2>3. Of(l) = {}
    BY DEF Of, Inductive, ActivationsOwned
  <2>4. \A u \in Worker : req[u].pc = "idle" \/ req[u].id # l
    BY DEF Inductive, RequestOK
  <2> QED BY <1>1, <2>1, <2>2, <2>3, <2>4, FS_EmptySet, RowStep DEF CreateLicense
<1>2. CASE UpdateLicense(w)
  <2> PICK l \in License, status \in Status, max \in Limit, expires \in Time \cup {Null} :
        /\ Found(l) /\ ~Locked(l)
        /\ licenses' = [licenses EXCEPT ![l] =
              [@ EXCEPT !.status = status, !.max = max, !.expires = expires]]
    BY <1>2 DEF UpdateLicense
  <2> DEFINE new == [licenses[l] EXCEPT !.status = status, !.max = max, !.expires = expires]
  <2>1. new \in LicenseRow /\ new.count = licenses[l].count
    BY UnlockedRow DEF LicenseRow
  <2>2. licenses' = [licenses EXCEPT ![l] = new]
    OBVIOUS
  <2> HIDE DEF new
  <2> QED BY <1>2, <2>1, <2>2, UnlockedRow, RowStep DEF UpdateLicense
<1>3. CASE ToggleLicense(w)
  <2> PICK l \in License :
        /\ Found(l) /\ ~Locked(l)
        /\ licenses' = [licenses EXCEPT ![l].status =
              IF @ = "active" THEN "inactive" ELSE "active"]
    BY <1>3 DEF ToggleLicense
  <2> DEFINE s == IF licenses[l].status = "active" THEN "inactive" ELSE "active"
             new == [licenses[l] EXCEPT !.status = s]
  <2>0. s \in Status
    BY DEF Status
  <2>2. licenses' = [licenses EXCEPT ![l] = new]
    OBVIOUS
  <2> HIDE DEF s
  <2>1. new \in LicenseRow /\ new.count = licenses[l].count
    BY <2>0, UnlockedRow DEF LicenseRow
  <2> HIDE DEF new
  <2> QED BY <1>3, <2>1, <2>2, UnlockedRow, RowStep DEF ToggleLicense
<1>4. CASE DeleteLicense(w)
  <2> PICK l \in License :
        /\ Found(l) /\ ~Locked(l)
        /\ licenses' = [licenses EXCEPT ![l].deleted = TRUE]
    BY <1>4 DEF DeleteLicense
  <2> DEFINE new == [licenses[l] EXCEPT !.deleted = TRUE]
  <2>1. new \in LicenseRow /\ new.count = licenses[l].count
    BY UnlockedRow DEF LicenseRow
  <2>2. licenses' = [licenses EXCEPT ![l] = new]
    OBVIOUS
  <2> HIDE DEF new
  <2> QED BY <1>4, <2>1, <2>2, UnlockedRow, RowStep DEF DeleteLicense
<1> QED BY <1>1, <1>2, <1>3, <1>4 DEF LicenseStep

-----------------------------------------------------------------------------
(* issueActivationToken and removeActivation *)

\* The row lock is taken when it is free, and the row loaded under it.
LEMMA LockSteps ==
    ASSUME Inductive, NEW w \in Worker, IssueLock(w) \/ RemoveLock(w) PROVE Inductive'
<1>1. CASE IssueLock(w)
  <2> PICK l \in License, m \in Machine :
        /\ Found(l) /\ ~Locked(l)
        /\ licenses[l].status = "active"
        /\ Become(w, [Idle EXCEPT !.pc = "issue.count", !.id = l,
                                  !.row = licenses[l], !.machine = m])
    BY <1>1 DEF IssueLock
  <2> DEFINE r == [Idle EXCEPT !.pc = "issue.count", !.id = l,
                               !.row = licenses[l], !.machine = m]
  <2>0. licenses[l] \in LicenseRow
    BY UnlockedRow
  <2>1. /\ r \in Request /\ r.pc = "issue.count" /\ r.id = l /\ r.row = licenses[l]
        /\ r.machine = m /\ r.generated = FALSE
    BY <2>0 DEF Idle, Request, Steps
  <2>2. req' = [req EXCEPT ![w] = r]
    BY DEF Become
  <2> HIDE DEF r
  <2>3. RequestOK(r)
    BY <2>1 DEF RequestOK, Found
  <2> QED BY <1>1, <2>1, <2>2, <2>3, UnlockedRow, QuietStep DEF IssueLock
<1>2. CASE RemoveLock(w)
  <2> PICK l \in License, a \in Activation :
        /\ Found(l) /\ ~Locked(l)
        /\ Become(w, [Idle EXCEPT !.pc = "remove.count", !.id = l,
                                  !.row = licenses[l], !.activation = a])
    BY <1>2 DEF RemoveLock
  <2> DEFINE r == [Idle EXCEPT !.pc = "remove.count", !.id = l,
                               !.row = licenses[l], !.activation = a]
  <2>0. licenses[l] \in LicenseRow
    BY UnlockedRow
  <2>1. /\ r \in Request /\ r.pc = "remove.count" /\ r.id = l /\ r.row = licenses[l]
        /\ r.activation = a /\ r.generated = FALSE
    BY <2>0 DEF Idle, Request, Steps
  <2>2. req' = [req EXCEPT ![w] = r]
    BY DEF Become
  <2> HIDE DEF r
  <2>3. RequestOK(r)
    BY <2>1 DEF RequestOK, Found
  <2> QED BY <1>2, <2>1, <2>2, <2>3, UnlockedRow, QuietStep DEF RemoveLock
<1> QED BY <1>1, <1>2

\* What a request in flight has.
LEMMA RequestFacts ==
    ASSUME Inductive, NEW w \in Worker
    PROVE  /\ req[w] \in Request /\ RequestOK(req[w])
           /\ req[w].pc # "idle" =>
                /\ \A u \in Worker \ {w} : req[u].pc = "idle" \/ req[u].id # req[w].id
                /\ IsFiniteSet(Of(req[w].id)) /\ Cardinality(Of(req[w].id)) \in Nat
<1>1. req[w] \in Request /\ RequestOK(req[w])
  BY DEF Inductive, TypeOK
<1>2. req[w].pc # "idle" => req[w].id \in License
  BY <1>1 DEF RequestOK
<1>3. req[w].pc # "idle" => IsFiniteSet(Of(req[w].id))
  BY <1>2 DEF Inductive, ActivationsOwned
<1>4. req[w].pc # "idle" => Cardinality(Of(req[w].id)) \in Nat
  BY <1>3, FS_CardinalityType
<1> QED BY <1>1, <1>3, <1>4 DEF Inductive, LocksExclude

\* Reading the activations under the row lock.
LEMMA CountSteps ==
    ASSUME Inductive, NEW w \in Worker, IssueCount(w) \/ RemoveCount(w) PROVE Inductive'
<1> DEFINE q == req[w]
<1>0. q \in Request /\ RequestOK(q)
  BY RequestFacts
<1>1. CASE IssueCount(w)
  <2> DEFINE r == [req[w] EXCEPT !.pc = "issue.key", !.total = Cardinality(Of(q.id))]
  <2>1. q.pc = "issue.count" /\ req' = [req EXCEPT ![w] = r]
        /\ (\A a \in Of(q.id) : activations[a].machine # q.machine)
        /\ Cardinality(Of(q.id)) < q.row.max
    BY <1>1 DEF IssueCount, At, Become
  <2>2. /\ r \in Request /\ r.pc = "issue.key" /\ r.id = q.id /\ r.row = q.row
        /\ r.machine = q.machine /\ r.total = Cardinality(Of(q.id))
        /\ r.generated = q.generated
    <3>1. Cardinality(Of(q.id)) \in Nat
      BY <2>1, RequestFacts
    <3> QED BY <1>0, <3>1 DEF Request, Steps
  <2> HIDE DEF r
  <2>3. RequestOK(r)
    BY <1>0, <2>1, <2>2 DEF RequestOK
  <2> QED BY <1>1, <2>1, <2>2, <2>3, RequestFacts, QuietStep DEF IssueCount
<1>2. CASE RemoveCount(w)
  <2> DEFINE r == [req[w] EXCEPT !.pc = "remove.save",
                                 !.total = Cardinality(Of(q.id) \ {q.activation})]
  <2>1. q.pc = "remove.count" /\ req' = [req EXCEPT ![w] = r] /\ q.activation \in Of(q.id)
    BY <1>2 DEF RemoveCount, At, Become
  <2>2. /\ r \in Request /\ r.pc = "remove.save" /\ r.id = q.id /\ r.row = q.row
        /\ r.activation = q.activation /\ r.generated = q.generated
        /\ r.total = Cardinality(Of(q.id) \ {q.activation})
    <3>1. IsFiniteSet(Of(q.id) \ {q.activation})
      BY <2>1, RequestFacts, FS_RemoveElement
    <3>2. Cardinality(Of(q.id) \ {q.activation}) \in Nat
      BY <3>1, FS_CardinalityType
    <3> QED BY <1>0, <3>2 DEF Request, Steps
  <2> HIDE DEF r
  <2>3. RequestOK(r)
    BY <1>0, <2>1, <2>2 DEF RequestOK
  <2> QED BY <1>2, <2>1, <2>2, <2>3, RequestFacts, QuietStep DEF RemoveCount
<1> QED BY <1>1, <1>2

\* The key lock is taken when it is free; the key is the stored one or a new one.
LEMMA IssueKeyStep == ASSUME Inductive, NEW w \in Worker, IssueKey(w) PROVE Inductive'
<1> DEFINE q == req[w]
<1>0. q \in Request /\ RequestOK(q)
  BY RequestFacts
<1>1. /\ q.pc = "issue.key" /\ UNCHANGED <<licenses, activations, setting, now>>
      /\ \A u \in Worker : req[u].pc # "issue.save"
  BY DEF IssueKey, At, KeyLocked
<1>2. ASSUME NEW r \in Request, r.pc = "issue.save", r.id = q.id, r.row = q.row,
             r.machine = q.machine, r.total = q.total, r.key \in Key,
             ~r.generated => r.key = setting.private, req' = [req EXCEPT ![w] = r]
      PROVE  Inductive'
  <2>1. RequestOK(r)
    BY <1>0, <1>1, <1>2 DEF RequestOK
  <2> QED BY <1>1, <1>2, <2>1, RequestFacts, QuietStep
<1>3. CASE setting.live /\ Become(w, [req[w] EXCEPT !.pc = "issue.save", !.key = setting.private])
  <2> DEFINE r == [req[w] EXCEPT !.pc = "issue.save", !.key = setting.private]
  <2>1. setting.private \in Key
    BY <1>3 DEF Inductive, KeyPairStored
  <2>2. /\ r \in Request /\ r.pc = "issue.save" /\ r.id = q.id /\ r.row = q.row
        /\ r.machine = q.machine /\ r.total = q.total /\ r.key = setting.private
    BY <1>0, <2>1 DEF Request, Steps
  <2>3. req' = [req EXCEPT ![w] = r]
    BY <1>3 DEF Become
  <2> HIDE DEF r
  <2> QED BY <1>2, <2>1, <2>2, <2>3
<1>4. ASSUME NEW k \in Key, Become(w, [req[w] EXCEPT !.pc = "issue.save", !.key = k,
                                                    !.generated = TRUE])
      PROVE  Inductive'
  <2> DEFINE r == [req[w] EXCEPT !.pc = "issue.save", !.key = k, !.generated = TRUE]
  <2>1. /\ r \in Request /\ r.pc = "issue.save" /\ r.id = q.id /\ r.row = q.row
        /\ r.machine = q.machine /\ r.total = q.total /\ r.key = k /\ r.generated = TRUE
    BY <1>0 DEF Request, Steps
  <2>2. req' = [req EXCEPT ![w] = r]
    BY <1>4 DEF Become
  <2> HIDE DEF r
  <2> QED BY <1>2, <2>1, <2>2
<1> QED BY <1>3, <1>4 DEF IssueKey

\* save() stores the new count whether or not it finds the column dirty, for the
\* model was loaded under the lock.
LEMMA CountSaved ==
    ASSUME Inductive, NEW w \in Worker, req[w].pc # "idle", NEW n \in Nat,
           licenses' = [licenses EXCEPT ![req[w].id].count = Dirty(@, req[w].row.count, n)]
    PROVE  /\ req[w].id \in License /\ licenses[req[w].id] \in LicenseRow
           /\ licenses' \in [License -> LicenseRow \cup {Null}]
           /\ licenses'[req[w].id].count = n /\ licenses'[req[w].id] \in LicenseRow
           /\ \A j \in License \ {req[w].id} : licenses'[j] = licenses[j]
<1>1. /\ req[w].id \in License /\ licenses[req[w].id] = req[w].row
      /\ licenses[req[w].id] # Null
  BY RequestFacts DEF RequestOK
<1>2. licenses \in [License -> LicenseRow \cup {Null}] /\ licenses[req[w].id] \in LicenseRow
  BY <1>1 DEF Inductive, TypeOK
<1>3. licenses' = [licenses EXCEPT ![req[w].id] = [licenses[req[w].id] EXCEPT !.count = n]]
  BY <1>1, <1>2 DEF Dirty
<1>4. [licenses[req[w].id] EXCEPT !.count = n] \in LicenseRow
      /\ [licenses[req[w].id] EXCEPT !.count = n].count = n
  BY <1>2 DEF LicenseRow
<1> QED BY <1>1, <1>2, <1>3, <1>4

\* The activation that is added is for another machine, with the one key that has
\* ever been stored.
LEMMA IssueSaveStep == ASSUME Inductive, NEW w \in Worker, IssueSave(w) PROVE Inductive'
<1> PICK a \in Activation :
      /\ activations[a] = Null
      /\ activations' = [activations EXCEPT ![a] =
            [license |-> req[w].id, machine |-> req[w].machine,
             key |-> req[w].key, live |-> TRUE]]
  BY DEF IssueSave
<1>0. /\ req[w].pc = "issue.save" /\ (req[w].generated => setting.private = Null)
      /\ licenses' = [licenses EXCEPT ![req[w].id].count =
            Dirty(@, req[w].row.count, req[w].total + 1)]
      /\ setting' = IF req[w].generated
            THEN [private |-> req[w].key, live |-> TRUE, public |-> req[w].key]
            ELSE setting
      /\ req' = [req EXCEPT ![w] = Idle] /\ now' = now
  BY DEF IssueSave, At, Finish, Become
<1> PICK l \in License : l = req[w].id
  BY <1>0, RequestFacts DEF RequestOK
<1> PICK m \in Machine : m = req[w].machine
  BY <1>0, RequestFacts DEF RequestOK
<1> PICK k \in Key : k = req[w].key
  BY <1>0, RequestFacts DEF RequestOK
<1>1. /\ req[w].total = Cardinality(Of(l)) /\ req[w].total \in Nat
      /\ \A b \in Of(l) : activations[b].machine # m
      /\ ~req[w].generated => k = setting.private
      /\ req[w].generated \in BOOLEAN
      /\ licenses[l] # Null
  BY <1>0, RequestFacts DEF RequestOK, Request
<1>2. /\ licenses' \in [License -> LicenseRow \cup {Null}]
      /\ licenses'[l].count = Cardinality(Of(l)) + 1 /\ licenses'[l] # Null
      /\ \A j \in License \ {l} : licenses'[j] = licenses[j]
  <2> DEFINE n == req[w].total + 1
  <2>1. n \in Nat
    BY <1>1
  <2>2. licenses' = [licenses EXCEPT ![req[w].id].count = Dirty(@, req[w].row.count, n)]
    BY <1>0
  <2> HIDE DEF n
  <2>3. /\ licenses' \in [License -> LicenseRow \cup {Null}]
        /\ licenses'[req[w].id].count = n /\ licenses'[req[w].id] \in LicenseRow
        /\ \A j \in License \ {req[w].id} : licenses'[j] = licenses[j]
    BY <1>0, <2>1, <2>2, CountSaved
  <2> QED BY <1>1, <2>3, NullAssumption DEF n
<1> DEFINE new == [license |-> l, machine |-> m, key |-> k, live |-> TRUE]
<1>3. /\ new \in ActivationRow /\ new.license = l /\ new.machine = m /\ new.key = k /\ new.live
      /\ activations' = [activations EXCEPT ![a] = new]
  BY DEF ActivationRow
<1> HIDE DEF new
<1>4. /\ activations'[a] = new /\ new # Null
      /\ \A b \in Activation \ {a} : activations'[b] = activations[b]
      /\ activations' \in [Activation -> ActivationRow \cup {Null}]
  BY <1>3, NullAssumption DEF Inductive, TypeOK
<1>5. /\ Of(l)' = Of(l) \cup {a} /\ a \notin Of(l)
      /\ \A j \in License \ {l} : Of(j)' = Of(j) /\ a \notin Of(j)
  <2>1. \A j : a \notin Of(j)
    BY DEF Of
  <2>2. Of(l)' = Of(l) \cup {a}
    BY <1>3, <1>4 DEF Of
  <2>3. ASSUME NEW j \in License \ {l} PROVE Of(j)' = Of(j)
    BY <1>3, <1>4 DEF Of
  <2> QED BY <2>1, <2>2, <2>3
<1>6. IsFiniteSet(Of(l)') /\ Cardinality(Of(l)') = Cardinality(Of(l)) + 1
  <2>1. IsFiniteSet(Of(l))
    BY DEF Inductive, ActivationsOwned
  <2> QED BY <1>5, <2>1, FS_AddElement
<1>7. /\ setting' \in SettingRows /\ KeyPairStored' /\ setting'.public = k
      /\ setting.public = k \/ setting.public = Null
  <2>1. setting \in SettingRows /\ KeyPairStored
    BY DEF Inductive, TypeOK
  <2>2. CASE req[w].generated
    <3>1. setting' = [private |-> k, live |-> TRUE, public |-> k]
      BY <1>0, <2>2
    <3> QED BY <1>0, <2>1, <2>2, <3>1 DEF SettingRows, KeyPairStored
  <2>3. CASE ~req[w].generated
    BY <1>0, <1>1, <2>1, <2>3 DEF KeyPairStored
  <2> QED BY <2>2, <2>3
<1>8. TypeOK'
  BY <1>0, <1>2, <1>4, <1>7, IdleFacts DEF Inductive, TypeOK
<1>9. TokensVerify'
  <2>1. \A b \in Activation : activations[b] # Null => activations[b].key \in Key
    BY DEF Inductive, TypeOK, ActivationRow
  <2>2. \A b \in Activation : activations[b] # Null => activations[b].key = k
    BY <1>7, <2>1, NullAssumption DEF Inductive, TokensVerify
  <2> QED BY <1>3, <1>4, <1>7, <2>2 DEF TokensVerify
<1>10. MachineActivatedOnce'
  <2>1. \A b \in Activation \ {a} : activations[b] # Null /\ activations[b].live
           /\ activations[b].license = l => activations[b].machine # m
    BY <1>1 DEF Of
  <2>2. MachineActivatedOnce
    BY DEF Inductive
  <2> QED BY <1>3, <1>4, <2>1, <2>2 DEF MachineActivatedOnce
<1>11. ActivationCountExact'
  <2> SUFFICES ASSUME NEW j \in License, licenses'[j] # Null
               PROVE  licenses'[j].count = Cardinality(Of(j)')
    BY DEF ActivationCountExact
  <2>1. CASE j = l
    BY <1>2, <1>6, <2>1
  <2>2. CASE j # l
    BY <1>2, <1>5, <2>2 DEF Inductive, ActivationCountExact
  <2> QED BY <2>1, <2>2
<1>12. ActivationsOwned'
  <2>1. \A b \in Activation : activations[b] # Null => activations[b].license \in License
    BY DEF Inductive, TypeOK, ActivationRow
  <2>2. \A b \in Activation : activations'[b] # Null => licenses'[activations'[b].license] # Null
    BY <1>2, <1>3, <1>4, <2>1 DEF Inductive, ActivationsOwned
  <2>3. \A j \in License : IsFiniteSet(Of(j)')
    BY <1>5, <1>6 DEF Inductive, ActivationsOwned
  <2> QED BY <2>2, <2>3 DEF ActivationsOwned
<1>13. \A j \in License \ {req[w].id} :
         /\ licenses'[j] = licenses[j]
         /\ Of(j)' = Of(j)
         /\ \A b \in Of(j) : activations'[b] = activations[b]
  <2>1. \A j \in License \ {l} : \A b \in Of(j) : activations'[b] = activations[b]
    BY <1>4, <1>5 DEF Of
  <2> QED BY <1>2, <1>5, <2>1
<1> QED BY <1>0, <1>7, <1>8, <1>9, <1>10, <1>11, <1>12, <1>13, CommitStep

\* The activation that is removed is one of the license, and was counted out.
LEMMA RemoveSaveStep == ASSUME Inductive, NEW w \in Worker, RemoveSave(w) PROVE Inductive'
<1>0. /\ req[w].pc = "remove.save"
      /\ activations' = [activations EXCEPT ![req[w].activation].live = FALSE]
      /\ licenses' = [licenses EXCEPT ![req[w].id].count =
            Dirty(@, req[w].row.count, req[w].total)]
      /\ req' = [req EXCEPT ![w] = Idle] /\ UNCHANGED <<setting, now>>
  BY DEF RemoveSave, At, Finish, Become
<1> PICK l \in License : l = req[w].id
  BY <1>0, RequestFacts DEF RequestOK
<1> PICK a \in Activation : a = req[w].activation
  BY <1>0, RequestFacts DEF RequestOK
<1>1. /\ req[w].total = Cardinality(Of(l) \ {a}) /\ req[w].total \in Nat
      /\ a \in Of(l) /\ licenses[l] # Null
  BY <1>0, RequestFacts DEF RequestOK, Request
<1>2. /\ licenses' \in [License -> LicenseRow \cup {Null}]
      /\ licenses'[l].count = Cardinality(Of(l) \ {a}) /\ licenses'[l] # Null
      /\ \A j \in License \ {l} : licenses'[j] = licenses[j]
  <2>1. /\ licenses' \in [License -> LicenseRow \cup {Null}]
        /\ licenses'[req[w].id].count = req[w].total /\ licenses'[req[w].id] \in LicenseRow
        /\ \A j \in License \ {req[w].id} : licenses'[j] = licenses[j]
    BY <1>0, <1>1, CountSaved
  <2> QED BY <1>1, <2>1, NullAssumption
<1> DEFINE new == [activations[a] EXCEPT !.live = FALSE]
<1>3. activations[a] \in ActivationRow /\ activations[a].license = l
  BY <1>1 DEF Of, Inductive, TypeOK
<1>4. /\ new \in ActivationRow /\ new.license = l /\ ~new.live /\ new.key = activations[a].key
      /\ activations' = [activations EXCEPT ![a] = new]
  BY <1>0, <1>3 DEF ActivationRow
<1> HIDE DEF new
<1>5. /\ activations'[a] = new /\ new # Null
      /\ \A b \in Activation \ {a} : activations'[b] = activations[b]
      /\ activations' \in [Activation -> ActivationRow \cup {Null}]
  BY <1>4, NullAssumption DEF Inductive, TypeOK
<1>6. /\ Of(l)' = Of(l) \ {a}
      /\ \A j \in License \ {l} : Of(j)' = Of(j) /\ a \notin Of(j)
  BY <1>3, <1>4, <1>5 DEF Of
<1>7. IsFiniteSet(Of(l)')
  <2>1. IsFiniteSet(Of(l))
    BY DEF Inductive, ActivationsOwned
  <2> QED BY <1>6, <2>1, FS_RemoveElement
<1>8. TypeOK' /\ KeyPairStored'
  BY <1>0, <1>2, <1>5, IdleFacts DEF Inductive, TypeOK, KeyPairStored
<1>9. TokensVerify'
  <2>1. activations[a] # Null
    BY <1>1 DEF Of
  <2> QED BY <1>0, <1>4, <1>5, <2>1 DEF Inductive, TokensVerify
<1>10. MachineActivatedOnce'
  BY <1>4, <1>5 DEF Inductive, MachineActivatedOnce
<1>11. ActivationCountExact'
  BY <1>2, <1>6 DEF Inductive, ActivationCountExact
<1>12. ActivationsOwned'
  <2>1. \A b \in Activation : activations[b] # Null => activations[b].license \in License
    BY DEF Inductive, TypeOK, ActivationRow
  <2>2. \A b \in Activation : activations'[b] # Null => licenses'[activations'[b].license] # Null
    BY <1>2, <1>4, <1>5, <2>1 DEF Inductive, ActivationsOwned
  <2>3. \A j \in License : IsFiniteSet(Of(j)')
    BY <1>6, <1>7 DEF Inductive, ActivationsOwned
  <2> QED BY <2>2, <2>3 DEF ActivationsOwned
<1>13. \A j \in License \ {req[w].id} :
         /\ licenses'[j] = licenses[j]
         /\ Of(j)' = Of(j)
         /\ \A b \in Of(j) : activations'[b] = activations[b]
  <2>1. \A j \in License \ {l} : \A b \in Of(j) : activations'[b] = activations[b]
    BY <1>5, <1>6 DEF Of
  <2> QED BY <1>2, <1>6, <2>1
<1> QED BY <1>0, <1>8, <1>9, <1>10, <1>11, <1>12, <1>13, CommitStep

-----------------------------------------------------------------------------
(* The theorems *)

\* A request that ends without a commit releases its locks.
LEMMA AbortStep == ASSUME Inductive, NEW w \in Worker, Abort(w) PROVE Inductive'
<1>1. req' = [req EXCEPT ![w] = Idle] /\ UNCHANGED <<licenses, activations, setting, now>>
  BY DEF Abort, Finish, Become
<1>2. RequestOK(Idle)
  BY IdleFacts DEF RequestOK
<1> QED BY <1>1, <1>2, IdleFacts, QuietStep

\* Deleting the private key's setting leaves the key that issuing requests hold and
\* the public key; the clock leaves everything.
LEMMA OtherSteps ==
    ASSUME Inductive, (\E w \in Worker : DeleteSetting(w)) \/ Tick \/ UNCHANGED vars
    PROVE  Inductive'
<1>1. UNCHANGED <<licenses, activations, req>>
  BY DEF DeleteSetting, Tick, vars
<1>2. /\ setting' \in SettingRows /\ setting'.private = setting.private
      /\ setting'.public = setting.public /\ (setting'.live => setting.live)
  <2>1. setting \in SettingRows
    BY DEF Inductive, TypeOK
  <2>2. setting' = setting \/ setting' = [setting EXCEPT !.live = FALSE]
    BY DEF DeleteSetting, Tick, vars
  <2> QED BY <2>1, <2>2 DEF SettingRows
<1>3. now' \in Time
  <2>1. now \in Time
    BY DEF Inductive, TypeOK
  <2>2. now' = now \/ (now < MaxTime /\ now' = now + 1)
    BY DEF DeleteSetting, Tick, vars
  <2> QED BY <2>1, <2>2, BoundAssumption DEF Time
<1>4. TypeOK'
  BY <1>1, <1>2, <1>3 DEF Inductive, TypeOK
<1>5. \A u \in Worker : RequestOK(req[u])'
  <2> SUFFICES ASSUME NEW u \in Worker PROVE RequestOK(req[u])'
    OBVIOUS
  <2> DEFINE q == req[u]
  <2>1. RequestOK(q) /\ req'[u] = q
    BY <1>1 DEF Inductive
  <2>2. Of(req[u].id)' = Of(q.id)
    BY <1>1 DEF Of
  <2> HIDE DEF q
  <2> QED BY <1>1, <1>2, <2>1, <2>2 DEF RequestOK
<1>6. LocksExclude' /\ KeyPairStored' /\ MachineActivatedOnce' /\ TokensVerify'
  BY <1>1, <1>2 DEF Inductive, LocksExclude, KeyPairStored, MachineActivatedOnce, TokensVerify
<1>7. ActivationsOwned' /\ ActivationCountExact'
  BY <1>1 DEF Inductive, ActivationsOwned, ActivationCountExact, Of
<1> QED BY <1>4, <1>5, <1>6, <1>7 DEF Inductive

\* No license, no activation and no key at first.
LEMMA InitInductive == Init => Inductive
<1> SUFFICES ASSUME Init PROVE Inductive
  OBVIOUS
<1>1. \A w \in Worker : req[w] = Idle
  BY DEF Init
<1>2. TypeOK
  BY IdleFacts, BoundAssumption DEF Init, TypeOK, SettingRows, Time
<1>3. \A w \in Worker : RequestOK(req[w])
  BY <1>1, IdleFacts DEF RequestOK
<1>4. LocksExclude
  BY <1>1, IdleFacts DEF LocksExclude
<1>5. \A l \in License : Of(l) = {}
  BY DEF Init, Of
<1>6. ActivationsOwned
  BY <1>5, FS_EmptySet DEF Init, ActivationsOwned
<1> QED BY <1>2, <1>3, <1>4, <1>6 DEF Init, Inductive, KeyPairStored, ActivationCountExact,
                                       MachineActivatedOnce, TokensVerify

\* Every step keeps the invariant.
LEMMA NextInductive == Inductive /\ [Next]_vars => Inductive'
<1> SUFFICES ASSUME Inductive, [Next]_vars PROVE Inductive'
  OBVIOUS
<1>1. ASSUME NEW w \in Worker, LicenseStep(w) PROVE Inductive'
  BY <1>1, LicenseSteps
<1>2. ASSUME NEW w \in Worker, ActivationStep(w) PROVE Inductive'
  BY <1>2, LockSteps, CountSteps, IssueKeyStep, IssueSaveStep, RemoveSaveStep
     DEF ActivationStep
<1>3. ASSUME NEW w \in Worker, Abort(w) PROVE Inductive'
  BY <1>3, AbortStep
<1>4. CASE (\E w \in Worker : DeleteSetting(w)) \/ Tick \/ UNCHANGED vars
  BY <1>4, OtherSteps
<1> QED BY <1>1, <1>2, <1>3, <1>4 DEF Next

\* In every state that requests reach, what a request has read under its locks is
\* still so.
THEOREM InductiveCorrect == Spec => []Inductive
BY InitInductive, NextInductive, PTL DEF Spec

\* Columns and request fields keep their types.
THEOREM TypeCorrect == Spec => []TypeOK
<1>1. Inductive => TypeOK
  BY DEF Inductive
<1> QED BY <1>1, InductiveCorrect, PTL

\* The stored count is the number of activations, for any number of requests that
\* issue, remove, edit and fail at once.
THEOREM CountCorrect == Spec => []ActivationCountExact
<1>1. Inductive => ActivationCountExact
  BY DEF Inductive
<1> QED BY <1>1, InductiveCorrect, PTL

\* No race activates a machine twice on a license.
THEOREM MachineCorrect == Spec => []MachineActivatedOnce
<1>1. Inductive => MachineActivatedOnce
  BY DEF Inductive
<1> QED BY <1>1, InductiveCorrect, PTL

\* Tokens verify under the stored public key, whoever generated the pair and
\* whether or not its private half has been deleted since.
THEOREM TokensCorrect == Spec => []TokensVerify
<1>1. Inductive => TokensVerify
  BY DEF Inductive
<1> QED BY <1>1, InductiveCorrect, PTL

\* The license an activation is added to is live, active and not full at that
\* moment, although it was read several steps before.
THEOREM WithinLicenseCorrect == Spec => ActivationWithinLicense
<1>1. ASSUME Inductive, [Next]_vars, NEW a \in Activation,
             activations[a] = Null, activations'[a] # Null
      PROVE  LET l == activations'[a].license
             IN  /\ Found(l)
                 /\ licenses[l].status = "active"
                 /\ Cardinality(Of(l)) < licenses[l].max
  <2>1. activations' # activations
    BY <1>1
  <2>2. \E w \in Worker : IssueSave(w) \/ RemoveSave(w)
    BY <1>1, <2>1 DEF Next, vars, LicenseStep, CreateLicense, UpdateLicense, ToggleLicense,
         DeleteLicense, ActivationStep, IssueLock, IssueCount, IssueKey, RemoveLock,
         RemoveCount, DeleteSetting, Abort, Tick
  <2>3. ASSUME NEW w \in Worker, RemoveSave(w) PROVE FALSE
    <3>1. activations' = [activations EXCEPT ![req[w].activation].live = FALSE]
          /\ req[w].pc = "remove.save"
      BY <2>3 DEF RemoveSave, At
    <3>2. req[w].activation \in Of(req[w].id)
      BY <1>1, <3>1, RequestFacts DEF RequestOK
    <3>3. a # req[w].activation
      BY <1>1, <3>2 DEF Of
    <3> QED BY <1>1, <3>1, <3>3 DEF Inductive, TypeOK
  <2>4. ASSUME NEW w \in Worker, IssueSave(w)
        PROVE  LET l == activations'[a].license
               IN  /\ Found(l)
                   /\ licenses[l].status = "active"
                   /\ Cardinality(Of(l)) < licenses[l].max
    <3> PICK b \in Activation :
          activations' = [activations EXCEPT ![b] =
            [license |-> req[w].id, machine |-> req[w].machine,
             key |-> req[w].key, live |-> TRUE]]
      BY <2>4 DEF IssueSave
    <3>1. a = b /\ activations'[a].license = req[w].id
      BY <1>1 DEF Inductive, TypeOK
    <3>2. req[w].pc = "issue.save"
      BY <2>4 DEF IssueSave, At
    <3>3. /\ licenses[req[w].id] # Null /\ licenses[req[w].id] = req[w].row
          /\ ~req[w].row.deleted /\ req[w].row.status = "active"
          /\ Cardinality(Of(req[w].id)) < req[w].row.max
      BY <1>1, <3>2, RequestFacts DEF RequestOK
    <3> QED BY <3>1, <3>3 DEF Found
  <2> QED BY <2>2, <2>3, <2>4
<1>2. Inductive /\ [Next]_vars =>
        [\A a \in Activation :
          activations[a] = Null /\ activations'[a] # Null =>
              LET l == activations'[a].license
              IN  /\ Found(l)
                  /\ licenses[l].status = "active"
                  /\ Cardinality(Of(l)) < licenses[l].max]_vars
  BY <1>1
<1> QED BY <1>2, InductiveCorrect, PTL DEF Spec, ActivationWithinLicense
=============================================================================
