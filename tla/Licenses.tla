------------------------------ MODULE Licenses ------------------------------
(***************************************************************************)
(* License activation: license_service.ts, and the setting rows that hold  *)
(* the key pair its tokens are signed with.                                *)
(*                                                                         *)
(* Every operation on an existing license is one transaction that begins   *)
(* with SELECT ... FOR UPDATE of its row.  Updates, toggles and deletions  *)
(* are single steps, since nothing reads the row without that lock;        *)
(* issuing and removing an activation read other rows in between and are   *)
(* several steps, each reading what is committed at that moment.  A        *)
(* transaction's writes appear at its last step, its commit.               *)
(*                                                                         *)
(* The revokedAt column is left out: the code writes it and never reads    *)
(* it.  Editing the two key settings by hand is left out as well.          *)
(***************************************************************************)
EXTENDS Naturals, FiniteSets

CONSTANTS
    License,       \* license ids
    Activation,    \* activation ids; each is used once
    Machine,       \* machine ids
    Key,           \* Ed25519 key pairs
    Worker,        \* requests in flight at once
    Limit,         \* the values of max_activations that are submitted
    MaxTime,       \* bound on the clock
    Null

ASSUME BoundAssumption == Limit \subseteq Nat /\ MaxTime \in Nat
VARIABLES
    licenses,      \* table licenses
    activations,   \* table license_activations, removed rows included
    setting,       \* the rows license_private_key and license_public_key
    now,           \* the clock
    req            \* the request each worker is executing

vars == <<licenses, activations, setting, now, req>>

Status == {"active", "inactive", "revoked"}
Time == 0 .. MaxTime

LicenseRow == [status: Status, max: Limit, count: Nat,
               expires: Time \cup {Null}, deleted: BOOLEAN]

\* A row and the key of the token that issueActivationToken returned with it;
\* live is FALSE once the row is removed.
ActivationRow == [license: License, machine: Machine, key: Key, live: BOOLEAN]

\* The private key's row (live is FALSE once it is soft-deleted) and the public key.
SettingRows == [private: Key \cup {Null}, live: BOOLEAN, public: Key \cup {Null}]

ASSUME NullAssumption ==
    /\ Null \notin License \cup Activation \cup Machine \cup Key \cup Nat
    /\ Null \notin LicenseRow /\ Null \notin ActivationRow

Steps == {"idle", "issue.count", "issue.key", "issue.save", "remove.count", "remove.save"}

Request == [pc: Steps, id: License \cup {Null}, row: LicenseRow \cup {Null},
            machine: Machine \cup {Null}, activation: Activation \cup {Null},
            total: Nat, key: Key \cup {Null}, generated: BOOLEAN]

Idle == [pc |-> "idle", id |-> Null, row |-> Null, machine |-> Null,
         activation |-> Null, total |-> 0, key |-> Null, generated |-> FALSE]

At(w, step) == req[w].pc = step
Become(w, r) == req' = [req EXCEPT ![w] = r]
Finish(w) == Become(w, Idle)

\* A row the soft-delete hooks let a query find.
Found(l) == licenses[l] # Null /\ ~licenses[l].deleted

\* The row lock of the license and pg_advisory_xact_lock(1919247734, 3).
Locked(l) == \E w \in Worker : ~At(w, "idle") /\ req[w].id = l
KeyLocked == \E w \in Worker : At(w, "issue.save")

\* The activations of a license in the table.
Of(l) == {a \in Activation :
            activations[a] # Null /\ activations[a].live /\ activations[a].license = l}

\* save() writes a column only when it differs from the value the model loaded.
Dirty(db, loaded, new) == IF new # loaded THEN new ELSE db

Expired(row) == row.expires # Null /\ row.expires <= now

-----------------------------------------------------------------------------
(* License rows *)

\* Mutant: a maximum that is not a number is stored as it is.
CreateUnparsed(w) ==
    /\ At(w, "idle")
    /\ \E l \in License, status \in Status, expires \in Time \cup {Null} :
        /\ licenses[l] = Null
        /\ licenses' = [licenses EXCEPT ![l] =
              [status |-> status, max |-> Null, count |-> 0,
               expires |-> expires, deleted |-> FALSE]]
    /\ UNCHANGED <<activations, setting, now, req>>

\* createLicense.
CreateLicense(w) ==
    /\ At(w, "idle")
    /\ \E l \in License, status \in Status, max \in Limit,
          expires \in Time \cup {Null} :
        /\ licenses[l] = Null
        /\ licenses' = [licenses EXCEPT ![l] =
              [status |-> status, max |-> max, count |-> 0,
               expires |-> expires, deleted |-> FALSE]]
    /\ UNCHANGED <<activations, setting, now, req>>

\* Mutant: the license is read without FOR UPDATE.
UpdateWithoutLock(w) ==
    /\ At(w, "idle")
    /\ \E l \in License, status \in Status, max \in Limit,
          expires \in Time \cup {Null} :
        /\ Found(l)
        /\ licenses' = [licenses EXCEPT ![l] =
              [@ EXCEPT !.status = status, !.max = max, !.expires = expires]]
    /\ UNCHANGED <<activations, setting, now, req>>

\* updateLicense: the form's columns; the activation count is not one of them,
\* and the maximum may fall below it.
UpdateLicense(w) ==
    /\ At(w, "idle")
    /\ \E l \in License, status \in Status, max \in Limit,
          expires \in Time \cup {Null} :
        /\ Found(l) /\ ~Locked(l)
        /\ licenses' = [licenses EXCEPT ![l] =
              [@ EXCEPT !.status = status, !.max = max, !.expires = expires]]
    /\ UNCHANGED <<activations, setting, now, req>>

\* toggleLicense: any status but active becomes active.
ToggleLicense(w) ==
    /\ At(w, "idle")
    /\ \E l \in License :
        /\ Found(l) /\ ~Locked(l)
        /\ licenses' = [licenses EXCEPT ![l].status =
              IF @ = "active" THEN "inactive" ELSE "active"]
    /\ UNCHANGED <<activations, setting, now, req>>

\* deleteLicense: a soft delete; the activations stay.
DeleteLicense(w) ==
    /\ At(w, "idle")
    /\ \E l \in License :
        /\ Found(l) /\ ~Locked(l)
        /\ licenses' = [licenses EXCEPT ![l].deleted = TRUE]
    /\ UNCHANGED <<activations, setting, now, req>>

-----------------------------------------------------------------------------
(* issueActivationToken *)

\* The row is locked and loaded; it must be active and not expired.
IssueLock(w) ==
    /\ At(w, "idle")
    /\ \E l \in License, m \in Machine :
        /\ Found(l) /\ ~Locked(l)
        /\ licenses[l].status = "active" /\ ~Expired(licenses[l])
        /\ Become(w, [Idle EXCEPT !.pc = "issue.count", !.id = l,
                                  !.row = licenses[l], !.machine = m])
    /\ UNCHANGED <<licenses, activations, setting, now>>

\* Mutant: a machine that is activated already is not refused.
IssueCountAnyMachine(w) ==
    LET l == req[w].id
    IN  /\ At(w, "issue.count")
        /\ Cardinality(Of(l)) < req[w].row.max
        /\ Become(w, [req[w] EXCEPT !.pc = "issue.key", !.total = Cardinality(Of(l))])
        /\ UNCHANGED <<licenses, activations, setting, now>>

\* The activations are read: a known machine and a full license are refused.
IssueCount(w) ==
    LET l == req[w].id
    IN  /\ At(w, "issue.count")
        /\ \A a \in Of(l) : activations[a].machine # req[w].machine
        /\ Cardinality(Of(l)) < req[w].row.max
        /\ Become(w, [req[w] EXCEPT !.pc = "issue.key", !.total = Cardinality(Of(l))])
        /\ UNCHANGED <<licenses, activations, setting, now>>

\* getPrivateKey: under the advisory lock, the stored key or a new pair.
IssueKey(w) ==
    /\ At(w, "issue.key")
    /\ ~KeyLocked
    /\ \/ /\ setting.live
          /\ Become(w, [req[w] EXCEPT !.pc = "issue.save", !.key = setting.private])
       \/ /\ ~setting.live
          /\ \E k \in Key :
              /\ k # setting.private
              /\ Become(w, [req[w] EXCEPT !.pc = "issue.save", !.key = k,
                                          !.generated = TRUE])
    /\ UNCHANGED <<licenses, activations, setting, now>>

\* Mutant: a soft-deleted private key is overwritten with the new one.
IssueSaveReplacesKey(w) ==
    LET l == req[w].id
    IN  /\ At(w, "issue.save")
        /\ \E a \in Activation :
            /\ activations[a] = Null
            /\ activations' = [activations EXCEPT ![a] =
                  [license |-> l, machine |-> req[w].machine,
                   key |-> req[w].key, live |-> TRUE]]
        /\ licenses' = [licenses EXCEPT ![l].count =
              Dirty(@, req[w].row.count, req[w].total + 1)]
        /\ setting' = IF req[w].generated
              THEN [private |-> req[w].key, live |-> TRUE, public |-> req[w].key]
              ELSE setting
        /\ Finish(w)
        /\ UNCHANGED now

\* The token is signed, the activation inserted, the count saved and the
\* transaction committed.  A new private key is inserted, which the unique index
\* on settings.key refuses while a soft-deleted row still has the name.
IssueSave(w) ==
    LET l == req[w].id
    IN  /\ At(w, "issue.save")
        /\ req[w].generated => setting.private = Null
        /\ \E a \in Activation :
            /\ activations[a] = Null
            /\ activations' = [activations EXCEPT ![a] =
                  [license |-> l, machine |-> req[w].machine,
                   key |-> req[w].key, live |-> TRUE]]
        /\ licenses' = [licenses EXCEPT ![l].count =
              Dirty(@, req[w].row.count, req[w].total + 1)]
        /\ setting' = IF req[w].generated
              THEN [private |-> req[w].key, live |-> TRUE, public |-> req[w].key]
              ELSE setting
        /\ Finish(w)
        /\ UNCHANGED now

-----------------------------------------------------------------------------
(* removeActivation *)

\* Mutant: the license is read without FOR UPDATE.
RemoveWithoutLock(w) ==
    /\ At(w, "idle")
    /\ \E l \in License, a \in Activation :
        /\ Found(l)
        /\ Become(w, [Idle EXCEPT !.pc = "remove.count", !.id = l,
                                  !.row = licenses[l], !.activation = a])
    /\ UNCHANGED <<licenses, activations, setting, now>>

\* The row is locked and loaded.
RemoveLock(w) ==
    /\ At(w, "idle")
    /\ \E l \in License, a \in Activation :
        /\ Found(l) /\ ~Locked(l)
        /\ Become(w, [Idle EXCEPT !.pc = "remove.count", !.id = l,
                                  !.row = licenses[l], !.activation = a])
    /\ UNCHANGED <<licenses, activations, setting, now>>

\* The activation must be one of this license; it is deleted and the rest counted.
RemoveCount(w) ==
    LET l == req[w].id
    IN  /\ At(w, "remove.count")
        /\ req[w].activation \in Of(l)
        /\ Become(w, [req[w] EXCEPT !.pc = "remove.save",
                                    !.total = Cardinality(Of(l) \ {req[w].activation})])
        /\ UNCHANGED <<licenses, activations, setting, now>>

\* The count is saved and the transaction committed.
RemoveSave(w) ==
    LET l == req[w].id
    IN  /\ At(w, "remove.save")
        /\ activations' = [activations EXCEPT ![req[w].activation].live = FALSE]
        /\ licenses' = [licenses EXCEPT ![l].count =
              Dirty(@, req[w].row.count, req[w].total)]
        /\ Finish(w)
        /\ UNCHANGED <<setting, now>>

-----------------------------------------------------------------------------
\* setting_service.ts, deleteSetting of the private key: a soft delete, without
\* the advisory lock.
DeleteSetting(w) ==
    /\ At(w, "idle")
    /\ setting.live
    /\ setting' = [setting EXCEPT !.live = FALSE]
    /\ UNCHANGED <<licenses, activations, now, req>>

\* A refused request, a database error or a crash rolls the transaction back.
Abort(w) ==
    /\ ~At(w, "idle")
    /\ Finish(w)
    /\ UNCHANGED <<licenses, activations, setting, now>>

Tick ==
    /\ now < MaxTime
    /\ now' = now + 1
    /\ UNCHANGED <<licenses, activations, setting, req>>

Init ==
    /\ licenses = [l \in License |-> Null]
    /\ activations = [a \in Activation |-> Null]
    /\ setting = [private |-> Null, live |-> FALSE, public |-> Null]
    /\ now = 0
    /\ req = [w \in Worker |-> Idle]

LicenseStep(w) ==
    \/ CreateLicense(w) \/ UpdateLicense(w) \/ ToggleLicense(w) \/ DeleteLicense(w)

ActivationStep(w) ==
    \/ IssueLock(w) \/ IssueCount(w) \/ IssueKey(w) \/ IssueSave(w)
    \/ RemoveLock(w) \/ RemoveCount(w) \/ RemoveSave(w)

Next ==
    \/ \E w \in Worker : LicenseStep(w) \/ ActivationStep(w) \/ DeleteSetting(w) \/ Abort(w)
    \/ Tick

Spec == Init /\ [][Next]_vars

-----------------------------------------------------------------------------
(* Properties *)

\* Every column and every request field has its type.
TypeOK ==
    /\ licenses \in [License -> LicenseRow \cup {Null}]
    /\ activations \in [Activation -> ActivationRow \cup {Null}]
    /\ setting \in SettingRows
    /\ now \in Time
    /\ req \in [Worker -> Request]

\* activation_count, which the CMS shows and save() writes only when it changed
\* in the loaded model, is always the number of the license's activations.
ActivationCountExact ==
    \A l \in License : licenses[l] # Null => licenses[l].count = Cardinality(Of(l))

\* No two activations of a license are for the same machine.
MachineActivatedOnce ==
    \A a, b \in Activation :
        /\ activations[a] # Null /\ activations[a].live
        /\ activations[b] # Null /\ activations[b].live
        /\ activations[a].license = activations[b].license
        /\ activations[a].machine = activations[b].machine
        => a = b

\* Every token ever issued verifies under the one stored public key, whichever
\* request created the pair and even after the private key's row was deleted:
\* issuing stops then, it does not go on with another key.
TokensVerify ==
    \A a \in Activation : activations[a] # Null => activations[a].key = setting.public

\* An activation is only ever added to a license that is, when it commits, live,
\* active and below its maximum, although all three were read before the key was.
ActivationWithinLicense ==
    [][\A a \in Activation :
          activations[a] = Null /\ activations'[a] # Null =>
              LET l == activations'[a].license
              IN  /\ Found(l)
                  /\ licenses[l].status = "active"
                  /\ Cardinality(Of(l)) < licenses[l].max]_vars
=============================================================================
