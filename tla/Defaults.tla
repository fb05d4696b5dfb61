------------------------------ MODULE Defaults ------------------------------
(***************************************************************************)
(* The default product and the default storage provider.  Both are one     *)
(* flag per row, moved by transactions that an advisory lock serialises;   *)
(* toggleActive, which takes only its own row's lock, runs beside them.    *)
(*                                                                         *)
(* PostgreSQL runs READ COMMITTED: a statement sees the rows committed     *)
(* when it starts, and a statement that waited for a row lock re-reads the *)
(* row.  A transaction's writes appear when it commits; the database's own *)
(* constraints (uq_software_default, chk_software_default_active,          *)
(* uq_storage_default) are left out, so that what is checked is the        *)
(* protocol that is meant never to run into them.                          *)
(***************************************************************************)
EXTENDS Naturals, FiniteSets

CONSTANTS
    Software,      \* product ids
    Provider,      \* storage provider ids
    Local,         \* the provider the seeder makes the first default
    Catalogue,     \* the other providers the seeder creates, inactive
    Worker,        \* requests in flight at once
    Null

ASSUME ProviderAssumption == /\ Local \in Provider
                             /\ Catalogue \subseteq Provider \ {Local}

VARIABLES
    software,      \* table software: is_active, is_default
    providers,     \* table storage_providers: is_active, is_default
    req            \* the request each worker is executing

vars == <<software, providers, req>>

Row == [active: BOOLEAN, default: BOOLEAN]

ASSUME NullAssumption == /\ Null \notin Software \cup Provider \cup BOOLEAN
                         /\ Null \notin Row

Steps == {"idle", "toggle.save", "default.lock", "default.save",
          "activate.load", "activate.save", "seed.save"}

Request == [pc: Steps, id: Software \cup Provider \cup {Null},
            rows: SUBSET Software, row: Row \cup {Null}, current: BOOLEAN]

Idle == [pc |-> "idle", id |-> Null, rows |-> {}, row |-> Null, current |-> FALSE]

At(w, step) == req[w].pc = step
Become(w, r) == req' = [req EXCEPT ![w] = r]
Finish(w) == Become(w, Idle)

\* Row locks of open transactions on the table software.
Locked(s) ==
    \E w \in Worker :
        \/ At(w, "toggle.save") /\ req[w].id = s
        \/ At(w, "default.save") /\ s \in req[w].rows

\* The holders of pg_advisory_xact_lock(1919247734, 1) and (1919247734, 2).
SoftwareLocked == \E w \in Worker : req[w].pc \in {"default.lock", "default.save"}
ProvidersLocked ==
    \E w \in Worker : req[w].pc \in {"activate.load", "activate.save", "seed.save"}

\* Some provider is the default.
HasDefault == \E p \in Provider : providers[p] # Null /\ providers[p].default

\* save() writes a column only when it differs from the value the model loaded.
Dirty(db, loaded, new) == IF new # loaded THEN new ELSE db

-----------------------------------------------------------------------------
(* software_service.ts *)

\* Mutant: the default flag of a new product is left out.
CreateWithoutFlag(w) ==
    /\ At(w, "idle")
    /\ \E s \in Software :
        /\ software[s] = Null
        /\ software' = [software EXCEPT ![s] = [active |-> TRUE, default |-> Null]]
    /\ UNCHANGED <<providers, req>>

\* create: a new product is active and not the default.
Create(w) ==
    /\ At(w, "idle")
    /\ \E s \in Software :
        /\ software[s] = Null
        /\ software' = [software EXCEPT ![s] = [active |-> TRUE, default |-> FALSE]]
    /\ UNCHANGED <<providers, req>>

\* Mutant: the row is read without FOR UPDATE.
ToggleWithoutLock(w) ==
    /\ At(w, "idle")
    /\ \E s \in Software :
        /\ software[s] # Null
        /\ ~(software[s].default /\ software[s].active)
        /\ Become(w, [Idle EXCEPT !.pc = "toggle.save", !.id = s, !.row = software[s]])
    /\ UNCHANGED <<software, providers>>

\* toggleActive: SELECT ... FOR UPDATE; the active default is refused.
ToggleActive(w) ==
    /\ At(w, "idle")
    /\ \E s \in Software :
        /\ software[s] # Null
        /\ ~Locked(s)
        /\ ~(software[s].default /\ software[s].active)
        /\ Become(w, [Idle EXCEPT !.pc = "toggle.save", !.id = s, !.row = software[s]])
    /\ UNCHANGED <<software, providers>>

ToggleSave(w) ==
    /\ At(w, "toggle.save")
    /\ software' = [software EXCEPT ![req[w].id].active = ~req[w].row.active]
    /\ Finish(w)
    /\ UNCHANGED providers

\* setDefault: the advisory lock, ...
SetDefault(w) ==
    /\ At(w, "idle")
    /\ ~SoftwareLocked
    /\ \E s \in Software :
        Become(w, [Idle EXCEPT !.pc = "default.lock", !.id = s])
    /\ UNCHANGED <<software, providers>>

\* ... the locks of the active rows, among which the target must be, ...
DefaultLock(w) ==
    LET rows == {s \in Software : software[s] # Null /\ software[s].active}
    IN  /\ At(w, "default.lock")
        /\ \A s \in rows : ~Locked(s)
        /\ req[w].id \in rows
        /\ Become(w, [req[w] EXCEPT !.pc = "default.save", !.rows = rows])
        /\ UNCHANGED <<software, providers>>

\* ... and the flag of every row cleared, which waits for the rows a toggle has
\* locked, before the target's is set.
DefaultSave(w) ==
    /\ At(w, "default.save")
    /\ \A u \in Worker : ~At(u, "toggle.save")
    /\ software' = [s \in Software |->
          IF software[s] = Null THEN Null
          ELSE [software[s] EXCEPT !.default = (s = req[w].id)]]
    /\ Finish(w)
    /\ UNCHANGED providers

-----------------------------------------------------------------------------
(* storage_provider_service.ts and the seeder *)

\* createProvider: active and not the default.
CreateProvider(w) ==
    /\ At(w, "idle")
    /\ \E p \in Provider \ ({Local} \cup Catalogue) :
        /\ providers[p] = Null
        /\ providers' = [providers EXCEPT ![p] = [active |-> TRUE, default |-> FALSE]]
    /\ UNCHANGED <<software, req>>

\* activateProvider: the advisory lock, ...
ActivateProvider(w) ==
    /\ At(w, "idle")
    /\ ~ProvidersLocked
    /\ \E p \in Provider : Become(w, [Idle EXCEPT !.pc = "activate.load", !.id = p])
    /\ UNCHANGED <<software, providers>>

\* ... the model (findOrFail, configuration checked), ...
ActivateLoad(w) ==
    /\ At(w, "activate.load")
    /\ providers[req[w].id] # Null
    /\ Become(w, [req[w] EXCEPT !.pc = "activate.save", !.row = providers[req[w].id]])
    /\ UNCHANGED <<software, providers>>

\* ... every row's flag cleared by one statement, and save() of the model, which
\* writes the columns that differ from the values it was loaded with.
ActivateSave(w) ==
    LET p == req[w].id
        cleared == [q \in Provider |->
            IF providers[q] = Null THEN Null ELSE [providers[q] EXCEPT !.default = FALSE]]
    IN  /\ At(w, "activate.save")
        /\ providers' = [cleared EXCEPT ![p] =
              [active |-> Dirty(@.active, req[w].row.active, TRUE),
               default |-> Dirty(@.default, req[w].row.default, TRUE)]]
        /\ Finish(w)
        /\ UNCHANGED software

\* Mutant: the seeder takes no lock.
SeedWithoutLock(w) ==
    /\ At(w, "idle")
    /\ Become(w, [Idle EXCEPT !.pc = "seed.save", !.current = HasDefault])
    /\ UNCHANGED <<software, providers>>

\* The seeder of a starting container: under the same lock, it looks for the
\* current default, ...
Seed(w) ==
    /\ At(w, "idle")
    /\ ~ProvidersLocked
    /\ Become(w, [Idle EXCEPT !.pc = "seed.save", !.current = HasDefault])
    /\ UNCHANGED <<software, providers>>

\* ... creates the local provider, the default when there was none, promotes an
\* existing one in the same case, and adds the rest of the catalogue, inactive.
SeedSave(w) ==
    LET Created(p) == IF p = Local THEN [active |-> TRUE, default |-> ~req[w].current]
                                   ELSE [active |-> FALSE, default |-> FALSE]
    IN  /\ At(w, "seed.save")
        /\ providers' = [p \in Provider |->
              IF providers[p] = Null
              THEN IF p \in {Local} \cup Catalogue THEN Created(p) ELSE Null
              ELSE IF p = Local /\ ~req[w].current
              THEN [active |-> TRUE, default |-> TRUE]
              ELSE providers[p]]
        /\ Finish(w)
        /\ UNCHANGED software

\* A failed check, a database error or a crash rolls the transaction back.
Abort(w) ==
    /\ ~At(w, "idle")
    /\ Finish(w)
    /\ UNCHANGED <<software, providers>>

-----------------------------------------------------------------------------
(* The migration creates one product, active and the default; the providers *)
(* come with the first seeding.                                             *)
Init ==
    /\ \E first \in Software :
        software = [s \in Software |->
            IF s = first THEN [active |-> TRUE, default |-> TRUE] ELSE Null]
    /\ providers = [p \in Provider |-> Null]
    /\ req = [w \in Worker |-> Idle]

SoftwareStep(w) ==
    \/ Create(w)
    \/ ToggleActive(w) \/ ToggleSave(w)
    \/ SetDefault(w) \/ DefaultLock(w) \/ DefaultSave(w)

ProviderStep(w) ==
    \/ CreateProvider(w)
    \/ ActivateProvider(w) \/ ActivateLoad(w) \/ ActivateSave(w)
    \/ Seed(w) \/ SeedSave(w)

Next == \E w \in Worker : SoftwareStep(w) \/ ProviderStep(w) \/ Abort(w)

Spec == Init /\ [][Next]_vars

-----------------------------------------------------------------------------
(* Properties *)

\* Every column and every request field has its type.
TypeOK ==
    /\ software \in [Software -> Row \cup {Null}]
    /\ providers \in [Provider -> Row \cup {Null}]
    /\ req \in [Worker -> Request]

\* Exactly one product is the default and it is active, whatever toggleActive,
\* setDefault and create do at once: the legacy OTA routes, which name no
\* product, always resolve one.
OneActiveDefault ==
    \E s \in Software :
        /\ software[s] # Null /\ software[s].default /\ software[s].active
        /\ \A t \in Software \ {s} : software[t] # Null => ~software[t].default

\* Activations and the seeders of several starting containers never leave two
\* default providers, so no transaction runs into uq_storage_default.
AtMostOneDefaultProvider ==
    Cardinality({p \in Provider : providers[p] # Null /\ providers[p].default}) <= 1

\* activateProvider ends with the requested provider as the default, as the
\* documentation says it does.  It does not when that provider is the default
\* already: the bulk statement has cleared its flag, and save() finds the loaded
\* model unchanged.
ActivationSetsDefault ==
    [][\A w \in Worker : ActivateSave(w) => providers'[req[w].id].default]_vars
=============================================================================
