------------------------------ MODULE Startup ------------------------------
(***************************************************************************)
(* Starting a deployment: the one-shot credential initializer              *)
(* (init_database_secret.mjs), the database's first start                  *)
(* (postgres-init.sh), the application containers (docker-entrypoint.sh:   *)
(* connection check, application key, migrations, seeds), and the import   *)
(* of legacy data (import_legacy_data.mjs).                                *)
(*                                                                         *)
(* Containers share the volumes and the database, start and restart at any *)
(* time, and can stop between any two steps.  Storage provider settings    *)
(* are encrypted with the application key, so every container must come to *)
(* hold the same one.  A generated secret is a fresh member of Value.      *)
(***************************************************************************)
EXTENDS Integers, FiniteSets

CONSTANTS
    Instance,    \* application containers
    Provider,    \* storage provider rows
    Local,       \* the row the seeder creates (it stands for all it creates)
    Identity,    \* database role and name, as configured
    Value,       \* generated secrets
    Password,    \* passwords an operator may configure
    AppKey,      \* an application key an operator may configure
    Timeout,     \* DB_STARTUP_TIMEOUT_SECONDS, in attempts
    MaxFaults,   \* bound on crashes and database outages
    MaxRuns,     \* bound on runs of the initializer that come to an end
    Null

ASSUME StartupAssumption ==
    /\ Local \in Provider
    /\ Timeout \in Nat /\ MaxFaults \in Nat /\ MaxRuns \in Nat
    /\ Null \notin Value \cup Password \cup Instance \cup {AppKey, "plain", "environment"}
    /\ AppKey \notin Value
    /\ Value \cap {"plain", "environment"} = {} /\ AppKey \notin {"plain", "environment"}

\* There are more secrets than places to keep one: four files, the database role
\* and a draft in every container.
ASSUME ValuesAssumption ==
    /\ IsFiniteSet(Instance)
    /\ IsFiniteSet(Value) => Cardinality(Value) > Cardinality(Instance) + 5

VARIABLES
    files,       \* the secret files on the volumes
    envKey,      \* APP_KEY, the same for every container: Null when not set
    init,        \* the credential initializer
    dbRole,      \* the password of the application's database role
    dbUp,        \* whether PostgreSQL accepts connections
    boot,        \* each container's progress, its draft of a key, and its key
    lock,        \* holder of the migration lock
    schema,      \* the migrations applied
    providers,   \* config column: Null, "plain", "environment" or its key
    seeded,      \* which rows of the other seeders exist
    legacyEnv,   \* whether the legacy S3_* settings are supplied
    adminEnv,    \* whether ADMIN_EMAIL and ADMIN_PASSWORD are set, and acceptable
    importing,   \* whether the transaction of the legacy import is open
    faults, runs

vars == <<files, envKey, init, dbRole, dbUp, boot, lock, schema, providers,
          seeded, legacyEnv, adminEnv, importing, faults, runs>>

Name == {"identity", "db_password", "postgres_password", "app_key"}
InitPc == {"idle", "password", "superuser", "done", "failed"}

\* The platforms, architectures and settings, and the configured administrator.
SeedRow == {"base", "admin"}
Key == Value \cup {AppKey}
Pc == {"down", "connect", "write", "link", "read", "migrate", "migrating",
       "seed", "seedInsert", "providers", "admin", "adminInsert", "serving"}

Boot == [pc: Pc, left: 0..Timeout, draft: Value \cup {Null}, key: Key \cup {Null},
         created: BOOLEAN]

(* Files, rows and the progress of every container keep their types. *)
TypeOK ==
    /\ files \in [Name -> Value \cup Password \cup Identity \cup {Null}]
    /\ envKey \in {AppKey, Null}
    /\ init \in [pc: InitPc, password: Password \cup {Null}]
    /\ dbRole \in Value \cup Password \cup {Null}
    /\ dbUp \in BOOLEAN
    /\ boot \in [Instance -> Boot]
    /\ lock \in Instance \cup {Null}
    /\ schema \in {"none", "base", "current"}
    /\ providers \in [Provider -> Key \cup {Null, "plain", "environment"}]
    /\ seeded \subseteq SeedRow
    /\ legacyEnv \in BOOLEAN
    /\ adminEnv \in {"unset", "accepted", "refused"}
    /\ importing \in BOOLEAN
    /\ faults \in 0..MaxFaults /\ runs \in 0..MaxRuns

(* A fresh installation, or an upgrade from a version that kept provider   *)
(* settings in plain JSON and in the environment.                          *)
Init ==
    /\ envKey \in {AppKey, Null}
    /\ init = [pc |-> "idle", password |-> Null]
    /\ dbUp = FALSE /\ lock = Null
    /\ boot = [i \in Instance |->
           [pc |-> "down", left |-> 0, draft |-> Null, key |-> Null, created |-> FALSE]]
    /\ \/ /\ files = [n \in Name |-> Null] /\ dbRole = Null
          /\ schema = "none" /\ seeded = {}
          /\ providers = [p \in Provider |-> Null]
       \/ /\ files \in [Name -> Value \cup Identity \cup {Null}]
          /\ files["identity"] \in Identity
          /\ files["db_password"] = CHOOSE v \in Value : TRUE
          /\ files["app_key"] = IF envKey # Null THEN Null
                                ELSE CHOOSE v \in Value : v # files["db_password"]
          /\ files["postgres_password"] =
                 CHOOSE v \in Value : v \notin {files["db_password"], files["app_key"]}
          /\ dbRole = files["db_password"]
          /\ schema = "base" /\ seeded = SeedRow
          /\ providers = [p \in Provider |-> IF p = Local THEN "plain" ELSE "environment"]
    /\ legacyEnv = FALSE /\ adminEnv \in {"unset", "accepted", "refused"}
    /\ importing = FALSE
    /\ faults = 0 /\ runs = 0

-----------------------------------------------------------------------------
(* persist: the value is written to a temporary file of the process and    *)
(* linked to its name, which fails when the name exists; the file is then  *)
(* read back.                                                              *)

\* Mutant: the temporary file is renamed, which replaces an existing one.
LinkReplaces(n, v) == files' = [files EXCEPT ![n] = v]

Link(n, v) == files' = [files EXCEPT ![n] = IF @ = Null THEN v ELSE @]

InUse == {files[n] : n \in Name} \cup {boot[i].draft : i \in Instance} \cup {dbRole}
Random == CHOOSE v \in Value : v \notin InUse

-----------------------------------------------------------------------------
(* init_database_secret.mjs, run by every "compose up".                    *)

InitUnchanged == UNCHANGED <<envKey, dbRole, dbUp, boot, lock, schema, providers,
                             seeded, legacyEnv, adminEnv, importing>>

CountRun == runs' = IF init'.pc \in {"done", "failed"} THEN runs + 1 ELSE runs

(* The configured role and database must be those of the first run. *)
InitRun(identity, password) ==
    /\ init.pc \in {"idle", "done", "failed"} /\ runs < MaxRuns
    /\ Link("identity", identity)
    /\ init' = IF files'["identity"] = identity
               THEN [pc |-> "password", password |-> password]
               ELSE [pc |-> "failed", password |-> Null]
    /\ CountRun /\ UNCHANGED faults /\ InitUnchanged

InitPassword ==
    /\ init.pc = "password"
    /\ Link("db_password", IF init.password = Null THEN Random ELSE init.password)
    /\ init' = [pc |-> IF init.password \in {Null, files'["db_password"]}
                       THEN "superuser" ELSE "failed",
                password |-> Null]
    /\ CountRun /\ UNCHANGED faults /\ InitUnchanged

(* The password of the database's superuser, which only its volume keeps. *)
InitSuperuser ==
    /\ init.pc = "superuser"
    /\ Link("postgres_password", Random)
    /\ init' = [init EXCEPT !.pc = "done"]
    /\ CountRun /\ UNCHANGED faults /\ InitUnchanged

(* The initializer stops between two of its files; a later run goes on. *)
InitCrash ==
    /\ init.pc \in {"password", "superuser"} /\ faults < MaxFaults
    /\ init' = [pc |-> "failed", password |-> Null]
    /\ faults' = faults + 1
    /\ UNCHANGED <<files, runs>> /\ InitUnchanged

-----------------------------------------------------------------------------
(* PostgreSQL.  Its first start creates the role with the stored password. *)

DbFirstStart ==
    /\ dbRole = Null /\ init.pc = "done"
    /\ dbRole' = files["db_password"] /\ dbUp' = TRUE
    /\ UNCHANGED <<files, envKey, init, boot, lock, schema, providers, seeded,
                   legacyEnv, adminEnv, importing, faults, runs>>

DbRestart ==
    /\ dbRole # Null /\ ~dbUp
    /\ dbUp' = TRUE
    /\ UNCHANGED <<files, envKey, init, dbRole, boot, lock, schema, providers, seeded,
                   legacyEnv, adminEnv, importing, faults, runs>>

Stopped(b) == [b EXCEPT !.pc = "down", !.left = 0, !.draft = Null, !.key = Null]

(* An outage ends the commands that have a connection, and their locks. *)
DbOutage ==
    /\ dbUp /\ faults < MaxFaults
    /\ dbUp' = FALSE /\ faults' = faults + 1
    /\ boot' = [i \in Instance |->
           IF boot[i].pc \in {"migrating", "seedInsert", "adminInsert"}
           THEN Stopped(boot[i]) ELSE boot[i]]
    /\ lock' = Null
    /\ importing' = FALSE
    /\ UNCHANGED <<files, envKey, init, dbRole, schema, providers, seeded, legacyEnv, adminEnv, runs>>

-----------------------------------------------------------------------------
(* docker-entrypoint.sh.                                                   *)

At(i, pc) == boot[i].pc = pc
Go(i, pc) == boot' = [boot EXCEPT ![i].pc = pc]

\* Mutant: the lock is a row that outlives the process.
ExitKeepsLock(i) ==
    /\ boot' = [boot EXCEPT ![i] = Stopped(@)]
    /\ UNCHANGED lock

(* set -e: the container exits, and is restarted. *)
Exit(i) ==
    /\ boot' = [boot EXCEPT ![i] = Stopped(@)]
    /\ lock' = IF lock = i THEN Null ELSE lock

BootUnchanged == UNCHANGED <<envKey, init, dbRole, dbUp, legacyEnv, adminEnv, importing, faults, runs>>

(* depends_on orders the first start; "restart: unless-stopped" later ones. *)
Start(i) ==
    /\ At(i, "down")
    /\ boot[i].created \/ (init.pc = "done" /\ dbUp)
    /\ boot' = [boot EXCEPT ![i] = [@ EXCEPT !.pc = "connect", !.left = Timeout, !.created = TRUE]]
    /\ UNCHANGED <<files, lock, schema, providers, seeded>> /\ BootUnchanged

(* check_database_connection.mjs: the connection is accepted; APP_KEY is   *)
(* used when it is set.                                                    *)
Connect(i) ==
    /\ At(i, "connect") /\ dbUp /\ files["db_password"] = dbRole
    /\ boot' = [boot EXCEPT ![i].pc = IF envKey = Null THEN "write" ELSE "migrate",
                            ![i].left = 0, ![i].key = envKey]
    /\ UNCHANGED <<files, lock, schema, providers, seeded>> /\ BootUnchanged

\* Mutant: the deadline is not checked before the next attempt.
ConnectRetriesPast(i) ==
    /\ At(i, "connect") /\ ~dbUp
    /\ boot' = [boot EXCEPT ![i].left = @ - 1]
    /\ UNCHANGED <<files, lock, schema, providers, seeded>> /\ BootUnchanged

(* A retryable error code, before the deadline. *)
ConnectRetry(i) ==
    /\ At(i, "connect") /\ ~dbUp /\ boot[i].left > 0
    /\ boot' = [boot EXCEPT ![i].left = @ - 1]
    /\ UNCHANGED <<files, lock, schema, providers, seeded>> /\ BootUnchanged

(* The deadline has passed, or the error is not retryable (a rejected      *)
(* password).                                                              *)
ConnectFails(i) ==
    /\ At(i, "connect")
    /\ IF dbUp THEN files["db_password"] # dbRole ELSE boot[i].left = 0
    /\ Exit(i)
    /\ UNCHANGED <<files, schema, providers, seeded>> /\ BootUnchanged

WriteKey(i) ==
    /\ At(i, "write")
    /\ boot' = [boot EXCEPT ![i].pc = "link", ![i].draft = Random]
    /\ UNCHANGED <<files, lock, schema, providers, seeded>> /\ BootUnchanged

LinkKey(i) ==
    /\ At(i, "link")
    /\ Link("app_key", boot[i].draft)
    /\ Go(i, "read")
    /\ UNCHANGED <<lock, schema, providers, seeded>> /\ BootUnchanged

\* Mutant: the key just generated is used without reading the file.
ReadOwnKey(i) ==
    /\ At(i, "read")
    /\ boot' = [boot EXCEPT ![i].pc = "migrate", ![i].key = boot[i].draft, ![i].draft = Null]
    /\ UNCHANGED <<files, lock, schema, providers, seeded>> /\ BootUnchanged

ReadKey(i) ==
    /\ At(i, "read")
    /\ boot' = [boot EXCEPT ![i].pc = "migrate", ![i].key = files["app_key"], ![i].draft = Null]
    /\ UNCHANGED <<files, lock, schema, providers, seeded>> /\ BootUnchanged

(* migration:run takes an advisory lock, or fails at once. *)
TakeMigrationLock(i) ==
    /\ At(i, "migrate") /\ dbUp /\ lock = Null
    /\ lock' = i
    /\ Go(i, "migrating")
    /\ UNCHANGED <<files, schema, providers, seeded>> /\ BootUnchanged

MigrationLocked(i) ==
    /\ At(i, "migrate") /\ (dbUp => lock # Null)
    /\ Exit(i)
    /\ UNCHANGED <<files, schema, providers, seeded>> /\ BootUnchanged

CreateTables(i) ==
    /\ At(i, "migrating") /\ schema = "none"
    /\ schema' = "base"
    /\ UNCHANGED <<files, boot, lock, providers, seeded>> /\ BootUnchanged

\* Mutant: the import does not lock the tables.
TablesNeverLocked == FALSE

(* The import holds every table in ACCESS EXCLUSIVE mode. *)
TablesLocked == importing

(* encryptStorageProviderConfig, with the key of container i. *)
Encrypted(i, config) == IF config \in {"plain", "environment"} THEN boot[i].key ELSE config

(* decryptStorageProviderConfig: a plain row is accepted as it is. *)
Decrypts(i, config) == config \in {boot[i].key, "plain", "environment", Null}

(* up: in one transaction, every row that is not encrypted yet is; a row   *)
(* that takes its settings from the environment needs them.                *)
Migratable == \A p \in Provider : providers[p] = "environment" => legacyEnv

\* Mutant: rows that take their settings from the environment are skipped.
EncryptPlainOnly(i) ==
    /\ At(i, "migrating") /\ schema = "base" /\ ~TablesLocked
    /\ schema' = "current"
    /\ providers' = [p \in Provider |->
           IF providers[p] = "plain" THEN boot[i].key ELSE providers[p]]
    /\ UNCHANGED <<files, boot, lock, seeded>> /\ BootUnchanged

EncryptConfigs(i) ==
    /\ At(i, "migrating") /\ schema = "base" /\ ~TablesLocked /\ Migratable
    /\ schema' = "current"
    /\ providers' = [p \in Provider |-> Encrypted(i, providers[p])]
    /\ UNCHANGED <<files, boot, lock, seeded>> /\ BootUnchanged

EncryptFails(i) ==
    /\ At(i, "migrating") /\ schema = "base" /\ ~TablesLocked /\ ~Migratable
    /\ Exit(i)
    /\ UNCHANGED <<files, schema, providers, seeded>> /\ BootUnchanged

MigrationsDone(i) ==
    /\ At(i, "migrating") /\ schema = "current"
    /\ lock' = Null
    /\ Go(i, "seed")
    /\ UNCHANGED <<files, schema, providers, seeded>> /\ BootUnchanged

(* db:seed runs the seeders by name: platforms, settings, providers and    *)
(* users.  firstOrCreate of platforms, architectures and settings: read;   *)
(* insert what is missing, against a unique column.                        *)
SeedRead(i) ==
    /\ At(i, "seed") /\ dbUp /\ ~TablesLocked
    /\ Go(i, IF "base" \in seeded THEN "providers" ELSE "seedInsert")
    /\ UNCHANGED <<files, lock, schema, providers, seeded>> /\ BootUnchanged

SeedInsert(i) ==
    /\ At(i, "seedInsert") /\ ~TablesLocked /\ "base" \notin seeded
    /\ seeded' = seeded \cup {"base"}
    /\ Go(i, "providers")
    /\ UNCHANGED <<files, lock, schema, providers>> /\ BootUnchanged

(* The storage seeder reads and inserts under an advisory lock. *)
SeedProviders(i) ==
    /\ At(i, "providers") /\ dbUp /\ ~TablesLocked
    /\ providers' = [providers EXCEPT ![Local] = IF @ = Null THEN Encrypted(i, "plain") ELSE @]
    /\ Go(i, "admin")
    /\ UNCHANGED <<files, lock, schema, seeded>> /\ BootUnchanged

(* The user seeder does nothing when no administrator is configured. *)
SeedAdmin(i) ==
    /\ At(i, "admin") /\ adminEnv # "refused"
    /\ adminEnv = "accepted" => dbUp /\ ~TablesLocked
    /\ Go(i, IF adminEnv = "unset" \/ "admin" \in seeded THEN "serving" ELSE "adminInsert")
    /\ UNCHANGED <<files, lock, schema, providers, seeded>> /\ BootUnchanged

SeedAdminInsert(i) ==
    /\ At(i, "adminInsert") /\ ~TablesLocked /\ "admin" \notin seeded
    /\ seeded' = seeded \cup {"admin"}
    /\ Go(i, "serving")
    /\ UNCHANGED <<files, lock, schema, providers>> /\ BootUnchanged

(* Another container was first: the unique column refuses the row. *)
SeedRefused(i) ==
    /\ ~TablesLocked
    /\ \/ At(i, "seedInsert") /\ "base" \in seeded
       \/ At(i, "adminInsert") /\ "admin" \in seeded
    /\ Exit(i)
    /\ UNCHANGED <<files, schema, providers, seeded>> /\ BootUnchanged

(* The database is away, or one of the administrator's settings is missing *)
(* or too short.                                                           *)
SeedFails(i) ==
    /\ \/ boot[i].pc \in {"seed", "providers"} /\ ~dbUp
       \/ At(i, "admin") /\ adminEnv = "accepted" /\ ~dbUp
       \/ At(i, "admin") /\ adminEnv = "refused"
    /\ Exit(i)
    /\ UNCHANGED <<files, schema, providers, seeded>> /\ BootUnchanged

(* A root user adds a provider: StorageProvider.prepare encrypts it. *)
AddProvider(i, p) ==
    /\ At(i, "serving") /\ dbUp /\ ~TablesLocked /\ providers[p] = Null
    /\ providers' = [providers EXCEPT ![p] = Encrypted(i, "plain")]
    /\ UNCHANGED <<files, boot, lock, schema, seeded>> /\ BootUnchanged

Crash(i) ==
    /\ ~At(i, "down") /\ faults < MaxFaults
    /\ Exit(i)
    /\ faults' = faults + 1
    /\ UNCHANGED <<files, envKey, init, dbRole, dbUp, schema, providers, seeded,
                   legacyEnv, adminEnv, importing, runs>>

-----------------------------------------------------------------------------
(* The legacy import, given the containers' key, and the operator.         *)

ImportKey == IF envKey # Null THEN envKey ELSE files["app_key"]
Empty == seeded = {} /\ \A p \in Provider : providers[p] = Null

ImportUnchanged == UNCHANGED <<files, envKey, init, dbRole, dbUp, boot, lock, schema,
                               legacyEnv, adminEnv, faults, runs>>

(* The tables exist and are empty; whether the configurations' migration   *)
(* has run is not asked.                                                   *)
ImportBegin ==
    /\ ~importing /\ dbUp /\ schema # "none" /\ ImportKey # Null
    /\ Empty
    /\ importing' = TRUE
    /\ UNCHANGED <<providers, seeded>> /\ ImportUnchanged

(* The exported rows are inserted, provider settings encrypted, and counted. *)
ImportCommit(ps, rows) ==
    /\ importing
    /\ importing' = FALSE
    /\ providers' = [p \in Provider |-> IF p \in ps THEN ImportKey ELSE providers[p]]
    /\ seeded' = rows
    /\ ImportUnchanged

(* A dry run, or a row, count or default product that is refused. *)
ImportRollback ==
    /\ importing
    /\ importing' = FALSE
    /\ UNCHANGED <<providers, seeded>> /\ ImportUnchanged

(* The migration's error asks for the legacy settings. *)
SupplyLegacyEnv ==
    /\ ~legacyEnv /\ ~Migratable
    /\ legacyEnv' = TRUE
    /\ UNCHANGED <<files, envKey, init, dbRole, dbUp, boot, lock, schema, providers,
                   seeded, adminEnv, importing, faults, runs>>

(* The user seeder's error asks for an address and a longer password. *)
CorrectAdminEnv ==
    /\ adminEnv = "refused"
    /\ adminEnv' = "accepted"
    /\ UNCHANGED <<files, envKey, init, dbRole, dbUp, boot, lock, schema, providers,
                   seeded, legacyEnv, importing, faults, runs>>

-----------------------------------------------------------------------------
BootStep(i) ==
    \/ Start(i) \/ Connect(i) \/ ConnectRetry(i) \/ ConnectFails(i)
    \/ WriteKey(i) \/ LinkKey(i) \/ ReadKey(i)
    \/ TakeMigrationLock(i) \/ MigrationLocked(i)
    \/ CreateTables(i) \/ EncryptConfigs(i) \/ EncryptFails(i) \/ MigrationsDone(i)
    \/ SeedRead(i) \/ SeedInsert(i) \/ SeedProviders(i) \/ SeedAdmin(i)
    \/ SeedAdminInsert(i) \/ SeedRefused(i) \/ SeedFails(i)

ImportEnd ==
    ImportRollback \/ \E ps \in SUBSET Provider, rows \in SUBSET SeedRow : ImportCommit(ps, rows)

Next ==
    \/ \E i \in Instance : BootStep(i) \/ Crash(i) \/ \E p \in Provider : AddProvider(i, p)
    \/ \E id \in Identity, pw \in Password \cup {Null} : InitRun(id, pw)
    \/ InitPassword \/ InitSuperuser \/ InitCrash
    \/ DbFirstStart \/ DbRestart \/ DbOutage
    \/ ImportBegin \/ ImportEnd \/ SupplyLegacyEnv \/ CorrectAdminEnv

(* Docker restarts what exits and a process takes its next step, strongly  *)
(* so because PostgreSQL queues whoever waits for a table behind the       *)
(* imports before it and ahead of later ones; the import ends; an operator *)
(* told that the migration lacks the legacy settings, or that the          *)
(* administrator's are not acceptable, supplies them.                      *)
(* Nothing brings the database back.                                       *)
Fairness ==
    /\ \A i \in Instance : SF_vars(BootStep(i))
    /\ WF_vars(ImportEnd) /\ WF_vars(SupplyLegacyEnv) /\ WF_vars(CorrectAdminEnv)

Spec == Init /\ [][Next]_vars /\ Fairness

-----------------------------------------------------------------------------
(* The database role keeps the password the containers read, whatever      *)
(* passwords later runs of the initializer are configured with.            *)
PasswordsAgree == dbRole # Null => dbRole = files["db_password"]

(* Every container that holds an application key can decrypt every         *)
(* provider row, also the ones other containers, the migration or the      *)
(* import wrote, when all start at once on a new volume.                   *)
ConfigsReadable ==
    \A i \in Instance, p \in Provider :
        boot[i].key # Null => Decrypts(i, providers[p])

(* No container serves requests while a provider row holds settings that   *)
(* are not encrypted.                                                      *)
ServesEncrypted ==
    \A i \in Instance, p \in Provider :
        At(i, "serving") => providers[p] \notin {"plain", "environment"}

(* The import never adds to a database that containers have begun to seed, *)
(* even when one starts while it runs.                                     *)
ImportsIntoEmpty == importing => Empty

(* The connection check ends, also when the database never answers: the    *)
(* container goes on or exits at the deadline.  With a database that stays *)
(* up, every container comes to serve, whatever crashes, lost migration    *)
(* locks, refused seed rows and refused settings came before.              *)
EveryInstanceServes ==
    /\ \A i \in Instance : At(i, "connect") ~> ~At(i, "connect")
    /\ <>[]dbUp => \A i \in Instance : At(i, "connect") ~> At(i, "serving")
=============================================================================
