--------------------------- MODULE StartupProofs ---------------------------
(***************************************************************************)
(* Proofs about Startup, for any number of containers and providers, any   *)
(* secrets, and any number of crashes, outages and runs.                   *)
(***************************************************************************)
EXTENDS Startup, FiniteSetTheorems, TLAPS

-----------------------------------------------------------------------------
(* The inductive invariant.  The application key of the deployment, which  *)
(* ImportKey names, is set once: by the operator or by the first link.     *)

Seeding == {"seed", "seedInsert", "providers", "admin", "adminInsert", "serving"}
Keyed == {"migrate", "migrating"} \cup Seeding

\* What a container at its step has: the deployment's key, and the schema.
BootOK(b) ==
    /\ b.key # Null => b.key = ImportKey
    /\ b.pc \in {"write", "link", "read"} => envKey = Null
    /\ b.pc = "link" => b.draft # Null
    /\ b.pc = "read" => files["app_key"] # Null
    /\ b.pc \in Keyed => b.key # Null
    /\ b.pc \in Seeding => schema = "current"

\* Provider rows are encrypted with the deployment's key or not yet; with the
\* current schema they all are.
RowsOK ==
    /\ \A p \in Provider : providers[p] \in {Null, "plain", "environment", ImportKey}
    /\ schema = "current" => \A p \in Provider : providers[p] \notin {"plain", "environment"}

\* An open import holds every table of an empty database.
ImportOK == importing => Empty /\ schema # "none" /\ ImportKey # Null

\* A run of the initializer that is under way is still to be counted.
InitOK == init.pc \in {"password", "superuser"} => runs < MaxRuns

Inductive ==
    /\ TypeOK
    /\ files["app_key"] \in Value \cup {Null}
    /\ files["db_password"] \in Value \cup Password \cup {Null}
    /\ \A i \in Instance : BootOK(boot[i])
    /\ RowsOK
    /\ ImportOK
    /\ PasswordsAgree /\ InitOK

-----------------------------------------------------------------------------
(* Secrets *)

\* Some secret is outside every set no larger than the places that hold one.
LEMMA Fresh ==
    ASSUME NEW S, IsFiniteSet(S), Cardinality(S) <= Cardinality(Instance) + 5
    PROVE  \E v \in Value : v \notin S
<1> SUFFICES ASSUME Value \subseteq S PROVE FALSE
  OBVIOUS
<1>1. IsFiniteSet(Value) /\ Cardinality(Value) <= Cardinality(S)
  BY FS_Subset
<1>2. Cardinality(Value) \in Nat /\ Cardinality(S) \in Nat /\ Cardinality(Instance) \in Nat
  BY <1>1, FS_CardinalityType, ValuesAssumption
<1> QED BY <1>1, <1>2, ValuesAssumption

\* One more element makes a finite set larger by one at most.
LEMMA AddOne ==
    ASSUME NEW S, NEW n \in Nat, IsFiniteSet(S), Cardinality(S) <= n, NEW x
    PROVE  IsFiniteSet(S \cup {x}) /\ Cardinality(S \cup {x}) <= n + 1
<1>1. /\ IsFiniteSet(S \cup {x})
      /\ Cardinality(S \cup {x}) = IF x \in S THEN Cardinality(S) ELSE Cardinality(S) + 1
  BY FS_AddElement
<1>2. Cardinality(S) \in Nat
  BY FS_CardinalityType
<1> QED BY <1>1, <1>2

\* A generated secret is a secret that nobody holds.
LEMMA RandomFacts == Random \in Value /\ Random \notin InUse
<1> DEFINE drafts == {boot[i].draft : i \in Instance}
           f == [i \in Instance |-> boot[i].draft]
           n == Cardinality(Instance)
<1>0. n \in Nat
  BY ValuesAssumption, FS_CardinalityType
<1>1. f \in Surjection(Instance, drafts)
  BY DEF Surjection
<1> HIDE DEF f
<1>2. IsFiniteSet(drafts) /\ Cardinality(drafts) <= n
  BY <1>1, ValuesAssumption, FS_Surjection
<1>3. InUse = ((((drafts \cup {files["identity"]}) \cup {files["db_password"]})
                 \cup {files["app_key"]}) \cup {files["postgres_password"]}) \cup {dbRole}
  BY DEF InUse, Name
<1> DEFINE s1 == drafts \cup {files["identity"]}
           s2 == s1 \cup {files["db_password"]}
           s3 == s2 \cup {files["app_key"]}
           s4 == s3 \cup {files["postgres_password"]}
           s5 == s4 \cup {dbRole}
<1> HIDE DEF drafts, n
<1> PICK n1 \in Nat, n2 \in Nat, n3 \in Nat, n4 \in Nat :
         n1 = n + 1 /\ n2 = n1 + 1 /\ n3 = n2 + 1 /\ n4 = n3 + 1
  BY <1>0
<1>4. IsFiniteSet(s1) /\ Cardinality(s1) <= n1
  BY <1>0, <1>2, AddOne
<1> HIDE DEF s1
<1>5. IsFiniteSet(s2) /\ Cardinality(s2) <= n2
  BY <1>4, AddOne
<1> HIDE DEF s2
<1>6. IsFiniteSet(s3) /\ Cardinality(s3) <= n3
  BY <1>5, AddOne
<1> HIDE DEF s3
<1>7. IsFiniteSet(s4) /\ Cardinality(s4) <= n4
  BY <1>6, AddOne
<1> HIDE DEF s4
<1>a. IsFiniteSet(s5) /\ Cardinality(s5) <= n4 + 1
  BY <1>7, AddOne
<1>8. InUse = s5
  BY <1>3 DEF s1, s2, s3, s4
<1> HIDE DEF s5
<1>9. IsFiniteSet(InUse) /\ Cardinality(InUse) <= Cardinality(Instance) + 5
  BY <1>0, <1>a, <1>8 DEF n
<1>10. \E v \in Value : v \notin InUse
  BY <1>9, Fresh
<1> QED BY <1>10 DEF Random

-----------------------------------------------------------------------------
(* Frames *)

\* The deployment's key is set once.
LEMMA KeyStays ==
    ASSUME envKey' = envKey,
           files["app_key"] # Null => files'["app_key"] = files["app_key"]
    PROVE  ImportKey # Null => ImportKey' = ImportKey
BY DEF ImportKey

\* A step after which the key and the current schema stay, and one container has
\* what its new step says.
LEMMA Frame ==
    ASSUME Inductive, TypeOK', envKey' = envKey,
           files["app_key"] # Null => files'["app_key"] = files["app_key"],
           files'["app_key"] \in Value \cup {Null},
           files'["db_password"] \in Value \cup Password \cup {Null},
           schema = "current" => schema' = "current",
           \A i \in Instance : boot'[i] = boot[i] \/ BootOK(boot[i])',
           RowsOK', ImportOK', PasswordsAgree' /\ InitOK'
    PROVE  Inductive'
<1>1. ASSUME NEW i \in Instance, boot'[i] = boot[i] PROVE BootOK(boot[i])'
  <2> DEFINE b == boot[i]
  <2>1. BootOK(b) /\ boot'[i] = b
    BY <1>1 DEF Inductive
  <2>2. b.key # Null => b.key = ImportKey'
    BY <2>1, KeyStays DEF BootOK
  <2> HIDE DEF b
  <2> QED BY <2>1, <2>2 DEF BootOK
<1> QED BY <1>1 DEF Inductive

\* A step of one container that writes neither files nor rows.
LEMMA BootFrame ==
    ASSUME Inductive, NEW i \in Instance,
           boot' \in [Instance -> Boot], \A j \in Instance \ {i} : boot'[j] = boot[j],
           BootOK(boot[i])',
           UNCHANGED <<files, envKey, init, dbRole, dbUp, schema, providers, seeded,
                       legacyEnv, adminEnv, importing, runs>>,
           lock' \in Instance \cup {Null}, faults' \in 0..MaxFaults
    PROVE  Inductive'
<1>1. TypeOK'
  BY DEF Inductive, TypeOK
<1>2. RowsOK' /\ ImportOK' /\ PasswordsAgree' /\ InitOK'
  BY DEF Inductive, RowsOK, ImportOK, ImportKey, Empty, PasswordsAgree, InitOK
<1>3. /\ files'["app_key"] \in Value \cup {Null}
      /\ files'["db_password"] \in Value \cup Password \cup {Null}
  BY DEF Inductive
<1> QED BY <1>1, <1>2, <1>3, Frame

\* A stopped container is in a typed state without a key.
LEMMA StoppedFacts ==
    ASSUME NEW b \in Boot
    PROVE  Stopped(b) \in Boot /\ Stopped(b).pc = "down" /\ Stopped(b).key = Null
<1>1. 0 \in 0..Timeout
  BY StartupAssumption
<1> QED BY <1>1 DEF Stopped, Boot, Pc

\* A container that exits holds nothing.
LEMMA ExitStep ==
    ASSUME Inductive, NEW i \in Instance, Exit(i),
           UNCHANGED <<files, envKey, init, dbRole, dbUp, schema, providers, seeded,
                       legacyEnv, adminEnv, importing, runs>>,
           faults' \in 0..MaxFaults
    PROVE  Inductive'
<1>1. boot \in [Instance -> Boot] /\ lock \in Instance \cup {Null}
  BY DEF Inductive, TypeOK
<1> DEFINE b == Stopped(boot[i])
<1>2. b \in Boot /\ b.pc = "down" /\ b.key = Null
  BY <1>1, StoppedFacts
<1>3. boot' = [boot EXCEPT ![i] = b] /\ lock' \in Instance \cup {Null}
  BY <1>1 DEF Exit
<1> HIDE DEF b
<1>4. /\ boot' \in [Instance -> Boot] /\ boot'[i] = b
      /\ \A j \in Instance \ {i} : boot'[j] = boot[j]
  BY <1>1, <1>2, <1>3
<1>5. BootOK(boot[i])'
  BY <1>2, <1>4 DEF BootOK, Keyed, Seeding
<1> QED BY <1>3, <1>4, <1>5, BootFrame

-----------------------------------------------------------------------------
(* Steps of a container that write neither files nor rows *)

\* What the invariant says of one container.
LEMMA BootFacts ==
    ASSUME Inductive, NEW i \in Instance
    PROVE  /\ boot \in [Instance -> Boot] /\ boot[i] \in Boot /\ BootOK(boot[i])
           /\ envKey \in {AppKey, Null} /\ faults \in 0..MaxFaults
           /\ lock \in Instance \cup {Null}
           /\ files["app_key"] \in Value \cup {Null}
BY DEF Inductive, TypeOK

\* A container takes a step within its part of the invariant, and keeps its key.
LEMMA GoStep ==
    ASSUME Inductive, NEW i \in Instance, NEW pc \in Pc,
           boot' = [boot EXCEPT ![i].pc = pc],
           pc \notin {"write", "link", "read"},
           pc \in Keyed => boot[i].key # Null,
           pc \in Seeding => schema = "current",
           UNCHANGED <<files, envKey, init, dbRole, dbUp, schema, providers, seeded,
                       legacyEnv, adminEnv, importing, faults, runs>>,
           lock' \in Instance \cup {Null}
    PROVE  Inductive'
<1> DEFINE b == [boot[i] EXCEPT !.pc = pc]
<1>1. boot[i] \in Boot /\ boot \in [Instance -> Boot] /\ BootOK(boot[i])
  BY BootFacts
<1>2. b \in Boot /\ b.pc = pc /\ b.key = boot[i].key
  BY <1>1 DEF Boot
<1>3. boot' = [boot EXCEPT ![i] = b]
  OBVIOUS
<1> HIDE DEF b
<1>4. /\ boot' \in [Instance -> Boot] /\ boot'[i] = b
      /\ \A j \in Instance \ {i} : boot'[j] = boot[j]
  BY <1>1, <1>2, <1>3
<1>5. BootOK(boot[i])'
  BY <1>1, <1>2, <1>4 DEF BootOK, ImportKey
<1> QED BY <1>4, <1>5, BootFacts, BootFrame

\* Starting, connecting and retrying; the key of the operator is taken over.
LEMMA ConnectSteps ==
    ASSUME Inductive, NEW i \in Instance,
           Start(i) \/ Connect(i) \/ ConnectRetry(i) \/ ConnectFails(i)
    PROVE  Inductive'
<1>0. /\ boot[i] \in Boot /\ boot \in [Instance -> Boot] /\ BootOK(boot[i])
      /\ envKey \in {AppKey, Null}
  BY BootFacts
<1>1. CASE Start(i)
  <2> DEFINE b == [boot[i] EXCEPT !.pc = "connect", !.left = Timeout, !.created = TRUE]
  <2>1. b \in Boot /\ b.pc = "connect" /\ b.key = boot[i].key
    <3>1. Timeout \in 0..Timeout
      BY StartupAssumption
    <3> QED BY <1>0, <3>1 DEF Boot, Pc
  <2>2. boot' = [boot EXCEPT ![i] = b]
    BY <1>1 DEF Start
  <2> HIDE DEF b
  <2>3. /\ boot' \in [Instance -> Boot] /\ boot'[i] = b
        /\ \A j \in Instance \ {i} : boot'[j] = boot[j]
    BY <1>0, <2>1, <2>2
  <2>4. UNCHANGED <<files, envKey, init, dbRole, dbUp, lock, schema, providers, seeded,
                    legacyEnv, adminEnv, importing, faults, runs>>
    BY <1>1 DEF Start, BootUnchanged
  <2>5. BootOK(boot[i])'
    BY <1>0, <2>1, <2>3, <2>4 DEF BootOK, ImportKey, Keyed, Seeding
  <2> QED BY <2>3, <2>4, <2>5, BootFacts, BootFrame
<1>2. CASE Connect(i)
  <2> DEFINE next == IF envKey = Null THEN "write" ELSE "migrate"
             b == [[[boot[i] EXCEPT !.pc = next] EXCEPT !.left = 0] EXCEPT !.key = envKey]
  <2>0. next \in Pc
    BY DEF Pc
  <2>1. b \in Boot /\ b.pc = next /\ b.key = envKey
    <3>1. 0 \in 0..Timeout
      BY StartupAssumption
    <3>2. envKey \in Key \cup {Null}
      BY <1>0 DEF Key
    <3> HIDE DEF next
    <3> QED BY <1>0, <2>0, <3>1, <3>2 DEF Boot
  <2>2. boot' = [boot EXCEPT ![i] = b]
    BY <1>0, <1>2 DEF Connect
  <2> HIDE DEF b
  <2>3. /\ boot' \in [Instance -> Boot] /\ boot'[i] = b
        /\ \A j \in Instance \ {i} : boot'[j] = boot[j]
    BY <1>0, <2>1, <2>2
  <2>4. UNCHANGED <<files, envKey, init, dbRole, dbUp, lock, schema, providers, seeded,
                    legacyEnv, adminEnv, importing, faults, runs>>
    BY <1>2 DEF Connect, BootUnchanged
  <2>5. BootOK(boot[i])'
    BY <2>1, <2>3, <2>4 DEF BootOK, ImportKey, Keyed, Seeding
  <2> QED BY <2>3, <2>4, <2>5, BootFacts, BootFrame
<1>3. CASE ConnectRetry(i)
  <2> DEFINE b == [boot[i] EXCEPT !.left = boot[i].left - 1]
  <2>1. b \in Boot /\ b.pc = "connect" /\ b.key = boot[i].key
    <3>1. boot[i].left \in 0..Timeout /\ boot[i].left > 0 /\ boot[i].pc = "connect"
      BY <1>0, <1>3 DEF ConnectRetry, Boot, At
    <3>2. boot[i].left - 1 \in 0..Timeout
      BY <3>1, StartupAssumption
    <3> QED BY <1>0, <3>1, <3>2 DEF Boot
  <2>2. boot' = [boot EXCEPT ![i] = b]
    BY <1>3 DEF ConnectRetry
  <2> HIDE DEF b
  <2>3. /\ boot' \in [Instance -> Boot] /\ boot'[i] = b
        /\ \A j \in Instance \ {i} : boot'[j] = boot[j]
    BY <1>0, <2>1, <2>2
  <2>4. UNCHANGED <<files, envKey, init, dbRole, dbUp, lock, schema, providers, seeded,
                    legacyEnv, adminEnv, importing, faults, runs>>
    BY <1>3 DEF ConnectRetry, BootUnchanged
  <2>5. BootOK(boot[i])'
    BY <1>0, <2>1, <2>3, <2>4 DEF BootOK, ImportKey, Keyed, Seeding
  <2> QED BY <2>3, <2>4, <2>5, BootFacts, BootFrame
<1>4. CASE ConnectFails(i)
  BY <1>4, BootFacts, ExitStep DEF ConnectFails, BootUnchanged
<1> QED BY <1>1, <1>2, <1>3, <1>4

\* The draft is a secret; the key that is read back is the deployment's.
LEMMA KeySteps ==
    ASSUME Inductive, NEW i \in Instance, WriteKey(i) \/ ReadKey(i) PROVE Inductive'
<1>0. /\ boot[i] \in Boot /\ boot \in [Instance -> Boot] /\ BootOK(boot[i])
      /\ files["app_key"] \in Value \cup {Null}
  BY BootFacts
<1>1. CASE WriteKey(i)
  <2> DEFINE b == [[boot[i] EXCEPT !.pc = "link"] EXCEPT !.draft = Random]
  <2>1. b \in Boot /\ b.pc = "link" /\ b.key = boot[i].key /\ b.draft = Random
    BY <1>0, RandomFacts DEF Boot, Pc
  <2>2. boot' = [boot EXCEPT ![i] = b] /\ boot[i].pc = "write"
    BY <1>0, <1>1 DEF WriteKey, At
  <2>0. Random # Null
    BY RandomFacts, StartupAssumption
  <2> HIDE DEF b
  <2>3. /\ boot' \in [Instance -> Boot] /\ boot'[i] = b
        /\ \A j \in Instance \ {i} : boot'[j] = boot[j]
    BY <1>0, <2>1, <2>2
  <2>4. UNCHANGED <<files, envKey, init, dbRole, dbUp, lock, schema, providers, seeded,
                    legacyEnv, adminEnv, importing, faults, runs>>
    BY <1>1 DEF WriteKey, BootUnchanged
  <2>5. BootOK(boot[i])'
    BY <1>0, <2>0, <2>1, <2>2, <2>3, <2>4 DEF BootOK, ImportKey, Keyed, Seeding
  <2> QED BY <2>3, <2>4, <2>5, BootFacts, BootFrame
<1>2. CASE ReadKey(i)
  <2> DEFINE k == files["app_key"]
             b == [[[boot[i] EXCEPT !.pc = "migrate"] EXCEPT !.key = k] EXCEPT !.draft = Null]
  <2>1. b \in Boot /\ b.pc = "migrate" /\ b.key = k
    <3>1. k \in Key \cup {Null}
      BY <1>0 DEF Key
    <3> HIDE DEF k
    <3> QED BY <1>0, <3>1 DEF Boot, Pc
  <2>2. boot' = [boot EXCEPT ![i] = b] /\ boot[i].pc = "read"
    BY <1>0, <1>2 DEF ReadKey, At
  <2>0. k # Null /\ envKey = Null
    BY <1>0, <2>2 DEF BootOK
  <2> HIDE DEF b
  <2>3. /\ boot' \in [Instance -> Boot] /\ boot'[i] = b
        /\ \A j \in Instance \ {i} : boot'[j] = boot[j]
    BY <1>0, <2>1, <2>2
  <2>4. UNCHANGED <<files, envKey, init, dbRole, dbUp, lock, schema, providers, seeded,
                    legacyEnv, adminEnv, importing, faults, runs>>
    BY <1>2 DEF ReadKey, BootUnchanged
  <2>5. BootOK(boot[i])'
    BY <1>0, <2>0, <2>1, <2>2, <2>3, <2>4 DEF BootOK, ImportKey, Keyed, Seeding
  <2> QED BY <2>3, <2>4, <2>5, BootFacts, BootFrame
<1> QED BY <1>1, <1>2

\* Rows stay readable when only the key, or the database's state, comes to be.
LEMMA RowsFrame ==
    ASSUME Inductive, envKey' = envKey,
           files["app_key"] # Null => files'["app_key"] = files["app_key"],
           UNCHANGED <<schema, providers, seeded>>, importing' => importing
    PROVE  RowsOK' /\ ImportOK'
<1>1. ImportKey # Null => ImportKey' = ImportKey
  BY KeyStays
<1>2. RowsOK /\ ImportOK
  BY DEF Inductive
<1>3. RowsOK'
  BY <1>1, <1>2 DEF RowsOK
<1>4. ImportOK'
  BY <1>1, <1>2 DEF ImportOK, Empty
<1> QED BY <1>3, <1>4

\* The first link sets the deployment's key; a later one leaves it alone.
LEMMA LinkKeyStep ==
    ASSUME Inductive, NEW i \in Instance, LinkKey(i) PROVE Inductive'
<1> DEFINE b == [boot[i] EXCEPT !.pc = "read"]
           v == IF files["app_key"] = Null THEN boot[i].draft ELSE files["app_key"]
<1>0. /\ boot[i] \in Boot /\ boot \in [Instance -> Boot] /\ BootOK(boot[i])
      /\ files["app_key"] \in Value \cup {Null} /\ boot[i].pc = "link"
  BY BootFacts DEF LinkKey, At
<1>1. b \in Boot /\ b.pc = "read" /\ b.key = boot[i].key
  BY <1>0 DEF Boot, Pc
<1>2. v \in Value /\ v # Null /\ (files["app_key"] # Null => v = files["app_key"])
  BY <1>0, StartupAssumption DEF BootOK, Boot
<1>3. boot' = [boot EXCEPT ![i] = b] /\ files' = [files EXCEPT !["app_key"] = v]
  BY DEF LinkKey, Go, Link
<1>4. files \in [Name -> Value \cup Password \cup Identity \cup {Null}]
  BY DEF Inductive, TypeOK
<1>5. envKey = Null
  BY <1>0 DEF BootOK
<1> HIDE DEF b, v
<1>6. /\ boot' \in [Instance -> Boot] /\ boot'[i] = b
      /\ \A j \in Instance \ {i} : boot'[j] = boot[j]
  BY <1>0, <1>1, <1>3
<1>7. /\ files' \in [Name -> Value \cup Password \cup Identity \cup {Null}]
      /\ files'["app_key"] = v /\ files'["db_password"] = files["db_password"]
  BY <1>2, <1>3, <1>4 DEF Name
<1>8. UNCHANGED <<envKey, init, dbRole, dbUp, lock, schema, providers, seeded,
                  legacyEnv, adminEnv, importing, faults, runs>>
  BY DEF LinkKey, BootUnchanged
<1>9. TypeOK'
  BY <1>6, <1>7, <1>8 DEF Inductive, TypeOK
<1>10. RowsOK' /\ ImportOK'
  BY <1>2, <1>7, <1>8, RowsFrame
<1>11. BootOK(boot[i])'
  <2>1. b.key # Null => b.key = ImportKey'
    BY <1>0, <1>1, <1>2, <1>5, <1>7, <1>8 DEF BootOK, ImportKey
  <2> QED BY <1>1, <1>2, <1>5, <1>6, <1>7, <1>8, <2>1 DEF BootOK, Keyed, Seeding
<1>12. PasswordsAgree' /\ InitOK'
  BY <1>7, <1>8 DEF Inductive, PasswordsAgree, InitOK
<1>13. files'["db_password"] \in Value \cup Password \cup {Null}
  BY <1>7 DEF Inductive
<1>14. \A j \in Instance : boot'[j] = boot[j] \/ BootOK(boot[j])'
  BY <1>6, <1>11
<1> QED BY <1>2, <1>7, <1>8, <1>9, <1>10, <1>12, <1>13, <1>14, Frame

-----------------------------------------------------------------------------
(* Migrations and seeds *)

\* Steps that only move a container, or end it.
LEMMA MoveSteps ==
    ASSUME Inductive, NEW i \in Instance,
           \/ TakeMigrationLock(i) \/ MigrationLocked(i) \/ EncryptFails(i)
           \/ MigrationsDone(i) \/ SeedRead(i) \/ SeedAdmin(i) \/ SeedRefused(i)
           \/ SeedFails(i) \/ Crash(i)
    PROVE  Inductive'
<1>0. BootOK(boot[i]) /\ faults \in 0..MaxFaults /\ lock \in Instance \cup {Null}
  BY BootFacts
<1>1. CASE TakeMigrationLock(i)
  <2>1. boot[i].key # Null
    BY <1>0, <1>1 DEF TakeMigrationLock, At, BootOK, Keyed
  <2>2. "migrating" \in Pc \ (Seeding \cup {"write", "link", "read"})
    BY DEF Pc, Seeding
  <2>3. /\ boot' = [boot EXCEPT ![i].pc = "migrating"] /\ lock' = i
        /\ UNCHANGED <<files, envKey, init, dbRole, dbUp, schema, providers, seeded,
                       legacyEnv, adminEnv, importing, faults, runs>>
    BY <1>1 DEF TakeMigrationLock, Go, BootUnchanged
  <2> QED BY <2>1, <2>2, <2>3, GoStep
<1>2. CASE MigrationLocked(i)
  BY <1>0, <1>2, ExitStep DEF MigrationLocked, BootUnchanged
<1>3. CASE EncryptFails(i)
  BY <1>0, <1>3, ExitStep DEF EncryptFails, BootUnchanged
<1>4. CASE MigrationsDone(i)
  <2>1. boot[i].key # Null /\ schema = "current"
    BY <1>0, <1>4 DEF MigrationsDone, At, BootOK, Keyed
  <2>2. "seed" \in Pc \ {"write", "link", "read"}
    BY DEF Pc
  <2>3. /\ boot' = [boot EXCEPT ![i].pc = "seed"] /\ lock' = Null
        /\ UNCHANGED <<files, envKey, init, dbRole, dbUp, schema, providers, seeded,
                       legacyEnv, adminEnv, importing, faults, runs>>
    BY <1>4 DEF MigrationsDone, Go, BootUnchanged
  <2> QED BY <2>1, <2>2, <2>3, GoStep
<1>5. CASE SeedRead(i)
  <2>1. boot[i].key # Null /\ schema = "current"
    BY <1>0, <1>5 DEF SeedRead, At, BootOK, Keyed, Seeding
  <2>2. PICK pc \in {"providers", "seedInsert"} : boot' = [boot EXCEPT ![i].pc = pc]
    BY <1>5 DEF SeedRead, Go
  <2>3. pc \in Pc \ {"write", "link", "read"}
    BY <2>2 DEF Pc
  <2>4. UNCHANGED <<files, envKey, init, dbRole, dbUp, lock, schema, providers, seeded,
                    legacyEnv, adminEnv, importing, faults, runs>>
    BY <1>5 DEF SeedRead, BootUnchanged
  <2> QED BY <1>0, <2>1, <2>2, <2>3, <2>4, GoStep
<1>6. CASE SeedRefused(i)
  BY <1>0, <1>6, ExitStep DEF SeedRefused, BootUnchanged
<1>7. CASE SeedFails(i)
  BY <1>0, <1>7, ExitStep DEF SeedFails, BootUnchanged
<1>8. CASE Crash(i)
  <2>1. faults' \in 0..MaxFaults
    BY <1>0, <1>8, StartupAssumption DEF Crash
  <2> QED BY <1>8, <2>1, ExitStep DEF Crash
<1>9. CASE SeedAdmin(i)
  <2>1. boot[i].key # Null /\ schema = "current"
    BY <1>0, <1>9 DEF SeedAdmin, At, BootOK, Keyed, Seeding
  <2>2. PICK pc \in {"serving", "adminInsert"} : boot' = [boot EXCEPT ![i].pc = pc]
    BY <1>9 DEF SeedAdmin, Go
  <2>3. pc \in Pc \ {"write", "link", "read"}
    BY <2>2 DEF Pc
  <2>4. UNCHANGED <<files, envKey, init, dbRole, dbUp, lock, schema, providers, seeded,
                    legacyEnv, adminEnv, importing, faults, runs>>
    BY <1>9 DEF SeedAdmin, BootUnchanged
  <2> QED BY <1>0, <2>1, <2>2, <2>3, <2>4, GoStep
<1> QED BY <1>1, <1>2, <1>3, <1>4, <1>5, <1>6, <1>7, <1>8, <1>9

\* Steps of a keyed container that write rows: the rows are readable and typed.
LEMMA RowStep ==
    ASSUME Inductive, NEW i \in Instance, boot[i].pc \in Keyed,
           NEW pc \in Pc \ {"write", "link", "read"},
           boot' = [boot EXCEPT ![i].pc = pc],
           pc \in Seeding => schema = "current",
           schema = "current" => schema' = "current",
           UNCHANGED <<files, envKey, init, dbRole, dbUp, lock,
                       legacyEnv, adminEnv, importing, faults, runs>>,
           schema' \in {"none", "base", "current"}, seeded' \subseteq SeedRow,
           providers' \in [Provider -> Key \cup {Null, "plain", "environment"}],
           RowsOK', ~importing
    PROVE  Inductive'
<1> DEFINE b == [boot[i] EXCEPT !.pc = pc]
<1>1. boot[i] \in Boot /\ boot \in [Instance -> Boot] /\ BootOK(boot[i])
  BY BootFacts
<1>2. b \in Boot /\ b.pc = pc /\ b.key = boot[i].key
  BY <1>1 DEF Boot
<1>3. boot' = [boot EXCEPT ![i] = b]
  OBVIOUS
<1> HIDE DEF b
<1>4. /\ boot' \in [Instance -> Boot] /\ boot'[i] = b
      /\ \A j \in Instance \ {i} : boot'[j] = boot[j]
  BY <1>1, <1>2, <1>3
<1>5. BootOK(boot[i])'
  BY <1>1, <1>2, <1>4 DEF BootOK, ImportKey
<1>6. TypeOK'
  BY <1>4 DEF Inductive, TypeOK
<1>7. ImportOK'
  BY DEF Inductive, ImportOK
<1>8. PasswordsAgree' /\ InitOK' /\ files'["app_key"] \in Value \cup {Null}
        /\ files'["db_password"] \in Value \cup Password \cup {Null}
  BY DEF Inductive, PasswordsAgree, InitOK
<1>9. \A j \in Instance : boot'[j] = boot[j] \/ BootOK(boot[j])'
  BY <1>4, <1>5
<1> QED BY <1>6, <1>7, <1>8, <1>9, Frame

\* A key of the deployment is a key, and no other content of a provider row.
LEMMA KeyFacts ==
    ASSUME Inductive, NEW i \in Instance, boot[i].pc \in Keyed
    PROVE  /\ boot[i].key = ImportKey /\ ImportKey \in Key
           /\ ImportKey \notin {Null, "plain", "environment"}
           /\ providers \in [Provider -> Key \cup {Null, "plain", "environment"}]
           /\ schema \in {"none", "base", "current"} /\ seeded \subseteq SeedRow
           /\ boot = [boot EXCEPT ![i].pc = boot[i].pc] /\ boot[i].pc \in Pc
           /\ RowsOK /\ ImportOK
<1>1. boot[i] \in Boot /\ boot \in [Instance -> Boot] /\ BootOK(boot[i])
  BY BootFacts
<1>2. boot[i].key = ImportKey /\ ImportKey # Null /\ boot[i].key \in Key \cup {Null}
        /\ boot[i].pc \in Pc
  BY <1>1 DEF BootOK, Boot
<1>3. ImportKey \notin {"plain", "environment"}
  BY <1>2, StartupAssumption DEF Key
<1>4. boot = [boot EXCEPT ![i].pc = boot[i].pc]
  <2>1. boot[i] = [boot[i] EXCEPT !.pc = boot[i].pc]
    BY <1>1 DEF Boot
  <2> QED BY <1>1, <2>1
<1> QED BY <1>2, <1>3, <1>4 DEF Inductive, TypeOK

\* Migrations and seeds write rows with the deployment's key.
LEMMA RowSteps ==
    ASSUME Inductive, NEW i \in Instance,
           \/ CreateTables(i) \/ EncryptConfigs(i) \/ SeedInsert(i) \/ SeedProviders(i)
           \/ SeedAdminInsert(i)
           \/ \E p \in Provider : AddProvider(i, p)
    PROVE  Inductive'
<1>0. boot[i].pc \in Keyed
  BY DEF CreateTables, EncryptConfigs, SeedInsert, SeedProviders, SeedAdminInsert,
         AddProvider, At, Keyed, Seeding
<1> DEFINE k == ImportKey
<1>f. /\ boot[i].key = k /\ k \in Key /\ k \notin {Null, "plain", "environment"}
      /\ providers \in [Provider -> Key \cup {Null, "plain", "environment"}]
      /\ schema \in {"none", "base", "current"} /\ seeded \subseteq SeedRow
      /\ boot = [boot EXCEPT ![i].pc = boot[i].pc] /\ boot[i].pc \in Pc
      /\ RowsOK /\ ImportOK
  BY <1>0, KeyFacts
<1>g. BootOK(boot[i])
  BY BootFacts
<1>h. boot[i].pc \in Seeding => schema = "current"
  BY <1>g DEF BootOK
<1>1. CASE CreateTables(i)
  <2>1. /\ schema = "none" /\ schema' = "base" /\ boot[i].pc = "migrating"
        /\ UNCHANGED <<files, boot, lock, providers, seeded, envKey, init, dbRole, dbUp,
                       legacyEnv, adminEnv, importing, faults, runs>>
    BY <1>1 DEF CreateTables, At, BootUnchanged
  <2>2. RowsOK'
    BY <1>f, <2>1 DEF RowsOK, ImportKey
  <2>3. ~importing
    BY <1>f, <2>1 DEF ImportOK
  <2> QED BY <1>0, <1>f, <1>h, <2>1, <2>2, <2>3, RowStep
<1>2. CASE EncryptConfigs(i)
  <2>1. /\ schema = "base" /\ schema' = "current" /\ boot[i].pc = "migrating" /\ ~importing
        /\ UNCHANGED <<files, boot, lock, seeded, envKey, init, dbRole, dbUp,
                       legacyEnv, adminEnv, importing, faults, runs>>
    BY <1>2 DEF EncryptConfigs, At, TablesLocked, BootUnchanged
  <2>2. providers' = [p \in Provider |->
            IF providers[p] \in {"plain", "environment"} THEN k ELSE providers[p]]
    BY <1>2, <1>f DEF EncryptConfigs, Encrypted
  <2>3. \A p \in Provider : providers[p] \in {Null, "plain", "environment", k}
    BY <1>f DEF RowsOK
  <2>4. ImportKey' = k
    BY <2>1 DEF ImportKey
  <2> HIDE DEF k
  <2>5. \A p \in Provider : providers'[p] \in {Null, k}
    BY <2>2, <2>3
  <2>6. RowsOK'
    BY <1>f, <2>4, <2>5, StartupAssumption DEF RowsOK
  <2>7. providers' \in [Provider -> Key \cup {Null, "plain", "environment"}]
    BY <1>f, <2>2
  <2> QED BY <1>0, <1>f, <1>h, <2>1, <2>6, <2>7, RowStep
<1>3. CASE SeedInsert(i)
  <2>1. /\ boot[i].pc = "seedInsert" /\ seeded' = seeded \cup {"base"} /\ ~importing
        /\ boot' = [boot EXCEPT ![i].pc = "providers"]
        /\ UNCHANGED <<files, lock, schema, providers, envKey, init, dbRole, dbUp,
                       legacyEnv, adminEnv, importing, faults, runs>>
    BY <1>3 DEF SeedInsert, At, Go, TablesLocked, BootUnchanged
  <2>2. RowsOK'
    BY <1>f, <2>1 DEF RowsOK, ImportKey
  <2>3. "providers" \in Pc \ {"write", "link", "read"} /\ schema = "current"
    BY <1>h, <2>1 DEF Pc, Seeding
  <2>4. seeded' \subseteq SeedRow
    BY <1>f, <2>1 DEF SeedRow
  <2> QED BY <1>0, <1>f, <2>1, <2>2, <2>3, <2>4, RowStep
<1>4. CASE SeedProviders(i)
  <2>1. /\ boot[i].pc = "providers" /\ ~importing
        /\ boot' = [boot EXCEPT ![i].pc = "admin"]
        /\ UNCHANGED <<files, lock, schema, seeded, envKey, init, dbRole, dbUp,
                       legacyEnv, adminEnv, importing, faults, runs>>
    BY <1>4 DEF SeedProviders, At, Go, TablesLocked, BootUnchanged
  <2>2. providers' = [providers EXCEPT ![Local] =
            IF providers[Local] = Null THEN k ELSE providers[Local]]
    BY <1>4, <1>f DEF SeedProviders, Encrypted
  <2>3. ImportKey' = k /\ Local \in Provider
    BY <2>1, StartupAssumption DEF ImportKey
  <2>4. \A p \in Provider : providers[p] \in {Null, "plain", "environment", k}
    BY <1>f DEF RowsOK
  <2>5. schema = "current" => \A p \in Provider : providers[p] \notin {"plain", "environment"}
    BY <1>f DEF RowsOK
  <2> HIDE DEF k
  <2>6. \A p \in Provider : providers'[p] = providers[p] \/ providers'[p] = k
    BY <1>f, <2>2
  <2>7. RowsOK'
    BY <1>f, <2>1, <2>3, <2>4, <2>5, <2>6 DEF RowsOK
  <2>8. providers' \in [Provider -> Key \cup {Null, "plain", "environment"}]
    BY <1>f, <2>2, <2>3
  <2>9. "admin" \in Pc \ {"write", "link", "read"} /\ schema = "current"
    BY <1>h, <2>1 DEF Pc, Seeding
  <2> QED BY <1>0, <1>f, <2>1, <2>7, <2>8, <2>9, RowStep
<1>5. ASSUME NEW p \in Provider, AddProvider(i, p) PROVE Inductive'
  <2>1. /\ boot[i].pc = "serving" /\ ~importing
        /\ UNCHANGED <<files, boot, lock, schema, seeded, envKey, init, dbRole, dbUp,
                       legacyEnv, adminEnv, importing, faults, runs>>
    BY <1>5 DEF AddProvider, At, TablesLocked, BootUnchanged
  <2>2. providers' = [providers EXCEPT ![p] = k]
    BY <1>5, <1>f DEF AddProvider, Encrypted
  <2>3. ImportKey' = k
    BY <2>1 DEF ImportKey
  <2>4. \A q \in Provider : providers[q] \in {Null, "plain", "environment", k}
    BY <1>f DEF RowsOK
  <2>5. schema = "current" => \A q \in Provider : providers[q] \notin {"plain", "environment"}
    BY <1>f DEF RowsOK
  <2> HIDE DEF k
  <2>6. \A q \in Provider : providers'[q] = providers[q] \/ providers'[q] = k
    BY <1>f, <2>2
  <2>7. RowsOK'
    BY <1>f, <2>1, <2>3, <2>4, <2>5, <2>6 DEF RowsOK
  <2>8. providers' \in [Provider -> Key \cup {Null, "plain", "environment"}]
    BY <1>f, <2>2
  <2>9. "serving" \in Pc \ {"write", "link", "read"} /\ schema = "current"
    BY <1>h, <2>1 DEF Pc, Seeding
  <2> QED BY <1>0, <1>f, <2>1, <2>7, <2>8, <2>9, RowStep
<1>6. CASE SeedAdminInsert(i)
  <2>1. /\ boot[i].pc = "adminInsert" /\ seeded' = seeded \cup {"admin"} /\ ~importing
        /\ boot' = [boot EXCEPT ![i].pc = "serving"]
        /\ UNCHANGED <<files, lock, schema, providers, envKey, init, dbRole, dbUp,
                       legacyEnv, adminEnv, importing, faults, runs>>
    BY <1>6 DEF SeedAdminInsert, At, Go, TablesLocked, BootUnchanged
  <2>2. RowsOK'
    BY <1>f, <2>1 DEF RowsOK, ImportKey
  <2>3. "serving" \in Pc \ {"write", "link", "read"} /\ schema = "current"
    BY <1>h, <2>1 DEF Pc, Seeding
  <2>4. seeded' \subseteq SeedRow
    BY <1>f, <2>1 DEF SeedRow
  <2> QED BY <1>0, <1>f, <2>1, <2>2, <2>3, <2>4, RowStep
<1> QED BY <1>1, <1>2, <1>3, <1>4, <1>5, <1>6

-----------------------------------------------------------------------------
(* The initializer, the database, the import and the operator *)

\* A step that leaves the containers alone.
LEMMA OutsideFrame ==
    ASSUME Inductive, TypeOK',
           UNCHANGED <<envKey, boot, schema>>, files'["app_key"] = files["app_key"],
           files'["db_password"] \in Value \cup Password \cup {Null},
           RowsOK', ImportOK', PasswordsAgree' /\ InitOK'
    PROVE  Inductive'
<1>1. files'["app_key"] \in Value \cup {Null}
  BY DEF Inductive
<1> QED BY <1>1, Frame

\* A step of the initializer that is not its crash: runs are counted to the bound.
LEMMA InitStep ==
    ASSUME Inductive, runs < MaxRuns,
           files' \in [Name -> Value \cup Password \cup Identity \cup {Null}],
           files'["app_key"] = files["app_key"],
           files'["db_password"] \in Value \cup Password \cup {Null},
           dbRole # Null => files'["db_password"] = files["db_password"],
           init' \in [pc: InitPc, password: Password \cup {Null}],
           runs' = IF init'.pc \in {"done", "failed"} THEN runs + 1 ELSE runs,
           UNCHANGED <<envKey, dbRole, dbUp, boot, lock, schema, providers, seeded,
                       legacyEnv, adminEnv, importing, faults>>
    PROVE  Inductive'
<1>1. runs' \in 0..MaxRuns
  <2>1. runs \in 0..MaxRuns
    BY DEF Inductive, TypeOK
  <2> QED BY <2>1, StartupAssumption
<1>2. TypeOK'
  BY <1>1 DEF Inductive, TypeOK
<1>3. RowsOK' /\ ImportOK'
  BY RowsFrame
<1>4. PasswordsAgree'
  BY DEF Inductive, PasswordsAgree
<1>5. InitOK'
  BY DEF InitOK
<1> QED BY <1>2, <1>3, <1>4, <1>5, OutsideFrame

\* The initializer keeps the password the database role may already have.
LEMMA InitializerSteps ==
    ASSUME Inductive,
           \/ \E id \in Identity, pw \in Password \cup {Null} : InitRun(id, pw)
           \/ InitPassword \/ InitSuperuser \/ InitCrash
    PROVE  Inductive'
<1>0. /\ files \in [Name -> Value \cup Password \cup Identity \cup {Null}]
      /\ init \in [pc: InitPc, password: Password \cup {Null}]
      /\ runs \in 0..MaxRuns /\ PasswordsAgree /\ InitOK /\ faults \in 0..MaxFaults
      /\ files["db_password"] \in Value \cup Password \cup {Null}
  BY DEF Inductive, TypeOK
<1>1. ASSUME NEW id \in Identity, NEW pw \in Password \cup {Null}, InitRun(id, pw)
      PROVE  Inductive'
  <2> DEFINE v == IF files["identity"] = Null THEN id ELSE files["identity"]
  <2>1. files' = [files EXCEPT !["identity"] = v]
    BY <1>1 DEF InitRun, Link
  <2>2. v \in Value \cup Password \cup Identity \cup {Null}
    BY <1>0 DEF Name
  <2> HIDE DEF v
  <2>3. /\ files' \in [Name -> Value \cup Password \cup Identity \cup {Null}]
        /\ files'["app_key"] = files["app_key"]
        /\ files'["db_password"] = files["db_password"]
    BY <1>0, <2>1, <2>2 DEF Name
  <2>4. init' \in [pc: InitPc, password: Password \cup {Null}] /\ runs < MaxRuns
    BY <1>1 DEF InitRun, InitPc
  <2>5. runs' = (IF init'.pc \in {"done", "failed"} THEN runs + 1 ELSE runs)
    BY <1>1 DEF InitRun, CountRun
  <2>6. UNCHANGED <<envKey, dbRole, dbUp, boot, lock, schema, providers, seeded,
                    legacyEnv, adminEnv, importing, faults>>
    BY <1>1 DEF InitRun, InitUnchanged
  <2> QED BY <1>0, <2>3, <2>4, <2>5, <2>6, InitStep DEF PasswordsAgree
<1>2. CASE InitPassword
  <2> DEFINE w == IF init.password = Null THEN Random ELSE init.password
             v == IF files["db_password"] = Null THEN w ELSE files["db_password"]
  <2>1. files' = [files EXCEPT !["db_password"] = v]
    BY <1>2 DEF InitPassword, Link
  <2>2. w \in Value \cup Password \cup {Null}
    BY <1>0, RandomFacts
  <2>a. v \in Value \cup Password \cup {Null} /\ (files["db_password"] # Null => v = files["db_password"])
    BY <1>0, <2>2
  <2> HIDE DEF v
  <2>3. /\ files' \in [Name -> Value \cup Password \cup Identity \cup {Null}]
        /\ files'["app_key"] = files["app_key"] /\ files'["db_password"] = v
    BY <1>0, <2>1, <2>a DEF Name
  <2>4. init' \in [pc: InitPc, password: Password \cup {Null}] /\ runs < MaxRuns
    BY <1>0, <1>2 DEF InitPassword, InitPc, InitOK
  <2>5. runs' = (IF init'.pc \in {"done", "failed"} THEN runs + 1 ELSE runs)
    BY <1>2 DEF InitPassword, CountRun
  <2>6. UNCHANGED <<envKey, dbRole, dbUp, boot, lock, schema, providers, seeded,
                    legacyEnv, adminEnv, importing, faults>>
    BY <1>2 DEF InitPassword, InitUnchanged
  <2>7. dbRole # Null => files'["db_password"] = files["db_password"]
    BY <1>0, <2>a, <2>3 DEF PasswordsAgree
  <2> QED BY <2>a, <2>3, <2>4, <2>5, <2>6, <2>7, InitStep
<1>3. CASE InitSuperuser
  <2> DEFINE v == IF files["postgres_password"] = Null THEN Random ELSE files["postgres_password"]
  <2>1. files' = [files EXCEPT !["postgres_password"] = v]
    BY <1>3 DEF InitSuperuser, Link
  <2>2. v \in Value \cup Password \cup Identity \cup {Null}
    BY <1>0, RandomFacts DEF Name
  <2> HIDE DEF v
  <2>3. /\ files' \in [Name -> Value \cup Password \cup Identity \cup {Null}]
        /\ files'["app_key"] = files["app_key"]
        /\ files'["db_password"] = files["db_password"]
    BY <1>0, <2>1, <2>2 DEF Name
  <2>4. init' \in [pc: InitPc, password: Password \cup {Null}] /\ runs < MaxRuns
    BY <1>0, <1>3 DEF InitSuperuser, InitPc, InitOK
  <2>5. runs' = (IF init'.pc \in {"done", "failed"} THEN runs + 1 ELSE runs)
    BY <1>3 DEF InitSuperuser, CountRun
  <2>6. UNCHANGED <<envKey, dbRole, dbUp, boot, lock, schema, providers, seeded,
                    legacyEnv, adminEnv, importing, faults>>
    BY <1>3 DEF InitSuperuser, InitUnchanged
  <2> QED BY <1>0, <2>3, <2>4, <2>5, <2>6, InitStep
<1>4. CASE InitCrash
  <2>1. /\ init' = [pc |-> "failed", password |-> Null]
        /\ UNCHANGED <<files, envKey, dbRole, dbUp, boot, lock, schema, providers, seeded,
                       legacyEnv, adminEnv, importing, runs>>
    BY <1>4 DEF InitCrash, InitUnchanged
  <2>2. faults' \in 0..MaxFaults
    BY <1>0, <1>4, StartupAssumption DEF InitCrash
  <2>3. init' \in [pc: InitPc, password: Password \cup {Null}]
    BY <2>1 DEF InitPc
  <2>4. TypeOK'
    BY <2>1, <2>2, <2>3 DEF Inductive, TypeOK
  <2>5. RowsOK' /\ ImportOK'
    BY <2>1, RowsFrame
  <2>6. PasswordsAgree' /\ InitOK'
    BY <1>0, <2>1 DEF PasswordsAgree, InitOK
  <2> QED BY <1>0, <2>1, <2>4, <2>5, <2>6, OutsideFrame
<1> QED BY <1>1, <1>2, <1>3, <1>4

\* The role gets the stored password; an outage stops whoever is connected.
LEMMA DatabaseSteps ==
    ASSUME Inductive, DbFirstStart \/ DbRestart \/ DbOutage PROVE Inductive'
<1>0. /\ files["db_password"] \in Value \cup Password \cup {Null}
      /\ files["app_key"] \in Value \cup {Null}
      /\ boot \in [Instance -> Boot] /\ faults \in 0..MaxFaults
  BY DEF Inductive, TypeOK
<1>1. CASE DbFirstStart
  <2>1. /\ dbRole' = files["db_password"] /\ dbUp' = TRUE
        /\ UNCHANGED <<files, envKey, init, boot, lock, schema, providers, seeded,
                       legacyEnv, adminEnv, importing, faults, runs>>
    BY <1>1 DEF DbFirstStart
  <2>2. TypeOK'
    BY <1>0, <2>1 DEF Inductive, TypeOK
  <2>3. RowsOK' /\ ImportOK'
    BY <2>1, RowsFrame
  <2>4. PasswordsAgree' /\ InitOK'
    BY <2>1 DEF Inductive, PasswordsAgree, InitOK
  <2> QED BY <1>0, <2>1, <2>2, <2>3, <2>4, OutsideFrame
<1>2. CASE DbRestart
  <2>1. /\ dbUp' = TRUE
        /\ UNCHANGED <<files, envKey, init, dbRole, boot, lock, schema, providers, seeded,
                       legacyEnv, adminEnv, importing, faults, runs>>
    BY <1>2 DEF DbRestart
  <2>2. TypeOK'
    BY <2>1 DEF Inductive, TypeOK
  <2>3. RowsOK' /\ ImportOK'
    BY <2>1, RowsFrame
  <2>4. PasswordsAgree' /\ InitOK'
    BY <2>1 DEF Inductive, PasswordsAgree, InitOK
  <2> QED BY <1>0, <2>1, <2>2, <2>3, <2>4, OutsideFrame
<1>3. CASE DbOutage
  <2>1. /\ dbUp' = FALSE /\ importing' = FALSE /\ lock' = Null
        /\ UNCHANGED <<files, envKey, init, dbRole, schema, providers, seeded, legacyEnv, adminEnv, runs>>
    BY <1>3 DEF DbOutage
  <2>2. faults' \in 0..MaxFaults
    BY <1>0, <1>3, StartupAssumption DEF DbOutage
  <2>3. \A i \in Instance : boot'[i] = boot[i] \/ boot'[i] = Stopped(boot[i])
    BY <1>3 DEF DbOutage
  <2>4. \A i \in Instance : Stopped(boot[i]) \in Boot
                            /\ Stopped(boot[i]).pc = "down" /\ Stopped(boot[i]).key = Null
    BY <1>0, StoppedFacts
  <2>5. boot' \in [Instance -> Boot]
    <3>1. boot' = [i \in Instance |-> boot'[i]]
      BY <1>3 DEF DbOutage
    <3> QED BY <1>0, <2>3, <2>4, <3>1
  <2>6. \A i \in Instance : boot'[i] = boot[i] \/ BootOK(boot[i])'
    <3> SUFFICES ASSUME NEW i \in Instance, boot'[i] # boot[i] PROVE BootOK(boot[i])'
      OBVIOUS
    <3>1. boot'[i].pc = "down" /\ boot'[i].key = Null
      BY <2>3, <2>4
    <3> QED BY <3>1 DEF BootOK, Keyed, Seeding
  <2>7. TypeOK'
    BY <2>1, <2>2, <2>5 DEF Inductive, TypeOK
  <2>8. RowsOK' /\ ImportOK'
    BY <2>1, RowsFrame
  <2>9. PasswordsAgree' /\ InitOK'
    BY <2>1 DEF Inductive, PasswordsAgree, InitOK
  <2> QED BY <1>0, <2>1, <2>6, <2>7, <2>8, <2>9, Frame
<1> QED BY <1>1, <1>2, <1>3

\* The import writes rows with the deployment's key into an empty database.
LEMMA ImportSteps ==
    ASSUME Inductive, ImportBegin \/ ImportEnd \/ SupplyLegacyEnv \/ CorrectAdminEnv
    PROVE  Inductive'
<1>0. /\ files["db_password"] \in Value \cup Password \cup {Null}
      /\ files["app_key"] \in Value \cup {Null} /\ envKey \in {AppKey, Null}
      /\ RowsOK /\ ImportOK /\ PasswordsAgree
  BY DEF Inductive, TypeOK
<1>1. CASE ImportBegin
  <2>1. /\ Empty /\ schema # "none" /\ ImportKey # Null /\ importing' = TRUE
        /\ UNCHANGED <<files, envKey, init, dbRole, dbUp, boot, lock, schema, providers,
                       seeded, legacyEnv, adminEnv, faults, runs>>
    BY <1>1 DEF ImportBegin, ImportUnchanged
  <2>2. TypeOK'
    BY <2>1 DEF Inductive, TypeOK
  <2>3. RowsOK' /\ ImportOK' /\ PasswordsAgree' /\ InitOK'
    BY <1>0, <2>1 DEF Inductive, RowsOK, ImportOK, ImportKey, Empty, PasswordsAgree, InitOK
  <2> QED BY <1>0, <2>1, <2>2, <2>3, OutsideFrame
<1>2. CASE ImportRollback
  <2>1. /\ importing' = FALSE
        /\ UNCHANGED <<files, envKey, init, dbRole, dbUp, boot, lock, schema, providers,
                       seeded, legacyEnv, adminEnv, faults, runs>>
    BY <1>2 DEF ImportRollback, ImportUnchanged
  <2>2. TypeOK'
    BY <2>1 DEF Inductive, TypeOK
  <2>3. RowsOK' /\ ImportOK' /\ PasswordsAgree' /\ InitOK'
    BY <1>0, <2>1 DEF Inductive, RowsOK, ImportOK, ImportKey, Empty, PasswordsAgree, InitOK
  <2> QED BY <1>0, <2>1, <2>2, <2>3, OutsideFrame
<1>3. ASSUME NEW ps \in SUBSET Provider, NEW rows \in SUBSET SeedRow, ImportCommit(ps, rows)
      PROVE  Inductive'
  <2> DEFINE k == ImportKey
  <2>1. /\ importing /\ importing' = FALSE /\ seeded' = rows
        /\ providers' = [p \in Provider |-> IF p \in ps THEN k ELSE providers[p]]
        /\ UNCHANGED <<files, envKey, init, dbRole, dbUp, boot, lock, schema,
                       legacyEnv, adminEnv, faults, runs>>
    BY <1>3 DEF ImportCommit, ImportUnchanged
  <2>2. k \in Key /\ ImportKey' = k
    BY <1>0, <2>1 DEF ImportOK, ImportKey, Key
  <2>3. \A p \in Provider : providers[p] = Null
    BY <1>0, <2>1 DEF ImportOK, Empty
  <2>4. k \notin {"plain", "environment"}
    BY <2>2, StartupAssumption DEF Key
  <2> HIDE DEF k
  <2>5. \A p \in Provider : providers'[p] \in {Null, k}
    BY <2>1, <2>3
  <2>6. providers' \in [Provider -> Key \cup {Null, "plain", "environment"}]
    BY <2>1, <2>2, <2>3
  <2>7. TypeOK'
    BY <2>1, <2>6 DEF Inductive, TypeOK
  <2>8. RowsOK'
    BY <2>2, <2>4, <2>5, StartupAssumption DEF RowsOK
  <2>9. ImportOK' /\ PasswordsAgree' /\ InitOK'
    BY <1>0, <2>1 DEF Inductive, ImportOK, PasswordsAgree, InitOK
  <2> QED BY <1>0, <2>1, <2>7, <2>8, <2>9, OutsideFrame
<1>4. CASE SupplyLegacyEnv
  <2>1. /\ legacyEnv' = TRUE
        /\ UNCHANGED <<files, envKey, init, dbRole, dbUp, boot, lock, schema, providers,
                       seeded, adminEnv, importing, faults, runs>>
    BY <1>4 DEF SupplyLegacyEnv
  <2>2. TypeOK'
    BY <2>1 DEF Inductive, TypeOK
  <2>3. RowsOK' /\ ImportOK' /\ PasswordsAgree' /\ InitOK'
    BY <1>0, <2>1 DEF Inductive, RowsOK, ImportOK, ImportKey, Empty, PasswordsAgree, InitOK
  <2> QED BY <1>0, <2>1, <2>2, <2>3, OutsideFrame
<1>5. CASE CorrectAdminEnv
  <2>1. /\ adminEnv' = "accepted"
        /\ UNCHANGED <<files, envKey, init, dbRole, dbUp, boot, lock, schema, providers,
                       seeded, legacyEnv, importing, faults, runs>>
    BY <1>5 DEF CorrectAdminEnv
  <2>2. TypeOK'
    BY <2>1 DEF Inductive, TypeOK
  <2>3. RowsOK' /\ ImportOK' /\ PasswordsAgree' /\ InitOK'
    BY <1>0, <2>1 DEF Inductive, RowsOK, ImportOK, ImportKey, Empty, PasswordsAgree, InitOK
  <2> QED BY <1>0, <2>1, <2>2, <2>3, OutsideFrame
<1> QED BY <1>1, <1>2, <1>3, <1>4, <1>5 DEF ImportEnd

-----------------------------------------------------------------------------
(* The theorems *)

\* A fresh installation and an upgrade start within the invariant.
LEMMA InitInductive == Init => Inductive
<1> SUFFICES ASSUME Init PROVE Inductive
  OBVIOUS
<1> DEFINE b == [pc |-> "down", left |-> 0, draft |-> Null, key |-> Null, created |-> FALSE]
<1>1. b \in Boot /\ b.pc = "down" /\ b.key = Null
  <2>1. 0 \in 0..Timeout
    BY StartupAssumption
  <2> QED BY <2>1 DEF Boot, Pc
<1>2. boot = [i \in Instance |-> b]
  BY DEF Init
<1> HIDE DEF b
<1>3. boot \in [Instance -> Boot] /\ \A i \in Instance : boot[i] = b
  BY <1>1, <1>2
<1>4. \A i \in Instance : BootOK(boot[i])
  BY <1>1, <1>3 DEF BootOK, Keyed, Seeding
<1>5. /\ files \in [Name -> Value \cup Password \cup Identity \cup {Null}]
      /\ files["app_key"] \in Value \cup {Null}
      /\ files["db_password"] \in Value \cup {Null} /\ dbRole = files["db_password"]
  <2>1. CASE files = [n \in Name |-> Null] /\ dbRole = Null
    BY <2>1 DEF Name
  <2>2. CASE /\ files \in [Name -> Value \cup Identity \cup {Null}]
             /\ files["db_password"] = CHOOSE v \in Value : TRUE
             /\ files["app_key"] = IF envKey # Null THEN Null
                                   ELSE CHOOSE v \in Value : v # files["db_password"]
             /\ dbRole = files["db_password"]
    <3> DEFINE p == files["db_password"]
    <3>1. IsFiniteSet({p}) /\ Cardinality({p}) = 1
      BY FS_Singleton
    <3>2. Cardinality(Instance) \in Nat
      BY ValuesAssumption, FS_CardinalityType
    <3>3. \E v \in Value : v # p
      <4>1. \E v \in Value : v \notin {p}
        BY <3>1, <3>2, Fresh
      <4> QED BY <4>1
    <3>4. p \in Value
      BY <2>2, <3>3
    <3>5. (CHOOSE v \in Value : v # p) \in Value
      BY <3>3
    <3> QED BY <2>2, <3>4, <3>5
  <2> QED BY <2>1, <2>2 DEF Init
<1>6. /\ providers \in [Provider -> Key \cup {Null, "plain", "environment"}]
      /\ schema \in {"none", "base"} /\ seeded \subseteq SeedRow
      /\ \A p \in Provider : providers[p] \in {Null, "plain", "environment"}
  BY DEF Init, SeedRow
<1>7. TypeOK
  <2>1. faults \in 0..MaxFaults /\ runs \in 0..MaxRuns
    BY StartupAssumption DEF Init
  <2>2. /\ envKey \in {AppKey, Null} /\ dbUp \in BOOLEAN /\ lock \in Instance \cup {Null}
        /\ init \in [pc: InitPc, password: Password \cup {Null}]
        /\ legacyEnv \in BOOLEAN /\ importing \in BOOLEAN
        /\ adminEnv \in {"unset", "accepted", "refused"}
    BY DEF Init, InitPc
  <2> QED BY <1>3, <1>5, <1>6, <2>1, <2>2 DEF TypeOK
<1>8. RowsOK
  BY <1>6 DEF RowsOK
<1>9. ImportOK
  BY DEF Init, ImportOK
<1>10. InitOK
  BY DEF Init, InitOK
<1> QED BY <1>4, <1>5, <1>7, <1>8, <1>9, <1>10 DEF Inductive, PasswordsAgree

\* Every step keeps the invariant.
LEMMA NextInductive == Inductive /\ [Next]_vars => Inductive'
<1> SUFFICES ASSUME Inductive, [Next]_vars PROVE Inductive'
  OBVIOUS
<1>1. ASSUME NEW i \in Instance,
             BootStep(i) \/ Crash(i) \/ \E p \in Provider : AddProvider(i, p)
      PROVE  Inductive'
  BY <1>1, ConnectSteps, KeySteps, LinkKeyStep, MoveSteps, RowSteps DEF BootStep
<1>2. CASE \/ \E id \in Identity, pw \in Password \cup {Null} : InitRun(id, pw)
           \/ InitPassword \/ InitSuperuser \/ InitCrash
  BY <1>2, InitializerSteps
<1>3. CASE DbFirstStart \/ DbRestart \/ DbOutage
  BY <1>3, DatabaseSteps
<1>4. CASE ImportBegin \/ ImportEnd \/ SupplyLegacyEnv \/ CorrectAdminEnv
  BY <1>4, ImportSteps
<1>5. CASE UNCHANGED vars
  <2>1. UNCHANGED <<files, envKey, init, dbRole, dbUp, boot, lock, schema, providers,
                    seeded, legacyEnv, adminEnv, importing, faults, runs>>
    BY <1>5 DEF vars
  <2>2. TypeOK' /\ RowsOK' /\ ImportOK' /\ PasswordsAgree' /\ InitOK'
    BY <2>1 DEF Inductive, TypeOK, RowsOK, ImportOK, ImportKey, Empty, PasswordsAgree, InitOK
  <2>3. files["db_password"] \in Value \cup Password \cup {Null}
    BY DEF Inductive
  <2> QED BY <2>1, <2>2, <2>3, OutsideFrame
<1> QED BY <1>1, <1>2, <1>3, <1>4, <1>5 DEF Next

\* The deployment stays within the inductive invariant.
THEOREM InductiveCorrect == Spec => []Inductive
BY InitInductive, NextInductive, PTL DEF Spec

\* Files, rows and containers keep their types (the whole of docker-entrypoint.sh).
THEOREM TypeCorrect == Spec => []TypeOK
<1>1. Inductive => TypeOK
  BY DEF Inductive
<1> QED BY <1>1, InductiveCorrect, PTL

\* The role's password stays the stored one over every run of the initializer:
\* persist links a file only under a name that is free.
THEOREM PasswordsCorrect == Spec => []PasswordsAgree
<1>1. Inductive => PasswordsAgree
  BY DEF Inductive
<1> QED BY <1>1, InductiveCorrect, PTL

\* Whichever container links its key first, every container that holds a key can
\* decrypt every provider row.
THEOREM ConfigsCorrect == Spec => []ConfigsReadable
<1>1. Inductive => ConfigsReadable
  <2> SUFFICES ASSUME Inductive, NEW i \in Instance, NEW p \in Provider, boot[i].key # Null
               PROVE  Decrypts(i, providers[p])
    BY DEF ConfigsReadable
  <2>1. boot[i].key = ImportKey
    BY DEF Inductive, BootOK
  <2>2. providers[p] \in {Null, "plain", "environment", ImportKey}
    BY DEF Inductive, RowsOK
  <2> QED BY <2>1, <2>2 DEF Decrypts
<1> QED BY <1>1, InductiveCorrect, PTL

\* A container serves only after the migration that encrypts every provider row,
\* and nothing afterwards writes a plain one.
THEOREM ServesCorrect == Spec => []ServesEncrypted
<1>1. Inductive => ServesEncrypted
  <2> SUFFICES ASSUME Inductive, NEW i \in Instance, NEW p \in Provider, At(i, "serving")
               PROVE  providers[p] \notin {"plain", "environment"}
    BY DEF ServesEncrypted
  <2>1. schema = "current"
    BY DEF Inductive, BootOK, At, Seeding
  <2> QED BY <2>1 DEF Inductive, RowsOK
<1> QED BY <1>1, InductiveCorrect, PTL

\* The table locks keep the seeders of starting containers out of an open import.
THEOREM ImportCorrect == Spec => []ImportsIntoEmpty
<1>1. Inductive => ImportsIntoEmpty
  BY DEF Inductive, ImportOK, ImportsIntoEmpty
<1> QED BY <1>1, InductiveCorrect, PTL
=============================================================================
