----------------------- MODULE ReleaseSigningProofs -----------------------
(***************************************************************************)
(* Proofs about ReleaseSigning, for every set of products, versions,       *)
(* artifacts, keys and concurrent requests.                                *)
(***************************************************************************)
EXTENDS ReleaseSigning, FiniteSetTheorems, TLAPS

-----------------------------------------------------------------------------
(* The operators the model is built from *)

\* What save() writes over a typed row is a typed row (Lucid's dirty columns).
LEMMA SaveArtifactType ==
    ASSUME NEW db \in ArtifactRow, NEW old \in ArtifactRow, NEW new \in ArtifactRow
    PROVE  SaveArtifact(db, old, new) \in ArtifactRow
BY DEF SaveArtifact, Dirty, ArtifactRow

\* The same for version.save().
LEMMA SaveVersionType ==
    ASSUME NEW db \in VersionRow, NEW old \in VersionRow, NEW new \in VersionRow
    PROVE  SaveVersion(db, old, new) \in VersionRow
BY DEF SaveVersion, Dirty, VersionRow

\* The manifest of a typed row and a typed version is a manifest.
LEMMA ManifestType ==
    ASSUME NEW row \in ArtifactRow, NEW ver \in VersionRow
    PROVE  buildOtaReleaseManifest(row, ver) \in Manifest
BY DEF buildOtaReleaseManifest, ArtifactRow, VersionRow, Manifest

\* Clearing the three signature columns keeps a row a row.
LEMMA UnsignedType ==
    ASSUME NEW row \in ArtifactRow
    PROVE  Unsigned(row) \in ArtifactRow
BY DEF Unsigned, ArtifactRow

\* A worker without a request is in a typed state.
LEMMA IdleType == Idle \in Request
BY DEF Idle, Request, Steps

\* An idle request holds nothing.
LEMMA IdleOK == RequestOK(Idle)'
BY DEF Idle, RequestOK, RowSteps, VersionSteps, LoadedSteps, ProductSteps

-----------------------------------------------------------------------------
(* Rows are never physically deleted, and a key never changes product *)

Monotone ==
    /\ \A a \in Artifact : artifacts[a] # Null => artifacts'[a] # Null
    /\ \A v \in Version : versions[v] # Null => versions'[v] # Null
    /\ \A k \in Key : keys[k] # Null =>
         keys'[k] # Null /\ keys'[k].software = keys[k].software
    /\ verified \subseteq verified'

\* A request keeps what it holds while the tables only grow.
LEMMA RequestFrame ==
    ASSUME Monotone, NEW r, RequestOK(r)
    PROVE  RequestOK(r)'
BY DEF Monotone, RequestOK, RowSteps, VersionSteps, ProductSteps

\* Where the row a request holds can come from: an earlier step, a table row, or
\* the unsigned row an upload is about to insert.
RowSource(w, r) ==
    \/ r.row = Null
    \/ r.row = req[w].row
    \/ r.row.signature = Null /\ r.row.manifest = Null
    \/ \E a \in Artifact : artifacts[a] # Null /\ r.row = artifacts[a]

\* What a step may do to the signature and the snapshot of a stored artifact:
\* nothing, clear both, clear those the request had loaded (an edit), or write
\* those that differ from what the request had loaded (a signature).
ColumnEffect(w, a) ==
    LET db == artifacts[a]
        new == artifacts'[a]
        r == req[w]
    IN  \/ /\ db # Null
           /\ new.signature = db.signature
           /\ new.manifest = db.manifest
        \/ new.signature = Null /\ new.manifest = Null
        \/ /\ db # Null /\ r.row # Null
           /\ new.signature = Dirty(db.signature, r.row.signature, Null)
           /\ new.manifest = Dirty(db.manifest, r.row.manifest, Null)
        \/ /\ db # Null /\ r.row # Null
           /\ r.pc = "sign.save"
           /\ new.signature = Dirty(db.signature, r.row.signature, r.sig)
           /\ new.manifest = Dirty(db.manifest, r.row.manifest,
                                   buildOtaReleaseManifest(r.row, r.ver))

\* What every step of the model does to the types, the tables and its request.
Effect(w) ==
    /\ TypeOK'
    /\ Monotone
    /\ \A a \in Artifact : artifacts'[a] # Null => ColumnEffect(w, a)
    /\ \E r \in Request : /\ req' = [req EXCEPT ![w] = r]
                          /\ RequestOK(r)'
                          /\ RowSource(w, r)

\* A step that only reads.
LEMMA ReadEffect ==
    ASSUME TypeOK, NEW w \in Worker, NEW r \in Request,
           Become(w, r), RequestOK(r), RowSource(w, r),
           UNCHANGED <<software, versions, artifacts, keys, verified>>
    PROVE  Effect(w)
<1>1. TypeOK'
  BY DEF TypeOK, Become
<1>2. Monotone
  BY DEF Monotone
<1>3. RequestOK(r)'
  BY DEF RequestOK
<1>4. \A a \in Artifact : artifacts'[a] # Null => ColumnEffect(w, a)
  BY DEF ColumnEffect
<1> QED BY <1>1, <1>2, <1>3, <1>4 DEF Effect, Become

\* The last step of a request that writes the tables.
LEMMA WriteEffect ==
    ASSUME TypeOK, NEW w \in Worker, Finish(w),
           software' \in [Software -> SoftwareRow],
           versions' \in [Version -> VersionRow \cup {Null}],
           artifacts' \in [Artifact -> ArtifactRow \cup {Null}],
           keys' \in [Key -> KeyRow \cup {Null}],
           verified' = verified,
           Monotone,
           \A a \in Artifact : artifacts'[a] # Null => ColumnEffect(w, a)
    PROVE  Effect(w)
<1>1. TypeOK'
  BY IdleType DEF TypeOK, Finish, Become
<1>2. RowSource(w, Idle)
  BY DEF RowSource, Idle
<1> QED BY <1>1, <1>2, IdleType, IdleOK DEF Effect, Finish, Become

\* A save of the artifact row the request loaded.
LEMMA ArtifactSaveEffect ==
    ASSUME TypeOK, NEW w \in Worker, RequestOK(req[w]), req[w].pc \in RowSteps,
           NEW new \in ArtifactRow,
           artifacts' = [artifacts EXCEPT ![req[w].art] =
                            SaveArtifact(artifacts[req[w].art], req[w].row, new)],
           Finish(w), UNCHANGED <<software, versions, keys, verified>>,
           \/ new.signature = req[w].row.signature /\ new.manifest = req[w].row.manifest
           \/ new.signature = Null /\ new.manifest = Null
           \/ /\ req[w].pc = "sign.save"
              /\ new.signature = req[w].sig
              /\ new.manifest = buildOtaReleaseManifest(req[w].row, req[w].ver)
    PROVE  Effect(w)
<1> DEFINE r == req[w]
           saved == SaveArtifact(artifacts[r.art], r.row, new)
<1>1. r.art \in Artifact /\ r.row \in ArtifactRow /\ artifacts[r.art] \in ArtifactRow
  BY DEF RequestOK, TypeOK
<1>2. saved \in ArtifactRow
  BY <1>1, SaveArtifactType
<1>3. artifacts' \in [Artifact -> ArtifactRow \cup {Null}]
  BY <1>2 DEF TypeOK
<1>4. saved # Null /\ r.row # Null /\ artifacts[r.art] # Null
  BY <1>1, <1>2, NullAssumption
<1>5. Monotone
  BY <1>1, <1>4 DEF Monotone, TypeOK
<1>6. /\ saved.signature = Dirty(artifacts[r.art].signature, r.row.signature, new.signature)
      /\ saved.manifest = Dirty(artifacts[r.art].manifest, r.row.manifest, new.manifest)
  BY DEF SaveArtifact
<1>7. ASSUME NEW a \in Artifact, artifacts'[a] # Null
      PROVE  ColumnEffect(w, a)
  <2>1. CASE a # r.art
    BY <1>7, <2>1 DEF ColumnEffect, TypeOK
  <2>2. CASE a = r.art
    <3>1. artifacts'[a] = saved
      BY <1>1, <2>2 DEF TypeOK
    <3> QED BY <1>4, <1>6, <2>2, <3>1 DEF ColumnEffect, Dirty
  <2> QED BY <2>1, <2>2
<1> QED BY <1>3, <1>5, <1>7, WriteEffect DEF TypeOK

\* A save of the version row the request loaded.
LEMMA VersionSaveEffect ==
    ASSUME TypeOK, NEW w \in Worker, RequestOK(req[w]), req[w].pc \in VersionSteps,
           NEW new \in VersionRow,
           versions' = [versions EXCEPT ![req[w].vid] =
                            SaveVersion(versions[req[w].vid], req[w].ver, new)],
           UNCHANGED <<software, artifacts, keys, verified>>
    PROVE  /\ versions' \in [Version -> VersionRow \cup {Null}]
           /\ Monotone
           /\ \A a \in Artifact : artifacts'[a] # Null => ColumnEffect(w, a)
<1> DEFINE r == req[w]
           saved == SaveVersion(versions[r.vid], r.ver, new)
<1>1. r.vid \in Version /\ r.ver \in VersionRow /\ versions[r.vid] \in VersionRow
  BY DEF RequestOK, TypeOK
<1>2. saved \in VersionRow
  BY <1>1, SaveVersionType
<1>3. saved # Null
  BY <1>2, NullAssumption
<1>4. Monotone
  BY <1>1, <1>3 DEF Monotone, TypeOK
<1>5. \A a \in Artifact : artifacts'[a] # Null => ColumnEffect(w, a)
  BY DEF ColumnEffect
<1> QED BY <1>2, <1>4, <1>5 DEF TypeOK

-----------------------------------------------------------------------------
(* Every action has that effect *)

\* The reads of artifact and version rows.
LEMMA LoadArtifactEffect ==
    ASSUME TypeOK, NEW w \in Worker, NEW op, NEW step \in RowSteps \ LoadedSteps,
           LoadArtifact(w, op, step)
    PROVE  Effect(w)
<1>1. PICK a \in Artifact : /\ Live(artifacts, a)
                            /\ Become(w, [Idle EXCEPT !.pc = step, !.art = a, !.row = artifacts[a]])
  BY DEF LoadArtifact
<1> PICK r : r = [Idle EXCEPT !.pc = step, !.art = a, !.row = artifacts[a]]
  OBVIOUS
<1>2. UNCHANGED <<software, versions, artifacts, keys, verified>>
  BY DEF LoadArtifact
<1>3. artifacts[a] # Null /\ artifacts[a] \in ArtifactRow
  BY <1>1 DEF Live, TypeOK
<1>4. r \in Request
  BY <1>3 DEF Idle, Request, Steps, RowSteps, LoadedSteps
<1>5. RequestOK(r)
  BY <1>3 DEF Idle, RequestOK, RowSteps, VersionSteps, LoadedSteps, ProductSteps
<1>6. RowSource(w, r)
  BY <1>3 DEF RowSource, Idle
<1> QED BY <1>1, <1>2, <1>4, <1>5, <1>6, ReadEffect

\* The preload of the loaded artifact's version and product.
LEMMA LoadVersionEffect ==
    ASSUME TypeOK, NEW w \in Worker, RequestOK(req[w]),
           NEW step \in RowSteps \ LoadedSteps,
           NEW next \in LoadedSteps \ {"edit.save", "publish.save", "sign.save"},
           LoadVersion(w, step, next)
    PROVE  Effect(w)
<1> DEFINE ver == versions[req[w].row.version]
           soft == IF next \in {"publish.check", "rebuild.save"}
                   THEN software[ver.software] ELSE Null
<1> PICK r : r = [req[w] EXCEPT !.pc = next, !.ver = ver, !.soft = soft]
  OBVIOUS
<1>1. Become(w, r) /\ UNCHANGED <<software, versions, artifacts, keys, verified>>
  BY DEF LoadVersion
<1>2. req[w] \in Request /\ req[w].pc \in RowSteps
  BY DEF TypeOK, LoadVersion, At
<1>3. req[w].row \in ArtifactRow /\ req[w].art \in Artifact /\ artifacts[req[w].art] # Null
  BY <1>2 DEF RequestOK
<1>4. ver \in VersionRow
  BY <1>3 DEF LoadVersion, Live, TypeOK, ArtifactRow
<1>5. soft \in SoftwareRow \cup {Null} /\ (next \in {"publish.check", "rebuild.save"} => soft \in SoftwareRow)
  BY <1>4 DEF VersionRow, TypeOK
<1> HIDE DEF ver, soft
<1>6. r \in Request
  BY <1>2, <1>4, <1>5 DEF Request, Steps, LoadedSteps
<1>7. /\ r.pc = next /\ r.art = req[w].art /\ r.row = req[w].row
      /\ r.ver = ver /\ r.soft = soft
  BY <1>2 DEF Request
<1>8. RequestOK(r)
  BY <1>3, <1>4, <1>5, <1>7 DEF RequestOK, RowSteps, VersionSteps, LoadedSteps, ProductSteps
<1>9. RowSource(w, r)
  BY <1>7 DEF RowSource
<1> QED BY <1>1, <1>6, <1>8, <1>9, ReadEffect

\* The read of a version row by the handlers of version_service.ts.
LEMMA LoadVersionRowEffect ==
    ASSUME TypeOK, NEW w \in Worker, NEW op,
           NEW step \in VersionSteps \ {"version.clear", "remove.save"},
           LoadVersionRow(w, op, step)
    PROVE  Effect(w)
<1>1. PICK v \in Version : /\ Live(versions, v)
                           /\ Become(w, [Idle EXCEPT !.pc = step, !.vid = v, !.ver = versions[v]])
  BY DEF LoadVersionRow
<1> PICK r : r = [Idle EXCEPT !.pc = step, !.vid = v, !.ver = versions[v]]
  OBVIOUS
<1>2. UNCHANGED <<software, versions, artifacts, keys, verified>>
  BY DEF LoadVersionRow
<1>3. versions[v] # Null /\ versions[v] \in VersionRow
  BY <1>1 DEF Live, TypeOK
<1>4. r \in Request
  BY <1>3 DEF Idle, Request, Steps, VersionSteps
<1>5. RequestOK(r)
  BY <1>3 DEF Idle, RequestOK, RowSteps, VersionSteps, LoadedSteps, ProductSteps
<1>6. RowSource(w, r)
  BY DEF RowSource, Idle
<1> QED BY <1>1, <1>2, <1>4, <1>5, <1>6, ReadEffect

\* A step that only checks and moves on, holding what it held.
LEMMA GotoEffect ==
    ASSUME TypeOK, NEW w \in Worker, RequestOK(req[w]),
           NEW step \in Steps, Goto(w, step),
           RequestOK([req[w] EXCEPT !.pc = step]),
           UNCHANGED <<software, versions, artifacts, keys, verified>>
    PROVE  Effect(w)
<1> PICK r : r = [req[w] EXCEPT !.pc = step]
  OBVIOUS
<1>1. r \in Request /\ r.row = req[w].row
  BY DEF TypeOK, Request
<1>2. Become(w, r) /\ RequestOK(r)
  BY DEF Goto
<1>3. RowSource(w, r)
  BY <1>1 DEF RowSource
<1> QED BY <1>1, <1>2, <1>3, ReadEffect

\* A request that ends without writing.
LEMMA EndEffect ==
    ASSUME TypeOK, NEW w \in Worker, Finish(w),
           UNCHANGED <<software, versions, artifacts, keys, verified>>
    PROVE  Effect(w)
<1>1. Monotone /\ \A a \in Artifact : artifacts'[a] # Null => ColumnEffect(w, a)
  BY DEF Monotone, ColumnEffect
<1> QED BY <1>1, WriteEffect DEF TypeOK

\* The handlers of artifact_service.ts.
LEMMA ArtifactStepEffect ==
    ASSUME TypeOK, NEW w \in Worker, RequestOK(req[w]), ArtifactStep(w)
    PROVE  Effect(w)
<1>1. CASE UploadLoad(w)
  <2>1. PICK v \in Version, published \in Checkbox, a \in Artifact, c \in Channel :
          /\ Live(versions, v)
          /\ Become(w, [Idle EXCEPT !.pc = "upload.insert", !.art = a, !.row =
                [version |-> v, channel |-> c,
                 fileName |-> buildFileName(software[versions[v].software].name,
                                            versions[v].number),
                 published |-> published, archived |-> FALSE, deleted |-> FALSE,
                 signature |-> Null, keyId |-> Null, manifest |-> Null]])
    BY <1>1 DEF UploadLoad
  <2> DEFINE row == [version |-> v, channel |-> c,
                     fileName |-> buildFileName(software[versions[v].software].name,
                                                versions[v].number),
                     published |-> published, archived |-> FALSE, deleted |-> FALSE,
                     signature |-> Null, keyId |-> Null, manifest |-> Null]
  <2> PICK r : r = [Idle EXCEPT !.pc = "upload.insert", !.art = a, !.row = row]
    OBVIOUS
  <2>2. versions[v] \in VersionRow
    BY <2>1 DEF Live, TypeOK
  <2>3. buildFileName(software[versions[v].software].name, versions[v].number) \in FileName
    BY <2>2 DEF buildFileName, FileName, VersionRow, SoftwareRow, TypeOK
  <2>4. row \in ArtifactRow
    BY <2>3, OpsAssumption DEF ArtifactRow
  <2>5. row.signature = Null /\ row.keyId = Null /\ row.manifest = Null
    OBVIOUS
  <2>6. Become(w, r) /\ UNCHANGED <<software, versions, artifacts, keys, verified>>
    BY <1>1, <2>1 DEF UploadLoad
  <2> HIDE DEF row
  <2>7. r \in Request
    BY <2>4 DEF Idle, Request, Steps
  <2>8. RequestOK(r) /\ RowSource(w, r)
    BY <2>4, <2>5 DEF Idle, RequestOK, RowSource, RowSteps, VersionSteps, LoadedSteps, ProductSteps
  <2> QED BY <2>6, <2>7, <2>8, ReadEffect
<1>2. CASE UploadInsert(w)
  <2> DEFINE r == req[w]
  <2>1. /\ r.art \in Artifact /\ r.row \in ArtifactRow
        /\ artifacts[r.art] = Null /\ artifacts' = [artifacts EXCEPT ![r.art] = r.row]
        /\ Finish(w) /\ UNCHANGED <<software, versions, keys, verified>>
    BY <1>2 DEF UploadInsert, At, RequestOK
  <2>2. r.row.signature = Null /\ r.row.manifest = Null
    BY <1>2 DEF UploadInsert, At, RequestOK
  <2>3. Monotone
    BY <2>1, NullAssumption DEF Monotone, TypeOK
  <2>4. ASSUME NEW a \in Artifact, artifacts'[a] # Null
        PROVE  ColumnEffect(w, a)
    <3>1. CASE a = r.art
      BY <2>1, <2>2, <3>1 DEF ColumnEffect, TypeOK
    <3>2. CASE a # r.art
      BY <2>1, <2>4, <3>2 DEF ColumnEffect, TypeOK
    <3> QED BY <3>1, <3>2
  <2>5. artifacts' \in [Artifact -> ArtifactRow \cup {Null}]
    BY <2>1 DEF TypeOK
  <2> QED BY <2>1, <2>3, <2>4, <2>5, WriteEffect DEF TypeOK
<1>3. CASE EditLoad(w)
  BY <1>3, LoadArtifactEffect DEF EditLoad, RowSteps, LoadedSteps
<1>4. CASE EditVersion(w)
  <2>1. PICK v \in Version :
          /\ Live(versions, v)
          /\ Become(w, [req[w] EXCEPT !.pc = "edit.save", !.vid = v, !.ver = versions[v],
                                      !.soft = software[versions[v].software]])
    BY <1>4 DEF EditVersion
  <2> DEFINE ver == versions[v]
             soft == software[ver.software]
  <2> PICK r : r = [req[w] EXCEPT !.pc = "edit.save", !.vid = v, !.ver = ver, !.soft = soft]
    OBVIOUS
  <2>2. Become(w, r) /\ UNCHANGED <<software, versions, artifacts, keys, verified>>
    BY <1>4, <2>1 DEF EditVersion
  <2>3. ver \in VersionRow /\ soft \in SoftwareRow
    BY <2>1 DEF Live, TypeOK, VersionRow
  <2>4. /\ req[w] \in Request
        /\ req[w].art \in Artifact /\ req[w].row \in ArtifactRow /\ artifacts[req[w].art] # Null
    BY <1>4 DEF EditVersion, At, RequestOK, RowSteps, TypeOK
  <2> HIDE DEF ver, soft
  <2>5. r \in Request
    BY <2>3, <2>4 DEF Request, Steps
  <2>6. /\ r.pc = "edit.save" /\ r.art = req[w].art /\ r.row = req[w].row
        /\ r.vid = v /\ r.ver = ver /\ r.soft = soft
    BY <2>4 DEF Request
  <2>7. RequestOK(r) /\ RowSource(w, r)
    BY <2>3, <2>4, <2>6
    DEF RequestOK, RowSource, RowSteps, VersionSteps, LoadedSteps, ProductSteps
  <2> QED BY <2>2, <2>5, <2>7, ReadEffect
<1>5. CASE EditSave(w)
  <2> DEFINE r == req[w]
             new(c, archived) ==
               [Unsigned(r.row) EXCEPT
                  !.version = r.vid, !.channel = c, !.archived = archived,
                  !.fileName = buildFileName(r.soft.name, r.ver.number)]
  <2>1. PICK c \in Channel, archived \in Checkbox :
          artifacts' = [artifacts EXCEPT ![r.art] =
                          SaveArtifact(artifacts[r.art], r.row, new(c, archived))]
    BY <1>5 DEF EditSave
  <2>2. /\ r.pc = "edit.save" /\ r.row \in ArtifactRow /\ r.vid \in Version
        /\ r.ver \in VersionRow /\ r.soft \in SoftwareRow
    BY <1>5 DEF EditSave, At, RequestOK, RowSteps, LoadedSteps
  <2>3. buildFileName(r.soft.name, r.ver.number) \in FileName
    BY <2>2 DEF buildFileName, FileName, VersionRow, SoftwareRow
  <2>4. new(c, archived) \in ArtifactRow
    BY <2>2, <2>3, OpsAssumption DEF Unsigned, ArtifactRow
  <2>5. new(c, archived).signature = Null /\ new(c, archived).manifest = Null
    BY <2>2 DEF Unsigned, ArtifactRow
  <2>6. Finish(w) /\ UNCHANGED <<software, versions, keys, verified>>
    BY <1>5 DEF EditSave
  <2> HIDE DEF new
  <2> QED BY <2>1, <2>2, <2>4, <2>5, <2>6, ArtifactSaveEffect DEF RowSteps
<1>6. CASE DeleteLoad(w)
  BY <1>6, LoadArtifactEffect DEF DeleteLoad, RowSteps, LoadedSteps
<1>7. CASE DeleteSave(w)
  <2>1. req[w].pc = "delete.save" /\ req[w].row \in ArtifactRow
    BY <1>7 DEF DeleteSave, At, RequestOK, RowSteps
  <2>2. PICK new : new = [req[w].row EXCEPT !.deleted = TRUE]
    OBVIOUS
  <2>3. /\ new \in ArtifactRow
        /\ new.signature = req[w].row.signature /\ new.manifest = req[w].row.manifest
    BY <2>1, <2>2 DEF ArtifactRow
  <2>4. artifacts' = [artifacts EXCEPT ![req[w].art] =
                        SaveArtifact(artifacts[req[w].art], req[w].row, new)]
    BY <1>7, <2>2 DEF DeleteSave
  <2> QED BY <1>7, <2>1, <2>3, <2>4, ArtifactSaveEffect DEF DeleteSave, RowSteps
<1>8. CASE PublishLoad(w)
  BY <1>8, LoadArtifactEffect DEF PublishLoad, RowSteps, LoadedSteps
<1>9. CASE PublishVersion(w)
  BY <1>9, LoadVersionEffect DEF PublishVersion, RowSteps, LoadedSteps
<1>10. CASE PublishCheck(w)
  <2>1. req[w].pc = "publish.check" /\ Goto(w, "publish.save")
    BY <1>10 DEF PublishCheck, At
  <2>2. req[w] \in Request
    BY DEF TypeOK
  <2>3. RequestOK([req[w] EXCEPT !.pc = "publish.save"])
    BY <2>1, <2>2 DEF RequestOK, Request, RowSteps, VersionSteps, LoadedSteps, ProductSteps
  <2> QED BY <1>10, <2>1, <2>3, GotoEffect DEF PublishCheck, Steps
<1>11. CASE PublishSave(w)
  <2>1. req[w].pc = "publish.save" /\ req[w].row \in ArtifactRow
    BY <1>11 DEF PublishSave, At, RequestOK, RowSteps
  <2>2. PICK new : new = [req[w].row EXCEPT !.published = TRUE]
    OBVIOUS
  <2>3. /\ new \in ArtifactRow
        /\ new.signature = req[w].row.signature /\ new.manifest = req[w].row.manifest
    BY <2>1, <2>2 DEF ArtifactRow
  <2>4. artifacts' = [artifacts EXCEPT ![req[w].art] =
                        SaveArtifact(artifacts[req[w].art], req[w].row, new)]
    BY <1>11, <2>2 DEF PublishSave
  <2> QED BY <1>11, <2>1, <2>3, <2>4, ArtifactSaveEffect DEF PublishSave, RowSteps
<1>12. CASE SignLoad(w)
  BY <1>12, LoadArtifactEffect DEF SignLoad, RowSteps, LoadedSteps
<1>13. CASE SignVersion(w)
  BY <1>13, LoadVersionEffect DEF SignVersion, RowSteps, LoadedSteps
<1>14. CASE SignCheck(w)
  <2> DEFINE manifest == buildOtaReleaseManifest(req[w].row, req[w].ver)
  <2>1. PICK k \in Key, signature \in Signature :
          /\ ActiveKey(req[w].ver.software, k)
          /\ verifyOtaReleaseSignature(manifest, signature, k)
          /\ Become(w, [req[w] EXCEPT !.pc = "sign.save", !.key = k, !.sig = signature])
          /\ verified' = verified \cup {<<k, manifest>>}
    BY <1>14 DEF SignCheck
  <2>2. /\ req[w] \in Request
        /\ req[w].art \in Artifact /\ req[w].row \in ArtifactRow /\ artifacts[req[w].art] # Null
        /\ req[w].ver \in VersionRow
        /\ UNCHANGED <<software, versions, artifacts, keys>>
    BY <1>14 DEF SignCheck, At, RequestOK, RowSteps, LoadedSteps, TypeOK
  <2>3. manifest \in Manifest
    BY <2>2, ManifestType
  <2> PICK r : r = [req[w] EXCEPT !.pc = "sign.save", !.key = k, !.sig = signature]
    OBVIOUS
  <2>4. r \in Request
    BY <2>2 DEF Request, Steps
  <2>5. /\ r.pc = "sign.save" /\ r.art = req[w].art /\ r.row = req[w].row
        /\ r.ver = req[w].ver /\ r.key = k /\ r.sig = signature
    BY <2>2 DEF Request
  <2>6. TypeOK'
    BY <2>1, <2>2, <2>3, <2>4 DEF TypeOK, Become
  <2>7. Monotone
    BY <2>1, <2>2 DEF Monotone
  <2>8. \A a \in Artifact : artifacts'[a] # Null => ColumnEffect(w, a)
    BY <2>2 DEF ColumnEffect
  <2>9. signature = [key |-> k, manifest |-> manifest]
    BY <2>1 DEF verifyOtaReleaseSignature
  <2>10. keys[k] # Null /\ keys[k].software = req[w].ver.software
    BY <2>1 DEF ActiveKey
  <2>11. buildOtaReleaseManifest(r.row, r.ver) = manifest /\ r.ver = req[w].ver
    BY <2>5
  <2>12. <<k, manifest>> \in verified'
    BY <2>1
  <2> HIDE DEF manifest
  <2>13. RequestOK(r)'
    BY <2>2, <2>5, <2>9, <2>10, <2>11, <2>12
    DEF RequestOK, RowSteps, VersionSteps, LoadedSteps, ProductSteps
  <2>14. RowSource(w, r)
    BY <2>5 DEF RowSource
  <2> QED BY <2>1, <2>4, <2>6, <2>7, <2>8, <2>13, <2>14 DEF Effect, Become
<1>15. CASE SignSave(w)
  <2> DEFINE r == req[w]
             manifest == buildOtaReleaseManifest(r.row, r.ver)
  <2>1. /\ r.pc = "sign.save" /\ r.row \in ArtifactRow /\ r.ver \in VersionRow
        /\ r.key \in Key /\ r.sig = [key |-> r.key, manifest |-> manifest]
    BY <1>15 DEF SignSave, At, RequestOK, RowSteps, LoadedSteps
  <2>2. manifest \in Manifest
    BY <2>1, ManifestType
  <2>3. PICK new : new = [r.row EXCEPT !.signature = r.sig, !.keyId = r.key,
                                       !.manifest = manifest]
    OBVIOUS
  <2>4. /\ artifacts' = [artifacts EXCEPT ![r.art] = SaveArtifact(artifacts[r.art], r.row, new)]
        /\ Finish(w) /\ UNCHANGED <<software, versions, keys, verified>>
    BY <1>15, <2>3 DEF SignSave
  <2> HIDE DEF manifest
  <2>5. r.sig \in Signature
    BY <2>1, <2>2 DEF Signature
  <2>6. /\ new.version = r.row.version /\ new.channel = r.row.channel
        /\ new.fileName = r.row.fileName /\ new.signature = r.sig
        /\ new.keyId = r.key /\ new.manifest = manifest
    BY <2>1, <2>3 DEF ArtifactRow
  <2>7. new \in ArtifactRow
    BY <2>1, <2>2, <2>3, <2>5 DEF ArtifactRow
  <2> QED BY <2>1, <2>4, <2>6, <2>7, ArtifactSaveEffect DEF RowSteps, manifest
<1>16. CASE RebuildLoad(w)
  BY <1>16, LoadArtifactEffect DEF RebuildLoad, RowSteps, LoadedSteps
<1>17. CASE RebuildVersion(w)
  BY <1>17, LoadVersionEffect DEF RebuildVersion, RowSteps, LoadedSteps
<1>18. CASE RebuildSave(w)
  <2> DEFINE r == req[w]
  <2>1. /\ r.pc = "rebuild.save" /\ r.row \in ArtifactRow
        /\ r.ver \in VersionRow /\ r.soft \in SoftwareRow
    BY <1>18 DEF RebuildSave, At, RequestOK, RowSteps, LoadedSteps
  <2>2. PICK new : new = [Unsigned(r.row) EXCEPT
                            !.fileName = buildFileName(r.soft.name, r.ver.number)]
    OBVIOUS
  <2>3. /\ artifacts' = [artifacts EXCEPT ![r.art] = SaveArtifact(artifacts[r.art], r.row, new)]
        /\ Finish(w) /\ UNCHANGED <<software, versions, keys, verified>>
    BY <1>18, <2>2 DEF RebuildSave
  <2>4. buildFileName(r.soft.name, r.ver.number) \in FileName
    BY <2>1 DEF buildFileName, FileName, VersionRow, SoftwareRow
  <2>5. new \in ArtifactRow /\ new.signature = Null /\ new.manifest = Null
    BY <2>1, <2>2, <2>4 DEF Unsigned, ArtifactRow
  <2> QED BY <2>1, <2>3, <2>5, ArtifactSaveEffect DEF RowSteps
<1> QED
  BY <1>1, <1>2, <1>3, <1>4, <1>5, <1>6, <1>7, <1>8, <1>9, <1>10, <1>11, <1>12,
     <1>13, <1>14, <1>15, <1>16, <1>17, <1>18 DEF ArtifactStep

\* An operation that is one statement or one transaction: the request is done
\* as soon as it has started.
LEMMA AtomicEffect ==
    ASSUME TypeOK, NEW w \in Worker, RequestOK(req[w]),
           software' \in [Software -> SoftwareRow],
           versions' \in [Version -> VersionRow \cup {Null}],
           keys' \in [Key -> KeyRow \cup {Null}],
           UNCHANGED <<artifacts, req, verified>>, Monotone
    PROVE  Effect(w)
<1> PICK r : r = req[w]
  OBVIOUS
<1>1. TypeOK'
  BY DEF TypeOK
<1>2. r \in Request /\ req' = [req EXCEPT ![w] = r]
  BY DEF TypeOK
<1>3. RequestOK(r)'
  BY RequestFrame
<1>4. \A a \in Artifact : artifacts'[a] # Null => ColumnEffect(w, a)
  BY DEF ColumnEffect
<1>5. RowSource(w, r)
  BY DEF RowSource
<1> QED BY <1>1, <1>2, <1>3, <1>4, <1>5 DEF Effect

\* A bulk update that clears the signature columns of some artifacts.
LEMMA BulkClearEffect ==
    ASSUME TypeOK, NEW w \in Worker, Finish(w),
           NEW cleared \in SUBSET {a \in Artifact : artifacts[a] # Null},
           artifacts' = [a \in Artifact |->
               IF a \in cleared THEN Unsigned(artifacts[a]) ELSE artifacts[a]],
           UNCHANGED <<software, versions, keys, verified>>
    PROVE  Effect(w)
<1>1. \A a \in cleared : /\ a \in Artifact
                         /\ artifacts[a] # Null
                         /\ artifacts[a] \in ArtifactRow
  BY DEF TypeOK
<1>2. \A a \in cleared : Unsigned(artifacts[a]) \in ArtifactRow
  BY <1>1, UnsignedType
<1>3. artifacts' \in [Artifact -> ArtifactRow \cup {Null}]
  BY <1>2 DEF TypeOK
<1>4. \A a \in cleared : /\ Unsigned(artifacts[a]).signature = Null
                         /\ Unsigned(artifacts[a]).manifest = Null
  BY <1>1 DEF Unsigned, ArtifactRow
<1>5. Monotone
  BY <1>1, <1>2, NullAssumption DEF Monotone
<1>6. \A a \in Artifact : artifacts'[a] # Null => ColumnEffect(w, a)
  BY <1>4 DEF ColumnEffect
<1> QED BY <1>3, <1>5, <1>6, WriteEffect DEF TypeOK

\* The handlers of version_service.ts.
LEMMA VersionStepEffect ==
    ASSUME TypeOK, NEW w \in Worker, RequestOK(req[w]), VersionStep(w)
    PROVE  Effect(w)
<1> DEFINE r == req[w]
<1>0. CASE CreateVersionLoad(w)
  <2>1. PICK s \in Software : Become(w, [Idle EXCEPT !.pc = "create.insert", !.sid = s])
    BY <1>0 DEF CreateVersionLoad
  <2> PICK q : q = [Idle EXCEPT !.pc = "create.insert", !.sid = s]
    OBVIOUS
  <2>2. /\ q \in Request /\ q.pc = "create.insert" /\ q.sid \in Software /\ q.row = Null
    BY DEF Idle, Request, Steps
  <2>3. RequestOK(q) /\ RowSource(w, q)
    BY <2>2 DEF RequestOK, RowSource, RowSteps, VersionSteps, LoadedSteps, ProductSteps
  <2>4. UNCHANGED <<software, versions, artifacts, keys, verified>>
    BY <1>0 DEF CreateVersionLoad
  <2> QED BY <2>1, <2>2, <2>3, <2>4, ReadEffect
<1>1. CASE CreateVersionInsert(w)
  <2>0. r.sid \in Software
    BY <1>1 DEF CreateVersionInsert, At, RequestOK
  <2>1. PICK v \in Version, n \in Number, c \in Changelog, active \in Checkbox :
          /\ versions[v] = Null
          /\ versions' = [versions EXCEPT ![v] =
               [software |-> r.sid, number |-> n, changelog |-> c,
                active |-> active, deleted |-> FALSE]]
    BY <1>1, Zenon DEF CreateVersionInsert
  <2>2. Finish(w) /\ UNCHANGED <<software, artifacts, keys, verified>>
    BY <1>1 DEF CreateVersionInsert
  <2>3. versions' \in [Version -> VersionRow \cup {Null}]
    BY <2>0, <2>1, OpsAssumption DEF TypeOK, VersionRow
  <2>4. Monotone
    BY <2>1, <2>2 DEF Monotone, TypeOK
  <2>5. \A a \in Artifact : artifacts'[a] # Null => ColumnEffect(w, a)
    BY <2>2 DEF ColumnEffect
  <2> QED BY <2>2, <2>3, <2>4, <2>5, WriteEffect DEF TypeOK
<1>2. CASE UpdateVersionLoad(w)
  BY <1>2, LoadVersionRowEffect DEF UpdateVersionLoad, VersionSteps
<1>3. CASE UpdateVersionSave(w)
  <2>1. PICK n \in Number, c \in Changelog, active \in Checkbox :
          LET saved == SaveVersion(versions[r.vid], r.ver,
                         [r.ver EXCEPT !.number = n, !.changelog = c, !.active = active])
          IN  /\ versions' = [versions EXCEPT ![r.vid] = saved]
              /\ IF <<n, c>> # <<r.ver.number, r.ver.changelog>>
                 THEN Goto(w, "version.clear") ELSE Finish(w)
    BY <1>3 DEF UpdateVersionSave
  <2>2. /\ r.pc = "version.save" /\ r.ver \in VersionRow /\ r.vid \in Version
        /\ versions[r.vid] # Null
        /\ UNCHANGED <<software, artifacts, keys, verified>>
    BY <1>3 DEF UpdateVersionSave, At, RequestOK, VersionSteps
  <2>3. PICK new : new = [r.ver EXCEPT !.number = n, !.changelog = c, !.active = active]
    OBVIOUS
  <2>4. new \in VersionRow
    BY <2>2, <2>3, OpsAssumption DEF VersionRow
  <2>5. /\ versions' \in [Version -> VersionRow \cup {Null}]
        /\ Monotone
        /\ \A a \in Artifact : artifacts'[a] # Null => ColumnEffect(w, a)
    BY <2>1, <2>2, <2>3, <2>4, VersionSaveEffect DEF VersionSteps
  <2>6. CASE Finish(w)
    BY <2>2, <2>5, <2>6, WriteEffect DEF TypeOK
  <2>7. CASE Goto(w, "version.clear")
    <3> PICK q : q = [r EXCEPT !.pc = "version.clear"]
      OBVIOUS
    <3>1. r \in Request
      BY DEF TypeOK
    <3>2. /\ q \in Request /\ q.pc = "version.clear"
          /\ q.row = r.row /\ q.vid = r.vid /\ q.ver = r.ver
      BY <3>1 DEF Request, Steps
    <3>3. versions'[q.vid] # Null
      BY <2>2, <2>5, <3>2 DEF Monotone
    <3>4. RequestOK(q)'
      BY <2>2, <3>2, <3>3
      DEF RequestOK, RowSteps, VersionSteps, LoadedSteps, ProductSteps
    <3>5. req' = [req EXCEPT ![w] = q]
      BY <2>7 DEF Goto, Become
    <3>6. TypeOK'
      BY <2>2, <2>5, <3>2, <3>5 DEF TypeOK
    <3>7. RowSource(w, q)
      BY <3>2 DEF RowSource
    <3> QED BY <2>5, <3>2, <3>4, <3>5, <3>6, <3>7 DEF Effect
  <2> QED BY <2>1, <2>6, <2>7
<1>4. CASE UpdateVersionClear(w)
  <2> DEFINE cleared == {a \in Artifact : artifacts[a] # Null /\ artifacts[a].version = r.vid}
  <2>1. artifacts' = [a \in Artifact |->
            IF a \in cleared THEN Unsigned(artifacts[a]) ELSE artifacts[a]]
    BY <1>4 DEF UpdateVersionClear
  <2>2. cleared \in SUBSET {a \in Artifact : artifacts[a] # Null}
    OBVIOUS
  <2> HIDE DEF cleared
  <2> QED BY <1>4, <2>1, <2>2, BulkClearEffect DEF UpdateVersionClear
<1>5. CASE ToggleVersionLoad(w)
  BY <1>5, LoadVersionRowEffect DEF ToggleVersionLoad, VersionSteps
<1>6. CASE ToggleVersionSave(w)
  <2>1. r.pc = "toggle.save" /\ r.ver \in VersionRow
    BY <1>6 DEF ToggleVersionSave, At, RequestOK, VersionSteps
  <2>2. PICK new : new = [r.ver EXCEPT !.active = ~@]
    OBVIOUS
  <2>3. new \in VersionRow
    BY <2>1, <2>2 DEF VersionRow
  <2>4. versions' = [versions EXCEPT ![r.vid] = SaveVersion(versions[r.vid], r.ver, new)]
    BY <1>6, <2>2 DEF ToggleVersionSave
  <2>5. UNCHANGED <<software, artifacts, keys, verified>> /\ Finish(w)
    BY <1>6 DEF ToggleVersionSave
  <2>6. /\ versions' \in [Version -> VersionRow \cup {Null}]
        /\ Monotone
        /\ \A a \in Artifact : artifacts'[a] # Null => ColumnEffect(w, a)
    BY <2>1, <2>3, <2>4, <2>5, VersionSaveEffect DEF VersionSteps
  <2> QED BY <2>5, <2>6, WriteEffect DEF TypeOK
<1>7. CASE DeleteVersionLoad(w)
  BY <1>7, LoadVersionRowEffect DEF DeleteVersionLoad, VersionSteps
<1>8. CASE DeleteVersionCheck(w)
  <2>1. r.pc = "remove.check" /\ Goto(w, "remove.save")
    BY <1>8 DEF DeleteVersionCheck, At
  <2>2. r \in Request
    BY DEF TypeOK
  <2>3. RequestOK([req[w] EXCEPT !.pc = "remove.save"])
    BY <2>1, <2>2 DEF RequestOK, Request, RowSteps, VersionSteps, LoadedSteps, ProductSteps
  <2> QED BY <1>8, <2>1, <2>3, GotoEffect DEF DeleteVersionCheck, Steps
<1>9. CASE DeleteVersionSave(w)
  <2>1. r.pc = "remove.save" /\ r.ver \in VersionRow
    BY <1>9 DEF DeleteVersionSave, At, RequestOK, VersionSteps
  <2>2. PICK new : new = [r.ver EXCEPT !.deleted = TRUE]
    OBVIOUS
  <2>3. new \in VersionRow
    BY <2>1, <2>2 DEF VersionRow
  <2>4. versions' = [versions EXCEPT ![r.vid] = SaveVersion(versions[r.vid], r.ver, new)]
    BY <1>9, <2>2 DEF DeleteVersionSave
  <2>5. UNCHANGED <<software, artifacts, keys, verified>> /\ Finish(w)
    BY <1>9 DEF DeleteVersionSave
  <2>6. /\ versions' \in [Version -> VersionRow \cup {Null}]
        /\ Monotone
        /\ \A a \in Artifact : artifacts'[a] # Null => ColumnEffect(w, a)
    BY <2>1, <2>3, <2>4, <2>5, VersionSaveEffect DEF VersionSteps
  <2> QED BY <2>5, <2>6, WriteEffect DEF TypeOK
<1> QED
  BY <1>0, <1>1, <1>2, <1>3, <1>4, <1>5, <1>6, <1>7, <1>8, <1>9 DEF VersionStep

\* A revocation under the policy counts on another key: more than one was active.
LEMMA AnotherActiveKey ==
    ASSUME NEW s, NEW k, Cardinality(ActiveKeys(s)) > 1
    PROVE  ActiveKeys(s) \ {k} # {}
<1> SUFFICES ASSUME ActiveKeys(s) \subseteq {k} PROVE FALSE
  OBVIOUS
<1>1. IsFiniteSet({k}) /\ Cardinality({k}) = 1
  BY FS_Singleton
<1>2. Cardinality(ActiveKeys(s)) <= 1 /\ Cardinality(ActiveKeys(s)) \in Nat
  BY <1>1, FS_Subset, FS_CardinalityType
<1> QED BY <1>2

\* The handlers of software_service.ts.
LEMMA SoftwareStepEffect ==
    ASSUME TypeOK, NEW w \in Worker, RequestOK(req[w]), SoftwareStep(w)
    PROVE  Effect(w)
<1> DEFINE r == req[w]
<1>1. CASE UpdateName(w)
  <2>1. software' \in [Software -> SoftwareRow] /\ UNCHANGED <<versions, artifacts, keys, req, verified>>
    BY <1>1 DEF UpdateName, TypeOK, SoftwareRow
  <2>2. Monotone
    BY <2>1 DEF Monotone
  <2> QED BY <2>1, <2>2, AtomicEffect DEF TypeOK
<1>2. CASE ToggleActive(w)
  <2>1. PICK s \in Software : software' = [software EXCEPT ![s].active = ~@]
    BY <1>2 DEF ToggleActive
  <2>2. UNCHANGED <<versions, artifacts, keys, req, verified>>
    BY <1>2 DEF ToggleActive
  <2>3. PICK row : row = [software[s] EXCEPT !.active = ~@]
    OBVIOUS
  <2>4. software[s] \in SoftwareRow
    BY DEF TypeOK
  <2>5. row \in SoftwareRow
    BY <2>3, <2>4 DEF SoftwareRow
  <2>6. software' = [software EXCEPT ![s] = row]
    BY <2>1, <2>3
  <2>7. software' \in [Software -> SoftwareRow]
    BY <2>5, <2>6 DEF TypeOK
  <2>8. Monotone
    BY <2>2 DEF Monotone
  <2> QED BY <2>2, <2>7, <2>8, AtomicEffect DEF TypeOK
<1>3. CASE AddSigningKey(w)
  <2>1. PICK s \in Software, k \in Key :
          keys[k] = Null /\ keys' = [keys EXCEPT ![k] = [software |-> s, active |-> TRUE]]
    BY <1>3 DEF AddSigningKey
  <2>2. UNCHANGED <<software, versions, artifacts, req, verified>>
    BY <1>3 DEF AddSigningKey
  <2>3. keys' \in [Key -> KeyRow \cup {Null}]
    BY <2>1 DEF TypeOK, KeyRow
  <2>4. Monotone
    BY <2>1, <2>2 DEF Monotone, TypeOK
  <2> QED BY <2>2, <2>3, <2>4, AtomicEffect DEF TypeOK
<1>4. CASE PolicyLoad(w)
  <2>1. PICK s \in Software, step \in {"policy.check", "policy.off"} :
          Become(w, [Idle EXCEPT !.pc = step, !.sid = s, !.soft = software[s]])
    BY <1>4 DEF PolicyLoad
  <2> PICK q : q = [Idle EXCEPT !.pc = step, !.sid = s, !.soft = software[s]]
    OBVIOUS
  <2>2. software[s] \in SoftwareRow
    BY DEF TypeOK
  <2>3. q \in Request
    BY <2>2 DEF Idle, Request, Steps
  <2>4. RequestOK(q) /\ RowSource(w, q)
    BY <2>2 DEF Idle, RequestOK, RowSource, RowSteps, VersionSteps, LoadedSteps, ProductSteps
  <2> QED BY <1>4, <2>1, <2>3, <2>4, ReadEffect DEF PolicyLoad
<1>5. CASE PolicyCheck(w)
  <2> PICK seen : seen = ActiveKeys(r.sid)
    OBVIOUS
  <2> PICK q : q = [r EXCEPT !.pc = "policy.save", !.seen = seen]
    OBVIOUS
  <2>1. r.pc = "policy.check" /\ seen # {} /\ Become(w, q)
    BY <1>5 DEF PolicyCheck, At
  <2>2. r \in Request /\ seen \in SUBSET Key
    BY DEF TypeOK, ActiveKeys
  <2>3. r.key = Null /\ r.sid \in Software /\ r.soft \in SoftwareRow
    BY <2>1 DEF RequestOK, ProductSteps
  <2>4. /\ q \in Request /\ q.pc = "policy.save" /\ q.seen = seen /\ q.key = r.key
        /\ q.row = r.row /\ q.sid = r.sid /\ q.soft = r.soft
    <3>1. "policy.save" \in Steps
      BY DEF Steps
    <3>2. q \in Request
      BY <2>2, <3>1 DEF Request
    <3>3. q.pc = "policy.save" /\ q.seen = seen
      BY <2>2 DEF Request
    <3>4. q.key = r.key /\ q.row = r.row /\ q.sid = r.sid /\ q.soft = r.soft
      BY <2>2 DEF Request
    <3> QED BY <3>2, <3>3, <3>4
  <2>5. RequestOK(q) /\ RowSource(w, q)
    BY <2>1, <2>3, <2>4
       DEF RequestOK, RowSource, RowSteps, VersionSteps, LoadedSteps, ProductSteps
  <2> QED BY <1>5, <2>1, <2>4, <2>5, ReadEffect DEF PolicyCheck
<1>6. CASE PolicySave(w)
  <2>1. r.sid \in Software /\ r.soft \in SoftwareRow
    BY <1>6 DEF PolicySave, RequestOK, ProductSteps
  <2>2. Finish(w) /\ UNCHANGED <<versions, artifacts, keys, verified>>
    BY <1>6 DEF PolicySave
  <2>3. software' = [software EXCEPT ![r.sid].requireSigned =
                        Dirty(@, r.soft.requireSigned, r.pc = "policy.save")]
    BY <1>6 DEF PolicySave
  <2>4. Dirty(software[r.sid].requireSigned, r.soft.requireSigned, r.pc = "policy.save") \in BOOLEAN
    BY <2>1 DEF Dirty, TypeOK, SoftwareRow
  <2>5. software' \in [Software -> SoftwareRow]
    BY <2>1, <2>3, <2>4 DEF TypeOK, SoftwareRow
  <2>6. Monotone /\ \A a \in Artifact : artifacts'[a] # Null => ColumnEffect(w, a)
    BY <2>2 DEF Monotone, ColumnEffect
  <2> QED BY <2>2, <2>5, <2>6, WriteEffect DEF TypeOK
<1>7. CASE RevokeLoad(w)
  <2>1. PICK s \in Software, k \in Key :
          /\ ActiveKey(s, k)
          /\ Become(w, [Idle EXCEPT !.pc = "revoke.check", !.sid = s,
                                    !.soft = software[s], !.key = k])
    BY <1>7 DEF RevokeLoad
  <2> PICK q : q = [Idle EXCEPT !.pc = "revoke.check", !.sid = s, !.soft = software[s], !.key = k]
    OBVIOUS
  <2>2. software[s] \in SoftwareRow /\ keys[k] # Null /\ keys[k].software = s
    BY <2>1 DEF TypeOK, ActiveKey
  <2>3. q \in Request
    BY <2>2 DEF Idle, Request, Steps
  <2>4. RequestOK(q) /\ RowSource(w, q)
    BY <2>2 DEF Idle, RequestOK, RowSource, RowSteps, VersionSteps, LoadedSteps, ProductSteps
  <2> QED BY <1>7, <2>1, <2>3, <2>4, ReadEffect DEF RevokeLoad
<1>8. CASE RevokeCheck(w)
  <2> PICK seen : seen = ActiveKeys(r.sid)
    OBVIOUS
  <2> PICK q : q = [r EXCEPT !.pc = "revoke.save", !.seen = seen]
    OBVIOUS
  <2>1. r.pc = "revoke.check" /\ Become(w, q)
    BY <1>8 DEF RevokeCheck, At
  <2>2. r \in Request /\ seen \in SUBSET Key
    BY DEF TypeOK, ActiveKeys
  <2>3. /\ r.key \in Key /\ keys[r.key] # Null /\ keys[r.key].software = r.sid
        /\ r.sid \in Software /\ r.soft \in SoftwareRow
    BY <2>1 DEF RequestOK, ProductSteps
  <2>4. r.soft.requireSigned => seen \ {r.key} # {}
    BY <1>8, AnotherActiveKey DEF RevokeCheck
  <2>5. /\ q \in Request /\ q.pc = "revoke.save" /\ q.seen = seen /\ q.key = r.key
        /\ q.row = r.row /\ q.sid = r.sid /\ q.soft = r.soft
    <3>1. "revoke.save" \in Steps
      BY DEF Steps
    <3>2. q \in Request
      BY <2>2, <3>1 DEF Request
    <3>3. q.pc = "revoke.save" /\ q.seen = seen
      BY <2>2 DEF Request
    <3>4. q.key = r.key /\ q.row = r.row /\ q.sid = r.sid /\ q.soft = r.soft
      BY <2>2 DEF Request
    <3> QED BY <3>2, <3>3, <3>4
  <2>6. RequestOK(q) /\ RowSource(w, q)
    BY <2>3, <2>4, <2>5
       DEF RequestOK, RowSource, RowSteps, VersionSteps, LoadedSteps, ProductSteps
  <2> QED BY <1>8, <2>1, <2>5, <2>6, ReadEffect DEF RevokeCheck
<1>9. CASE RevokeSave(w)
  <2>1. /\ r.pc = "revoke.save" /\ Goto(w, "revoke.clear")
        /\ keys' = [keys EXCEPT ![r.key].active = FALSE]
        /\ UNCHANGED <<software, versions, artifacts, verified>>
    BY <1>9 DEF RevokeSave, At
  <2>2. /\ r.key \in Key /\ keys[r.key] \in KeyRow /\ keys[r.key].software = r.sid
        /\ r.sid \in Software /\ r.soft \in SoftwareRow
    BY <2>1 DEF RequestOK, ProductSteps, TypeOK
  <2>3. PICK row : row = [keys[r.key] EXCEPT !.active = FALSE]
    OBVIOUS
  <2>4. row \in KeyRow /\ row.software = keys[r.key].software
    BY <2>2, <2>3 DEF KeyRow
  <2>5. keys' = [keys EXCEPT ![r.key] = row]
    BY <2>1, <2>3
  <2>6. keys' \in [Key -> KeyRow \cup {Null}]
    BY <2>4, <2>5 DEF TypeOK
  <2>7. Monotone
    BY <2>1, <2>2, <2>4, <2>5, NullAssumption DEF Monotone, TypeOK
  <2> PICK q : q = [r EXCEPT !.pc = "revoke.clear"]
    OBVIOUS
  <2>8. r \in Request
    BY DEF TypeOK
  <2>9. /\ q \in Request /\ q.pc = "revoke.clear" /\ q.row = r.row
        /\ q.sid = r.sid /\ q.soft = r.soft /\ q.key = r.key
    BY <2>8 DEF Request, Steps
  <2>10. keys'[q.key] # Null /\ keys'[q.key].software = q.sid
    BY <2>2, <2>7, <2>9, NullAssumption DEF Monotone
  <2>11. RequestOK(q)'
    BY <2>2, <2>9, <2>10 DEF RequestOK, RowSteps, VersionSteps, LoadedSteps, ProductSteps
  <2>12. req' = [req EXCEPT ![w] = q]
    BY <2>1 DEF Goto, Become
  <2>13. TypeOK'
    BY <2>1, <2>6, <2>9, <2>12 DEF TypeOK
  <2>14. RowSource(w, q) /\ \A a \in Artifact : artifacts'[a] # Null => ColumnEffect(w, a)
    BY <2>1, <2>9 DEF RowSource, ColumnEffect
  <2> QED BY <2>7, <2>9, <2>11, <2>12, <2>13, <2>14 DEF Effect
<1>10. CASE RevokeClear(w)
  <2> DEFINE cleared == {a \in Artifact :
                           /\ artifacts[a] # Null
                           /\ artifacts[a].keyId = r.key
                           /\ versions[artifacts[a].version].software = r.sid}
  <2>1. artifacts' = [a \in Artifact |->
            IF a \in cleared THEN Unsigned(artifacts[a]) ELSE artifacts[a]]
    BY <1>10 DEF RevokeClear
  <2>2. cleared \in SUBSET {a \in Artifact : artifacts[a] # Null}
    OBVIOUS
  <2> HIDE DEF cleared
  <2> QED BY <1>10, <2>1, <2>2, BulkClearEffect DEF RevokeClear
<1> QED
  BY <1>1, <1>2, <1>3, <1>4, <1>5, <1>6, <1>7, <1>8, <1>9, <1>10 DEF SoftwareStep

\* The OTA reads, and a request that fails.
LEMMA UpdaterStepEffect ==
    ASSUME TypeOK, NEW w \in Worker, RequestOK(req[w]), UpdaterStep(w) \/ Abort(w)
    PROVE  Effect(w)
<1>1. CASE CheckLoad(w)
  <2>1. PICK a \in Artifact :
          /\ publicQuery(a)
          /\ Become(w, [Idle EXCEPT !.pc = "check.version", !.art = a, !.row = artifacts[a]])
    BY <1>1 DEF CheckLoad
  <2> PICK q : q = [Idle EXCEPT !.pc = "check.version", !.art = a, !.row = artifacts[a]]
    OBVIOUS
  <2>2. artifacts[a] # Null /\ artifacts[a] \in ArtifactRow
    BY <2>1 DEF publicQuery, Live, TypeOK
  <2>3. q \in Request
    BY <2>2 DEF Idle, Request, Steps
  <2>4. RequestOK(q) /\ RowSource(w, q)
    BY <2>2 DEF Idle, RequestOK, RowSource, RowSteps, VersionSteps, LoadedSteps, ProductSteps
  <2> QED BY <1>1, <2>1, <2>3, <2>4, ReadEffect DEF CheckLoad
<1>2. CASE CheckVersion(w)
  BY <1>2, LoadVersionEffect DEF CheckVersion, RowSteps, LoadedSteps
<1>3. CASE CheckRespond(w)
  BY <1>3, EndEffect DEF CheckRespond
<1>4. CASE Abort(w)
  BY <1>4, EndEffect DEF Abort
<1> QED BY <1>1, <1>2, <1>3, <1>4 DEF UpdaterStep

-----------------------------------------------------------------------------
(* The inductive invariant *)

\* Keys are only added, so a product with one key now had at most one before.
LEMMA OneKeyBefore ==
    ASSUME Monotone, OneKeyPerProduct'
    PROVE  OneKeyPerProduct
BY DEF Monotone, OneKeyPerProduct

\* Empty tables and idle workers satisfy the inductive invariant.
LEMMA InitInductive == Init => Inductive
<1> SUFFICES ASSUME Init PROVE Inductive
  OBVIOUS
<1>1. \A w \in Worker : req[w] = Idle
  BY DEF Init
<1>2. Idle.pc = "idle" /\ Idle.row = Null
  BY DEF Idle
<1>3. TypeOK
  BY IdleType DEF Init, TypeOK, SoftwareRow
<1>4. \A w \in Worker : RequestOK(req[w])
  BY <1>1, <1>2 DEF RequestOK, RowSteps, VersionSteps, LoadedSteps, ProductSteps
<1>5. \A a \in Artifact : artifacts[a] = Null
  BY DEF Init
<1> QED BY <1>1, <1>2, <1>3, <1>4, <1>5 DEF Inductive

\* Whatever has the effect of a step preserves the inductive invariant: the
\* signature columns only receive what setArtifactSignature verified, or NULL.
LEMMA EffectInductive ==
    ASSUME Inductive, NEW w \in Worker, Effect(w)
    PROVE  Inductive'
<1>1. TypeOK /\ TypeOK' /\ Monotone
  BY DEF Inductive, Effect
<1>2. PICK r \in Request : /\ req' = [req EXCEPT ![w] = r]
                           /\ RequestOK(r)'
                           /\ RowSource(w, r)
  BY DEF Effect
<1>3. \A u \in Worker : RequestOK(req[u])
  BY DEF Inductive
<1>4. \A u \in Worker : u # w => req'[u] = req[u]
  BY <1>1, <1>2 DEF TypeOK
<1>5. req'[w] = r
  BY <1>1, <1>2 DEF TypeOK
<1>6. (\A u \in Worker : RequestOK(req[u]))'
  <2> SUFFICES ASSUME NEW u \in Worker PROVE RequestOK(req[u])'
    OBVIOUS
  <2>1. CASE u = w
    BY <1>2, <1>5, <2>1 DEF RequestOK
  <2>2. CASE u # w
    <3>1. PICK q : q = req[u]
      OBVIOUS
    <3>2. RequestOK(q)'
      BY <1>1, <1>3, <3>1, RequestFrame
    <3> QED BY <1>4, <2>2, <3>1, <3>2 DEF RequestOK
  <2> QED BY <2>1, <2>2
<1>7. \A a \in Artifact : artifacts'[a] # Null => ColumnEffect(w, a)
  BY DEF Effect
\* What a signature about to be saved is known to be.
<1>8. ASSUME req[w].pc = "sign.save"
      PROVE  LET m == buildOtaReleaseManifest(req[w].row, req[w].ver)
             IN  /\ req[w].sig = [key |-> req[w].key, manifest |-> m]
                 /\ req[w].key \in Key
                 /\ keys[req[w].key] # Null
                 /\ keys[req[w].key].software = m.software
                 /\ <<req[w].key, m>> \in verified
                 /\ m # Null
                 /\ req[w].sig # Null
  <2> DEFINE m == buildOtaReleaseManifest(req[w].row, req[w].ver)
  <2>1. /\ req[w].sig = [key |-> req[w].key, manifest |-> m]
        /\ req[w].key \in Key
        /\ keys[req[w].key] # Null
        /\ keys[req[w].key].software = req[w].ver.software
        /\ <<req[w].key, m>> \in verified
    BY <1>3, <1>8 DEF RequestOK
  <2>2. req[w].row \in ArtifactRow /\ req[w].ver \in VersionRow
    BY <1>3, <1>8 DEF RequestOK, RowSteps, LoadedSteps
  <2>3. m \in Manifest
    BY <2>2, ManifestType
  <2>4. m.software = req[w].ver.software
    BY DEF buildOtaReleaseManifest
  <2> HIDE DEF m
  <2>5. req[w].sig \in Signature
    BY <2>1, <2>3 DEF Signature
  <2> QED BY <2>1, <2>3, <2>4, <2>5, NullAssumption DEF m
\* Every stored snapshot was verified.
<1>9. (\A a \in Artifact :
         (artifacts[a] # Null /\ artifacts[a].manifest # Null) => Known(artifacts[a].manifest))'
  <2> SUFFICES ASSUME NEW a \in Artifact, artifacts'[a] # Null, artifacts'[a].manifest # Null
               PROVE  Known(artifacts[a].manifest)'
    OBVIOUS
  <2>1. PICK m : m = artifacts'[a].manifest
    OBVIOUS
  <2>2. ColumnEffect(w, a)
    BY <1>7
  <2>3. Known(m)
    <3>1. CASE artifacts[a] # Null /\ m = artifacts[a].manifest
      BY <2>1, <3>1 DEF Inductive
    <3>2. CASE req[w].pc = "sign.save" /\ m = buildOtaReleaseManifest(req[w].row, req[w].ver)
      BY <1>8, <3>2 DEF Known
    <3> QED BY <2>1, <2>2, <3>1, <3>2 DEF ColumnEffect, Dirty
  <2>4. Known(m)'
    BY <1>1, <2>3 DEF Known, Monotone
  <2> QED BY <2>1, <2>4 DEF Known
\* While no product has two keys, signature and snapshot belong together.
<1>10. ASSUME OneKeyPerProduct'
       PROVE  /\ \A a \in Artifact : artifacts'[a] # Null => PairOK(artifacts'[a])
              /\ r.row # Null => PairOK(r.row)
              /\ \A u \in Worker : req[u].row # Null => PairOK(req[u].row)
  <2>1. /\ OneKeyPerProduct
        /\ \A a \in Artifact : artifacts[a] # Null => PairOK(artifacts[a])
        /\ \A u \in Worker : req[u].row # Null => PairOK(req[u].row)
    BY <1>1, <1>10, OneKeyBefore DEF Inductive
  <2>2. ASSUME NEW a \in Artifact, artifacts'[a] # Null
        PROVE  PairOK(artifacts'[a])
    <3> DEFINE db == artifacts[a]
               new == artifacts'[a]
               row == req[w].row
               m == buildOtaReleaseManifest(req[w].row, req[w].ver)
    <3>1. CASE db # Null /\ new.signature = db.signature /\ new.manifest = db.manifest
      BY <2>1, <3>1 DEF PairOK
    <3>2. CASE new.signature = Null /\ new.manifest = Null
      BY <3>2 DEF PairOK
    <3>3. CASE /\ db # Null /\ row # Null
               /\ new.signature = Dirty(db.signature, row.signature, Null)
               /\ new.manifest = Dirty(db.manifest, row.manifest, Null)
      <4>1. PairOK(db) /\ PairOK(row)
        BY <2>1, <3>3
      <4>2. row.signature = Null <=> row.manifest = Null
        <5>1. req[w] \in Request
          BY <1>1 DEF TypeOK
        <5>2. row \in ArtifactRow
          BY <3>3, <5>1 DEF Request
        <5>3. row.signature # Null => row.signature.manifest # Null
          BY <5>2, NullAssumption DEF ArtifactRow, Signature
        <5> QED BY <4>1, <5>3 DEF PairOK
      <4> QED BY <3>3, <4>1, <4>2 DEF PairOK, Dirty
    <3>4. CASE /\ db # Null /\ row # Null /\ req[w].pc = "sign.save"
               /\ new.signature = Dirty(db.signature, row.signature, req[w].sig)
               /\ new.manifest = Dirty(db.manifest, row.manifest, m)
      <4>1. PairOK(db) /\ PairOK(row)
        BY <2>1, <3>4
      <4>2. /\ req[w].sig = [key |-> req[w].key, manifest |-> m]
            /\ req[w].key \in Key
            /\ keys[req[w].key] # Null
            /\ keys[req[w].key].software = m.software
            /\ m # Null /\ req[w].sig # Null
        BY <1>8, <3>4
      <4> HIDE DEF m
      <4>3. row.signature = req[w].sig <=> row.manifest = m
        <5>1. CASE row.signature = Null
          BY <4>1, <4>2, <5>1 DEF PairOK
        <5>2. CASE row.signature # Null
          <6>1. req[w] \in Request
            BY <1>1 DEF TypeOK
          <6>2. row \in ArtifactRow
            BY <3>4, <6>1 DEF Request
          <6>3. row.signature \in Signature
            BY <5>2, <6>2 DEF ArtifactRow
          <6>4. /\ row.signature.key \in Key
                /\ row.signature = [key |-> row.signature.key, manifest |-> row.signature.manifest]
            BY <6>3 DEF Signature
          <6>5. /\ row.signature.manifest = row.manifest
                /\ keys[row.signature.key] # Null
                /\ keys[row.signature.key].software = row.manifest.software
            BY <4>1, <5>2 DEF PairOK
          <6>6. row.manifest = m => row.signature.key = req[w].key
            BY <2>1, <4>2, <6>4, <6>5 DEF OneKeyPerProduct
          <6> QED BY <4>2, <6>4, <6>5, <6>6
        <5> QED BY <5>1, <5>2
      <4>4. CASE row.manifest = m
        BY <3>4, <4>1, <4>3, <4>4 DEF PairOK, Dirty
      <4>5. CASE row.manifest # m
        BY <3>4, <4>2, <4>3, <4>5 DEF PairOK, Dirty
      <4> QED BY <4>4, <4>5
    <3> QED BY <1>7, <2>2, <3>1, <3>2, <3>3, <3>4 DEF ColumnEffect
  <2>3. r.row # Null => PairOK(r.row)
    BY <1>2, <2>1 DEF RowSource, PairOK
  <2> QED BY <2>1, <2>2, <2>3
<1>11. (OneKeyPerProduct =>
          /\ \A a \in Artifact : artifacts[a] # Null => PairOK(artifacts[a])
          /\ \A u \in Worker : req[u].row # Null => PairOK(req[u].row))'
  <2> SUFFICES ASSUME OneKeyPerProduct'
               PROVE  /\ \A a \in Artifact : artifacts'[a] # Null => PairOK(artifacts[a])'
                      /\ \A u \in Worker : req'[u].row # Null => PairOK(req[u].row)'
    OBVIOUS
  \* The keys a consistent pair refers to stay as they are.
  <2>1. ASSUME NEW x \in ArtifactRow, PairOK(x)
        PROVE  PairOK(x)'
    <3>1. x.signature # Null => x.signature.key \in Key
      BY DEF ArtifactRow, Signature
    <3> QED BY <1>1, <2>1, <3>1 DEF PairOK, Monotone
  <2>2. ASSUME NEW a \in Artifact, artifacts'[a] # Null
        PROVE  PairOK(artifacts[a])'
    <3>1. PICK x : x = artifacts'[a]
      OBVIOUS
    <3>2. x \in ArtifactRow /\ PairOK(x)
      BY <1>1, <1>10, <2>2, <3>1 DEF TypeOK
    <3>3. PairOK(x)'
      BY <2>1, <3>2
    <3> QED BY <3>1, <3>3 DEF PairOK
  <2>3. ASSUME NEW u \in Worker, req'[u].row # Null
        PROVE  PairOK(req[u].row)'
    <3>1. PICK x : x = req'[u].row
      OBVIOUS
    <3>2. req'[u] \in Request
      BY <1>1 DEF TypeOK
    <3>3. x \in ArtifactRow
      BY <2>3, <3>1, <3>2 DEF Request
    <3>4. PairOK(x)
      BY <1>4, <1>5, <1>10, <2>3, <3>1
    <3>5. PairOK(x)'
      BY <2>1, <3>3, <3>4
    <3> QED BY <3>1, <3>5 DEF PairOK
  <2> QED BY <2>2, <2>3
<1> QED BY <1>1, <1>6, <1>9, <1>11 DEF Inductive

\* Every step of the system preserves the inductive invariant.
LEMMA StepInductive == Inductive /\ [Next]_vars => Inductive'
<1> SUFFICES ASSUME Inductive, [Next]_vars PROVE Inductive'
  OBVIOUS
<1>1. CASE Next
  <2>1. PICK w \in Worker : ArtifactStep(w) \/ VersionStep(w) \/ SoftwareStep(w)
                            \/ UpdaterStep(w) \/ Abort(w)
    BY <1>1 DEF Next
  <2>2. TypeOK /\ RequestOK(req[w])
    BY DEF Inductive
  <2>3. Effect(w)
    BY <2>1, <2>2, ArtifactStepEffect, VersionStepEffect, SoftwareStepEffect, UpdaterStepEffect
  <2> QED BY <2>3, EffectInductive
<1>2. CASE UNCHANGED vars
  <2>1. UNCHANGED <<software, versions, artifacts, keys, req, verified>>
    BY <1>2 DEF vars
  <2>2. TypeOK'
    BY <2>1 DEF Inductive, TypeOK
  <2>3. (\A w \in Worker : RequestOK(req[w]))'
    BY <2>1 DEF Inductive, RequestOK
  <2>4. (\A a \in Artifact :
           (artifacts[a] # Null /\ artifacts[a].manifest # Null) => Known(artifacts[a].manifest))'
    BY <2>1 DEF Inductive, Known
  <2>5. (OneKeyPerProduct =>
           /\ \A a \in Artifact : artifacts[a] # Null => PairOK(artifacts[a])
           /\ \A w \in Worker : req[w].row # Null => PairOK(req[w].row))'
    BY <2>1 DEF Inductive, OneKeyPerProduct, PairOK
  <2> QED BY <2>2, <2>3, <2>4, <2>5 DEF Inductive
<1> QED BY <1>1, <1>2

-----------------------------------------------------------------------------
(* The theorems *)

\* The inductive invariant holds in every reachable state.
THEOREM InductiveCorrect == Spec => []Inductive
BY InitInductive, StepInductive, PTL DEF Spec

\* Tables and requests always hold values of their types.
THEOREM TypeCorrect == Spec => []TypeOK
<1>1. Inductive => TypeOK
  BY DEF Inductive
<1> QED BY <1>1, InductiveCorrect, PTL

\* publicQuery never lets a product that requires signatures serve a release
\* whose current metadata setArtifactSignature has not verified under a key of
\* that product, however many requests race.
THEOREM ServedMetadataIsVerified == Spec => []ServedMetadataVerified
<1>1. Inductive => ServedMetadataVerified
  <2> SUFFICES ASSUME Inductive, NEW a \in Artifact, ServedSigned(a)
               PROVE  \E k \in Key : /\ <<k, CurrentManifest(a)>> \in verified
                                     /\ keys[k].software = CurrentManifest(a).software
    BY DEF ServedMetadataVerified
  <2>1. artifacts[a] # Null /\ versions[artifacts[a].version] # Null
    BY DEF ServedSigned, publicQuery, Live
  <2>2. artifacts[a] \in ArtifactRow /\ versions[artifacts[a].version] \in VersionRow
    BY <2>1 DEF Inductive, TypeOK, ArtifactRow
  <2>3. CurrentManifest(a) \in Manifest
    BY <2>2, ManifestType DEF CurrentManifest
  <2>4. artifacts[a].manifest = CurrentManifest(a)
    BY DEF ServedSigned, publicQuery, SignaturePolicyMet, CurrentManifest
  <2>5. Known(CurrentManifest(a))
    BY <2>1, <2>3, <2>4, NullAssumption DEF Inductive
  <2> QED BY <2>5 DEF Known
<1> QED BY <1>1, InductiveCorrect, PTL

\* A pair of a signature and the snapshot it was verified over verifies under any
\* registered key of the snapshot's product while each product has one key.
LEMMA PairVerifies ==
    ASSUME OneKeyPerProduct, NEW row \in ArtifactRow, PairOK(row), row.signature # Null,
           row.keyId \in Key, keys[row.keyId] # Null,
           keys[row.keyId].software = row.manifest.software
    PROVE  verifyOtaReleaseSignature(row.manifest, row.signature, row.keyId)
<1>1. row.signature \in Signature
  BY DEF ArtifactRow
<1>2. /\ row.signature.key \in Key
      /\ row.signature = [key |-> row.signature.key, manifest |-> row.signature.manifest]
  BY <1>1 DEF Signature
<1>3. row.signature.key = row.keyId /\ row.signature.manifest = row.manifest
  BY <1>2 DEF OneKeyPerProduct, PairOK
<1> QED BY <1>2, <1>3 DEF verifyOtaReleaseSignature

\* Until a product registers a second key, what publicQuery serves under the
\* policy carries a signature that verifies over its current manifest.
THEOREM OneKeyServed == Spec => []OneKeyServedVerifies
<1>1. Inductive => OneKeyServedVerifies
  <2> SUFFICES ASSUME Inductive, OneKeyPerProduct, NEW a \in Artifact, ServedSigned(a)
               PROVE  verifyOtaReleaseSignature(CurrentManifest(a), artifacts[a].signature,
                                                artifacts[a].keyId)
    BY DEF OneKeyServedVerifies
  <2>1. artifacts[a] # Null /\ artifacts[a] \in ArtifactRow
    BY DEF ServedSigned, publicQuery, Live, Inductive, TypeOK
  <2>2. /\ artifacts[a].manifest = CurrentManifest(a)
        /\ artifacts[a].signature # Null /\ artifacts[a].keyId # Null
        /\ keys[artifacts[a].keyId] # Null
        /\ keys[artifacts[a].keyId].software = CurrentManifest(a).software
    BY DEF ServedSigned, publicQuery, SignaturePolicyMet, CurrentManifest, ActiveKey,
           buildOtaReleaseManifest
  <2>3. artifacts[a].keyId \in Key
    BY <2>1, <2>2 DEF ArtifactRow
  <2>4. PairOK(artifacts[a])
    BY <2>1 DEF Inductive
  <2> QED BY <2>1, <2>2, <2>3, <2>4, PairVerifies
<1> QED BY <1>1, InductiveCorrect, PTL

\* Under the same proviso, the signed manifest an OTA response carries verifies
\* under the product's key, although row and version were read apart.
THEOREM OneKeyEnvelope == Spec => []OneKeyEnvelopeVerifies
<1>1. Inductive => OneKeyEnvelopeVerifies
  <2> DEFINE e(w) == createOtaSignatureEnvelope(req[w].row, req[w].ver)
  <2> SUFFICES ASSUME Inductive, OneKeyPerProduct, NEW w \in Worker, At(w, "check.respond"),
                      e(w) # Null, keys[e(w).keyId] # Null,
                      keys[e(w).keyId].software = e(w).payload.software
               PROVE  verifyOtaReleaseSignature(e(w).payload, e(w).signature, e(w).keyId)
    BY DEF OneKeyEnvelopeVerifies
  <2> DEFINE row == req[w].row
  <2>1. row \in ArtifactRow /\ row # Null
    BY NullAssumption DEF Inductive, RequestOK, At, RowSteps
  <2>2. /\ row.signature # Null /\ row.keyId # Null
        /\ e(w).payload = row.manifest /\ e(w).signature = row.signature
        /\ e(w).keyId = row.keyId
    BY DEF createOtaSignatureEnvelope
  <2>3. row.keyId \in Key /\ keys[row.keyId] # Null
        /\ keys[row.keyId].software = row.manifest.software
    BY <2>1, <2>2 DEF ArtifactRow
  <2>4. PairOK(row)
    BY <2>1 DEF Inductive
  <2> HIDE DEF row, e
  <2> QED BY <2>1, <2>2, <2>3, <2>4, PairVerifies
<1> QED BY <1>1, InductiveCorrect, PTL

\* Until a product rotates its key, what is served and every envelope verify.
THEOREM OneKeyResponses == Spec => []OneKeyResponsesVerify
BY OneKeyServed, OneKeyEnvelope, PTL DEF OneKeyResponsesVerify

-----------------------------------------------------------------------------
(* Stale saves are the only way to split a row's signature columns *)

\* A cleared row agrees.
LEMMA UnsignedAgrees ==
    ASSUME NEW row \in ArtifactRow
    PROVE  ColumnsAgree(Unsigned(row))
BY DEF Unsigned, ColumnsAgree, SignatureColumns, ArtifactRow

\* Columns decide about agreement.
LEMMA SameColumnsAgree ==
    ASSUME NEW one, NEW other, SignatureColumns(one) = SignatureColumns(other),
           ColumnsAgree(one)
    PROVE  ColumnsAgree(other)
<1>1. /\ one.signature = other.signature
      /\ one.keyId = other.keyId
      /\ one.manifest = other.manifest
  BY DEF SignatureColumns
<1> QED BY <1>1 DEF ColumnsAgree, SignatureColumns, verifyOtaReleaseSignature

\* save() over a row whose signature columns are as they were loaded writes the
\* columns of the edited model; save() of a model that left them alone keeps them.
LEMMA SavedColumns ==
    ASSUME NEW db, NEW old, NEW new
    PROVE  /\ SignatureColumns(old) = SignatureColumns(db)
                => SignatureColumns(SaveArtifact(db, old, new)) = SignatureColumns(new)
           /\ SignatureColumns(old) = SignatureColumns(new)
                => SignatureColumns(SaveArtifact(db, old, new)) = SignatureColumns(db)
<1> DEFINE saved == SaveArtifact(db, old, new)
<1>1. /\ saved.signature = Dirty(db.signature, old.signature, new.signature)
      /\ saved.keyId = Dirty(db.keyId, old.keyId, new.keyId)
      /\ saved.manifest = Dirty(db.manifest, old.manifest, new.manifest)
  BY DEF SaveArtifact
<1> HIDE DEF saved
<1> QED BY <1>1 DEF SignatureColumns, Dirty, saved

\* What a step may do to the agreement of a row: keep it, or save a stale row.
Splits(w, a) ==
    /\ EditSave(w) \/ SignSave(w) \/ RebuildSave(w)
    /\ req[w].art = a
    /\ SignatureColumns(req[w].row) # SignatureColumns(artifacts[a])

RowAgrees(row) == row # Null => ColumnsAgree(row)

\* The save of a model whose own columns agree.
LEMMA AgreeingSave ==
    ASSUME TypeOK, NEW w \in Worker, RequestOK(req[w]),
           EditSave(w) \/ SignSave(w) \/ RebuildSave(w),
           req[w].pc \in RowSteps, NEW new, ColumnsAgree(new),
           artifacts' = [artifacts EXCEPT ![req[w].art] =
                            SaveArtifact(artifacts[req[w].art], req[w].row, new)],
           NEW a \in Artifact, RowAgrees(artifacts[a])
    PROVE  RowAgrees(artifacts'[a]) \/ Splits(w, a)
<1> DEFINE r == req[w]
           saved == SaveArtifact(artifacts[r.art], r.row, new)
<1>1. r.art \in Artifact
  BY DEF RequestOK
<1>2. CASE a # r.art
  BY <1>2 DEF TypeOK
<1>3. CASE a = r.art /\ SignatureColumns(r.row) # SignatureColumns(artifacts[a])
  BY <1>3 DEF Splits
<1>4. CASE a = r.art /\ SignatureColumns(r.row) = SignatureColumns(artifacts[a])
  <2>1. artifacts'[a] = saved
    BY <1>1, <1>4 DEF TypeOK
  <2>2. SignatureColumns(saved) = SignatureColumns(new)
    BY <1>4, SavedColumns
  <2> HIDE DEF saved
  <2>3. ColumnsAgree(saved)
    BY <2>2, SameColumnsAgree
  <2> QED BY <2>1, <2>3 DEF RowAgrees
<1> QED BY <1>2, <1>3, <1>4

\* The save of a model that left the signature columns alone.
LEMMA KeepingSave ==
    ASSUME TypeOK, NEW w \in Worker, RequestOK(req[w]), req[w].pc \in RowSteps,
           NEW new, SignatureColumns(req[w].row) = SignatureColumns(new),
           artifacts' = [artifacts EXCEPT ![req[w].art] =
                            SaveArtifact(artifacts[req[w].art], req[w].row, new)],
           NEW a \in Artifact, RowAgrees(artifacts[a])
    PROVE  RowAgrees(artifacts'[a])
<1> DEFINE r == req[w]
           saved == SaveArtifact(artifacts[r.art], r.row, new)
<1>1. r.art \in Artifact /\ artifacts[r.art] # Null
  BY DEF RequestOK
<1>2. CASE a # r.art
  BY <1>2 DEF TypeOK
<1>3. CASE a = r.art
  <2>1. artifacts'[a] = saved
    BY <1>1, <1>3 DEF TypeOK
  <2>2. SignatureColumns(saved) = SignatureColumns(artifacts[a])
    BY <1>3, SavedColumns
  <2> HIDE DEF saved
  <2>3. ColumnsAgree(saved)
    BY <1>1, <1>3, <2>2, SameColumnsAgree DEF RowAgrees
  <2> QED BY <2>1, <2>3 DEF RowAgrees
<1> QED BY <1>2, <1>3

\* The handlers of artifact_service.ts that write an artifact.
LEMMA ArtifactColumns ==
    ASSUME TypeOK, NEW w \in Worker, RequestOK(req[w]), ArtifactStep(w),
           NEW a \in Artifact, RowAgrees(artifacts[a])
    PROVE  RowAgrees(artifacts'[a]) \/ Splits(w, a)
<1> DEFINE r == req[w]
<1>1. CASE artifacts' = artifacts
  BY <1>1
<1>2. CASE UploadInsert(w)
  <2>1. /\ r.art \in Artifact /\ artifacts' = [artifacts EXCEPT ![r.art] = r.row]
        /\ r.row.signature = Null /\ r.row.keyId = Null /\ r.row.manifest = Null
    BY <1>2 DEF UploadInsert, At, RequestOK
  <2>2. ColumnsAgree(r.row)
    BY <2>1 DEF ColumnsAgree, SignatureColumns
  <2>3. artifacts'[a] = artifacts[a] \/ artifacts'[a] = r.row
    BY <2>1 DEF TypeOK
  <2> QED BY <2>2, <2>3 DEF RowAgrees
<1>3. CASE EditSave(w)
  <2>1. PICK c \in Channel, archived \in Checkbox :
            artifacts' = [artifacts EXCEPT ![r.art] =
                SaveArtifact(artifacts[r.art], r.row,
                    [Unsigned(r.row) EXCEPT
                      !.version = r.vid, !.channel = c, !.archived = archived,
                      !.fileName = buildFileName(r.soft.name, r.ver.number)])]
    BY <1>3 DEF EditSave
  <2> DEFINE new == [Unsigned(r.row) EXCEPT
                       !.version = r.vid, !.channel = c, !.archived = archived,
                       !.fileName = buildFileName(r.soft.name, r.ver.number)]
  <2>2. r.pc = "edit.save" /\ r.row \in ArtifactRow
    BY <1>3 DEF EditSave, At, RequestOK, RowSteps
  <2>3. Unsigned(r.row) \in ArtifactRow /\ ColumnsAgree(Unsigned(r.row))
    BY <2>2, UnsignedType, UnsignedAgrees
  <2>4. SignatureColumns(new) = SignatureColumns(Unsigned(r.row))
    BY <2>3 DEF SignatureColumns, ArtifactRow
  <2>5. artifacts' = [artifacts EXCEPT ![r.art] = SaveArtifact(artifacts[r.art], r.row, new)]
    BY <2>1
  <2> HIDE DEF new
  <2>6. ColumnsAgree(new)
    BY <2>3, <2>4, SameColumnsAgree
  <2> QED BY <1>3, <2>2, <2>5, <2>6, AgreeingSave DEF RowSteps
<1>4. CASE RebuildSave(w)
  <2> DEFINE new == [Unsigned(r.row) EXCEPT
                       !.fileName = buildFileName(r.soft.name, r.ver.number)]
  <2>1. r.pc = "rebuild.save" /\ r.row \in ArtifactRow
    BY <1>4 DEF RebuildSave, At, RequestOK, RowSteps
  <2>2. Unsigned(r.row) \in ArtifactRow /\ ColumnsAgree(Unsigned(r.row))
    BY <2>1, UnsignedType, UnsignedAgrees
  <2>3. SignatureColumns(new) = SignatureColumns(Unsigned(r.row))
    BY <2>2 DEF SignatureColumns, ArtifactRow
  <2>4. artifacts' = [artifacts EXCEPT ![r.art] = SaveArtifact(artifacts[r.art], r.row, new)]
    BY <1>4 DEF RebuildSave
  <2> HIDE DEF new
  <2>5. ColumnsAgree(new)
    BY <2>2, <2>3, SameColumnsAgree
  <2> QED BY <1>4, <2>1, <2>4, <2>5, AgreeingSave DEF RowSteps
<1>5. CASE SignSave(w)
  <2>1. PICK m : m = buildOtaReleaseManifest(r.row, r.ver)
    OBVIOUS
  <2> DEFINE new == [r.row EXCEPT !.signature = r.sig, !.keyId = r.key, !.manifest = m]
  <2>2. /\ r.pc = "sign.save" /\ r.row \in ArtifactRow /\ r.ver \in VersionRow
        /\ r.key \in Key /\ r.sig = [key |-> r.key, manifest |-> m]
    BY <1>5, <2>1 DEF SignSave, At, RequestOK, RowSteps, LoadedSteps
  <2>3. m \in Manifest
    BY <2>1, <2>2, ManifestType
  <2>4. r.sig \in Signature
    BY <2>2, <2>3 DEF Signature
  <2>5. new.signature = r.sig /\ new.keyId = r.key /\ new.manifest = m
    BY <2>2 DEF ArtifactRow
  <2>6. artifacts' = [artifacts EXCEPT ![r.art] = SaveArtifact(artifacts[r.art], r.row, new)]
    BY <1>5, <2>1 DEF SignSave
  <2> HIDE DEF new
  <2>7. ColumnsAgree(new)
    BY <2>2, <2>3, <2>4, <2>5, NullAssumption DEF ColumnsAgree, verifyOtaReleaseSignature
  <2> QED BY <1>5, <2>2, <2>6, <2>7, AgreeingSave DEF RowSteps
<1>6. CASE DeleteSave(w)
  <2> DEFINE new == [r.row EXCEPT !.deleted = TRUE]
  <2>1. r.pc = "delete.save" /\ r.row \in ArtifactRow
    BY <1>6 DEF DeleteSave, At, RequestOK, RowSteps
  <2>2. SignatureColumns(r.row) = SignatureColumns(new)
    BY <2>1 DEF SignatureColumns, ArtifactRow
  <2>3. artifacts' = [artifacts EXCEPT ![r.art] = SaveArtifact(artifacts[r.art], r.row, new)]
    BY <1>6 DEF DeleteSave
  <2> HIDE DEF new
  <2> QED BY <2>1, <2>2, <2>3, KeepingSave DEF RowSteps
<1>7. CASE PublishSave(w)
  <2> DEFINE new == [r.row EXCEPT !.published = TRUE]
  <2>1. r.pc = "publish.save" /\ r.row \in ArtifactRow
    BY <1>7 DEF PublishSave, At, RequestOK, RowSteps
  <2>2. SignatureColumns(r.row) = SignatureColumns(new)
    BY <2>1 DEF SignatureColumns, ArtifactRow
  <2>3. artifacts' = [artifacts EXCEPT ![r.art] = SaveArtifact(artifacts[r.art], r.row, new)]
    BY <1>7 DEF PublishSave
  <2> HIDE DEF new
  <2> QED BY <2>1, <2>2, <2>3, KeepingSave DEF RowSteps
<1> QED
  BY <1>1, <1>2, <1>3, <1>4, <1>5, <1>6, <1>7
     DEF ArtifactStep, UploadLoad, EditLoad, EditVersion, DeleteLoad, PublishLoad,
         PublishVersion, PublishCheck, SignLoad, SignVersion, SignCheck, RebuildLoad,
         RebuildVersion, LoadArtifact, LoadVersion

\* The two bulk updates clear rows; no other handler writes an artifact.
LEMMA OtherColumns ==
    ASSUME TypeOK, NEW w \in Worker,
           VersionStep(w) \/ SoftwareStep(w) \/ UpdaterStep(w) \/ Abort(w),
           NEW a \in Artifact, RowAgrees(artifacts[a])
    PROVE  RowAgrees(artifacts'[a])
<1>1. CASE artifacts' = artifacts
  BY <1>1
<1>2. ASSUME artifacts[a] # Null, artifacts'[a] = Unsigned(artifacts[a])
      PROVE  RowAgrees(artifacts'[a])
  <2>1. artifacts[a] \in ArtifactRow
    BY <1>2 DEF TypeOK
  <2> QED BY <1>2, <2>1, UnsignedAgrees DEF RowAgrees
<1>3. CASE UpdateVersionClear(w)
  BY <1>2, <1>3 DEF UpdateVersionClear
<1>4. CASE RevokeClear(w)
  BY <1>2, <1>4 DEF RevokeClear
<1> QED
  BY <1>1, <1>3, <1>4
     DEF VersionStep, SoftwareStep, UpdaterStep, Abort,
         CreateVersionLoad, CreateVersionInsert, LoadVersionRow, UpdateVersionLoad,
         UpdateVersionSave, ToggleVersionLoad, ToggleVersionSave, DeleteVersionLoad,
         DeleteVersionCheck, DeleteVersionSave, UpdateName, ToggleActive, AddSigningKey,
         PolicyLoad, PolicyCheck, PolicySave, RevokeLoad, RevokeCheck, RevokeSave,
         CheckLoad, CheckVersion, CheckRespond, LoadVersion

\* Whatever interleaves, signature, key id and snapshot of an artifact only come
\* apart in the save of a row whose signature columns another request changed
\* after it was loaded: every clearing path and every bulk update keeps them
\* together, also when a request ends between two of its statements.
THEOREM StaleSavesOnly == Spec => ColumnsSplitOnlyByStaleSave
<1> DEFINE A == \A a \in Artifact :
          (/\ artifacts[a] # Null => ColumnsAgree(artifacts[a])
           /\ artifacts'[a] # Null
           /\ ~ColumnsAgree(artifacts'[a]))
          => \E w \in Worker :
               /\ EditSave(w) \/ SignSave(w) \/ RebuildSave(w)
               /\ req[w].art = a
               /\ SignatureColumns(req[w].row) # SignatureColumns(artifacts[a])
<1>1. Inductive /\ [Next]_vars => [A]_vars
  <2> SUFFICES ASSUME Inductive, Next PROVE A
    OBVIOUS
  <2>1. PICK w \in Worker : ArtifactStep(w) \/ VersionStep(w) \/ SoftwareStep(w)
                            \/ UpdaterStep(w) \/ Abort(w)
    BY DEF Next
  <2>2. TypeOK /\ RequestOK(req[w])
    BY DEF Inductive
  <2>3. \A a \in Artifact : RowAgrees(artifacts[a]) =>
            RowAgrees(artifacts'[a]) \/ Splits(w, a)
    BY <2>1, <2>2, ArtifactColumns, OtherColumns
  <2> SUFFICES ASSUME NEW a \in Artifact,
                      artifacts[a] # Null => ColumnsAgree(artifacts[a]),
                      artifacts'[a] # Null, ~ColumnsAgree(artifacts'[a])
               PROVE  \E v \in Worker :
                        /\ EditSave(v) \/ SignSave(v) \/ RebuildSave(v)
                        /\ req[v].art = a
                        /\ SignatureColumns(req[v].row) # SignatureColumns(artifacts[a])
    OBVIOUS
  <2>4. Splits(w, a)
    BY <2>3 DEF RowAgrees
  <2> QED BY <2>4 DEF Splits
<1> HIDE DEF A
<1>2. Spec => [][A]_vars
  BY <1>1, InductiveCorrect, PTL DEF Spec
<1> QED BY <1>2 DEF ColumnsSplitOnlyByStaleSave, A

-----------------------------------------------------------------------------
(* Stale checks are the only way to lose a product's last active key *)

\* What can cost product s its last key: a save whose check has gone stale.
LosesKey(w, s) ==
    /\ PolicySave(w) \/ RevokeSave(w)
    /\ req[w].sid = s
    /\ \/ \E k \in req[w].seen \ {req[w].key} : ~ActiveKey(s, k)
       \/ req[w].soft.requireSigned # software[s].requireSigned

\* Steps that revoke no key and turn no policy on keep every product's key.
LEMMA PolicyKept ==
    ASSUME NEW s \in Software, PolicyHasKey(s),
           software'[s].requireSigned => software[s].requireSigned,
           \A k \in Key : ActiveKey(s, k) => ActiveKey(s, k)'
    PROVE  PolicyHasKey(s)'
BY DEF PolicyHasKey, ActiveKeys

\* The handlers that write a key or the policy.
LEMMA SoftwareKeys ==
    ASSUME TypeOK, NEW w \in Worker, RequestOK(req[w]), SoftwareStep(w),
           NEW s \in Software, PolicyHasKey(s)
    PROVE  PolicyHasKey(s)' \/ LosesKey(w, s)
<1> DEFINE r == req[w]
<1>1. CASE UNCHANGED <<software, keys>>
  BY <1>1 DEF PolicyHasKey, ActiveKeys, ActiveKey
<1>2. CASE UpdateName(w) \/ ToggleActive(w)
  <2>1. software'[s].requireSigned = software[s].requireSigned
    BY <1>2 DEF UpdateName, ToggleActive, TypeOK, SoftwareRow
  <2>2. \A k \in Key : ActiveKey(s, k) => ActiveKey(s, k)'
    BY <1>2 DEF UpdateName, ToggleActive, ActiveKey
  <2> QED BY <2>1, <2>2, PolicyKept
<1>3. CASE AddSigningKey(w)
  <2>1. \A k \in Key : keys[k] # Null => keys'[k] = keys[k]
    BY <1>3 DEF AddSigningKey, TypeOK
  <2>2. \A k \in Key : ActiveKey(s, k) => ActiveKey(s, k)'
    BY <2>1 DEF ActiveKey
  <2>3. software' = software
    BY <1>3 DEF AddSigningKey
  <2> QED BY <2>2, <2>3, PolicyKept
<1>4. CASE PolicySave(w)
  <2>1. /\ r.sid \in Software /\ keys' = keys
        /\ r.pc \in {"policy.save", "policy.off"}
        /\ r.pc = "policy.save" => r.seen # {} /\ r.key \notin r.seen
    <3>1. r.pc \in {"policy.save", "policy.off"} /\ keys' = keys
      BY <1>4 DEF PolicySave
    <3>2. r.seen \subseteq Key
      BY DEF TypeOK, Request
    <3> QED BY <3>1, <3>2, NullAssumption DEF RequestOK, ProductSteps
  <2>2. software'[s].requireSigned =>
            \/ software[s].requireSigned
            \/ s = r.sid /\ r.pc = "policy.save"
    BY <1>4, <2>1 DEF PolicySave, Dirty, TypeOK, SoftwareRow
  <2>3. \A k \in Key : ActiveKey(s, k) <=> ActiveKey(s, k)'
    BY <2>1 DEF ActiveKey
  <2>4. CASE software'[s].requireSigned => software[s].requireSigned
    BY <2>3, <2>4, PolicyKept
  <2>5. CASE s = r.sid /\ r.pc = "policy.save"
    <3>1. CASE \E k \in Key : ActiveKey(s, k)
      BY <2>3, <3>1 DEF PolicyHasKey, ActiveKeys
    <3>2. CASE ~\E k \in Key : ActiveKey(s, k)
      <4>1. PICK k \in r.seen \ {r.key} : TRUE
        BY <2>1, <2>5
      <4>2. k \in Key
        BY DEF TypeOK, Request
      <4> QED BY <1>4, <2>5, <3>2, <4>1, <4>2 DEF LosesKey
    <3> QED BY <3>1, <3>2
  <2> QED BY <2>2, <2>4, <2>5
<1>5. CASE RevokeSave(w)
  <2>1. /\ r.pc = "revoke.save" /\ software' = software
        /\ keys' = [keys EXCEPT ![r.key].active = FALSE]
    BY <1>5 DEF RevokeSave, At
  <2>2. /\ r.key \in Key /\ keys[r.key].software = r.sid
        /\ r.soft.requireSigned => r.seen \ {r.key} # {}
        /\ r.soft \in SoftwareRow
    BY <2>1 DEF RequestOK, ProductSteps
  <2>3. \A k \in Key \ {r.key} : ActiveKey(s, k) => ActiveKey(s, k)'
    BY <2>1 DEF ActiveKey, TypeOK
  <2>4. CASE s # r.sid
    <3>1. \A k \in Key : ActiveKey(s, k) => k # r.key
      BY <2>2, <2>4 DEF ActiveKey
    <3> QED BY <2>1, <2>3, <3>1, PolicyKept
  <2>5. CASE s = r.sid /\ r.soft.requireSigned # software[s].requireSigned
    BY <1>5, <2>5 DEF LosesKey
  <2>6. CASE s = r.sid /\ r.soft.requireSigned = software[s].requireSigned
    <3>1. CASE ~software[s].requireSigned
      BY <2>1, <3>1 DEF PolicyHasKey
    <3>2. CASE software[s].requireSigned
      <4>1. PICK k \in r.seen \ {r.key} : TRUE
        BY <2>2, <2>6, <3>2
      <4>2. k \in Key
        BY DEF TypeOK, Request
      <4>3. CASE ActiveKey(s, k)
        BY <2>3, <4>1, <4>2, <4>3 DEF PolicyHasKey, ActiveKeys
      <4>4. CASE ~ActiveKey(s, k)
        BY <1>5, <2>6, <4>1, <4>4 DEF LosesKey
      <4> QED BY <4>3, <4>4
    <3> QED BY <3>1, <3>2
  <2> QED BY <2>4, <2>5, <2>6
<1> QED
  BY <1>1, <1>2, <1>3, <1>4, <1>5
     DEF SoftwareStep, PolicyLoad, PolicyCheck, RevokeLoad, RevokeCheck, RevokeClear

\* The other handlers write neither keys nor products.
LEMMA OtherKeys ==
    ASSUME NEW w \in Worker, ArtifactStep(w) \/ VersionStep(w) \/ UpdaterStep(w) \/ Abort(w)
    PROVE  UNCHANGED <<software, keys>>
BY DEF ArtifactStep, VersionStep, UpdaterStep, Abort,
   UploadLoad, UploadInsert, EditLoad, EditVersion, EditSave, DeleteLoad, DeleteSave,
   PublishLoad, PublishVersion, PublishCheck, PublishSave, SignLoad, SignVersion, SignCheck,
   SignSave, RebuildLoad, RebuildVersion, RebuildSave, LoadArtifact, LoadVersion,
   CreateVersionLoad, CreateVersionInsert, LoadVersionRow, UpdateVersionLoad,
   UpdateVersionSave, UpdateVersionClear, ToggleVersionLoad, ToggleVersionSave,
   DeleteVersionLoad, DeleteVersionCheck, DeleteVersionSave, CheckLoad, CheckVersion,
   CheckRespond

\* With any number of overlapping requests, a product that requires signatures
\* loses its last active key only in a revocation or policy change whose check
\* another revocation or policy change has made stale.
THEOREM StaleChecksOnly == Spec => LastKeyLostOnlyByOverlap
<1> DEFINE A == \A s \in Software : PolicyHasKey(s) /\ ~PolicyHasKey(s)' =>
          \E w \in Worker :
             /\ PolicySave(w) \/ RevokeSave(w)
             /\ req[w].sid = s
             /\ \/ \E k \in req[w].seen \ {req[w].key} : ~ActiveKey(s, k)
                \/ req[w].soft.requireSigned # software[s].requireSigned
<1>1. Inductive /\ [Next]_vars => [A]_vars
  <2> SUFFICES ASSUME Inductive, Next, NEW s \in Software, PolicyHasKey(s), ~PolicyHasKey(s)'
               PROVE  \E w \in Worker : LosesKey(w, s)
    BY DEF LosesKey
  <2>1. PICK w \in Worker : ArtifactStep(w) \/ VersionStep(w) \/ SoftwareStep(w)
                            \/ UpdaterStep(w) \/ Abort(w)
    BY DEF Next
  <2>2. TypeOK /\ RequestOK(req[w])
    BY DEF Inductive
  <2>3. CASE SoftwareStep(w)
    BY <2>2, <2>3, SoftwareKeys
  <2>4. CASE ~SoftwareStep(w)
    <3>1. UNCHANGED <<software, keys>>
      BY <2>1, <2>4, OtherKeys
    <3> QED BY <3>1 DEF PolicyHasKey, ActiveKeys, ActiveKey
  <2> QED BY <2>3, <2>4
<1> HIDE DEF A
<1>2. Spec => [][A]_vars
  BY <1>1, InductiveCorrect, PTL DEF Spec
<1> QED BY <1>2 DEF LastKeyLostOnlyByOverlap, A
=============================================================================
