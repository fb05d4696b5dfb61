--------------------------- MODULE ReleaseSigning ---------------------------
(***************************************************************************)
(* Signed OTA releases: the CMS handlers that edit versions, artifacts,    *)
(* signing keys and the signature policy, and the public query that        *)
(* decides what the OTA endpoints may serve.                               *)
(*                                                                         *)
(* Every handler is a web request: an await that writes PostgreSQL, or     *)
(* that reads what a later step writes or returns, is a step; consecutive  *)
(* reads that only feed one check are taken together.  Requests interleave *)
(* between steps, and a request may end with an error (a failed check, a   *)
(* database error, a crash) before any step, keeping what it has already   *)
(* written.  Only toggleActive opens a transaction.                        *)
(***************************************************************************)
EXTENDS Naturals, FiniteSets

CONSTANTS
    Software,      \* product ids (a product's slug never changes)
    Version,       \* version row ids
    Artifact,      \* artifact row ids
    Key,           \* Ed25519 key ids
    Worker,        \* requests that can be in flight at once
    Name,          \* product display names
    Number,        \* major.minor.patch and codename
    Changelog,     \* the rest of the signed version metadata
    Channel,       \* channel, platform and architecture of an artifact
    Ops,           \* the operations the users of this instance issue
    Checkbox,      \* the values their forms submit for published, archived, active
    Null           \* SQL NULL / JavaScript null

VARIABLES
    software,      \* table software: name, is_active, require_signed_updates
    versions,      \* table versions
    artifacts,     \* table artifacts
    keys,          \* table software_signing_keys
    req,           \* the request each worker is executing
    verified       \* history: <<key, manifest>> pairs setArtifactSignature accepted

vars == <<software, versions, artifacts, keys, req, verified>>

-----------------------------------------------------------------------------
(* Rows, manifests and signatures *)

FileName == [name: Name, number: Number]
Manifest == [software: Software, number: Number, changelog: Changelog,
             channel: Channel, fileName: FileName]
Signature == [key: Key, manifest: Manifest]

SoftwareRow == [name: Name, active: BOOLEAN, requireSigned: BOOLEAN]
VersionRow == [software: Software, number: Number, changelog: Changelog,
               active: BOOLEAN, deleted: BOOLEAN]
KeyRow == [software: Software, active: BOOLEAN]
ArtifactRow == [version: Version, channel: Channel, fileName: FileName,
                published: BOOLEAN, archived: BOOLEAN, deleted: BOOLEAN,
                signature: Signature \cup {Null}, keyId: Key \cup {Null},
                manifest: Manifest \cup {Null}]

\* NULL is a value of its own: no row, manifest, signature or id equals it.
ASSUME NullAssumption ==
    /\ Null \notin Key
    /\ Null \notin Manifest
    /\ Null \notin Signature
    /\ Null \notin ArtifactRow
    /\ Null \notin VersionRow
    /\ Null \notin SoftwareRow
    /\ Null \notin KeyRow

AllOps == {"upload", "edit", "delete", "publish", "sign", "rebuild", "rename",
           "createVersion", "updateVersion", "toggleVersion", "deleteVersion",
           "toggleSoftware", "addKey", "revokeKey", "policy", "check"}

ASSUME OpsAssumption == Ops \subseteq AllOps /\ Checkbox \subseteq BOOLEAN

Steps == {"idle", "upload.insert", "edit.version", "edit.save", "delete.save",
          "publish.version", "publish.check", "publish.save",
          "sign.version", "sign.check", "sign.save",
          "rebuild.version", "rebuild.save",
          "create.insert", "version.save", "version.clear", "toggle.save",
          "remove.check", "remove.save", "policy.check", "policy.save", "policy.off",
          "revoke.check", "revoke.save", "revoke.clear",
          "check.version", "check.respond"}

Request == [pc: Steps, art: Artifact \cup {Null}, row: ArtifactRow \cup {Null},
            vid: Version \cup {Null}, ver: VersionRow \cup {Null},
            sid: Software \cup {Null}, soft: SoftwareRow \cup {Null},
            key: Key \cup {Null}, sig: Signature \cup {Null},
            seen: SUBSET Key]  \* the active keys a check of the policy counted

Idle == [pc |-> "idle", art |-> Null, row |-> Null, vid |-> Null, ver |-> Null,
         sid |-> Null, soft |-> Null, key |-> Null, sig |-> Null, seen |-> {}]

\* The name a release file is given from the product name and the version.
buildFileName(name, number) == [name |-> name, number |-> number]

\* The signed manifest of an artifact row and the version row loaded with it.
buildOtaReleaseManifest(row, ver) ==
    [software |-> ver.software, number |-> ver.number,
     changelog |-> ver.changelog, channel |-> row.channel,
     fileName |-> row.fileName]

\* Ed25519 (node:crypto): a signature verifies under exactly the key and the
\* payload it was made with.
verifyOtaReleaseSignature(manifest, signature, key) ==
    signature = [key |-> key, manifest |-> manifest]

\* Lucid's save() writes a column only when the model's value differs from the
\* value that was loaded.
Dirty(db, loaded, new) == IF new # loaded THEN new ELSE db

\* artifact.save() of the model `new`, loaded as `old`, over the row `db`.
SaveArtifact(db, old, new) ==
    [version |-> Dirty(db.version, old.version, new.version),
     channel |-> Dirty(db.channel, old.channel, new.channel),
     fileName |-> Dirty(db.fileName, old.fileName, new.fileName),
     published |-> Dirty(db.published, old.published, new.published),
     archived |-> Dirty(db.archived, old.archived, new.archived),
     deleted |-> Dirty(db.deleted, old.deleted, new.deleted),
     signature |-> Dirty(db.signature, old.signature, new.signature),
     keyId |-> Dirty(db.keyId, old.keyId, new.keyId),
     manifest |-> Dirty(db.manifest, old.manifest, new.manifest)]

\* version.save(), likewise.
SaveVersion(db, old, new) ==
    [software |-> db.software,
     number |-> Dirty(db.number, old.number, new.number),
     changelog |-> Dirty(db.changelog, old.changelog, new.changelog),
     active |-> Dirty(db.active, old.active, new.active),
     deleted |-> Dirty(db.deleted, old.deleted, new.deleted)]

\* Mutant: the snapshot column is forgotten.
UnsignedKeepsManifest(row) == [row EXCEPT !.signature = Null, !.keyId = Null]

\* Mutant: the update also nulls the published flag.
UnsignedNullsPublished(row) ==
    [row EXCEPT !.signature = Null, !.keyId = Null, !.manifest = Null, !.published = Null]

\* The row with its three signature columns set to NULL.
Unsigned(row) == [row EXCEPT !.signature = Null, !.keyId = Null, !.manifest = Null]

-----------------------------------------------------------------------------
(* Reads shared by the handlers *)

Live(table, i) == table[i] # Null /\ ~table[i].deleted

\* The active signing key `k` of product `s` (software_signing_keys lookup).
ActiveKey(s, k) ==
    /\ keys[k] # Null
    /\ keys[k].software = s
    /\ keys[k].active

\* The active signing keys of product `s`.
ActiveKeys(s) == {k \in Key : ActiveKey(s, k)}

\* Unique index uq_artifacts_system_channel; soft-deleted rows count.
ArtifactSlotFree(a, v, c) ==
    \A b \in Artifact \ {a} :
        artifacts[b] # Null => <<artifacts[b].version, artifacts[b].channel>> # <<v, c>>

\* Unique index uq_versions_software_semver; soft-deleted rows count.
VersionSlotFree(v, s, n) ==
    \A u \in Version \ {v} :
        versions[u] # Null => <<versions[u].software, versions[u].number>> # <<s, n>>

\* Mutant: the snapshot is not compared with the current metadata.
SignaturePolicyUnbound(a) ==
    LET row == artifacts[a]
    IN  /\ row.keyId # Null
        /\ ActiveKey(versions[row.version].software, row.keyId)
        /\ row.signature # Null

\* The policy part of the public query: a verified signature by an active key
\* of the product, bound to the release's current metadata.
SignaturePolicyMet(a) ==
    LET row == artifacts[a]
        ver == versions[row.version]
    IN  /\ row.keyId # Null
        /\ ActiveKey(ver.software, row.keyId)
        /\ row.signature # Null
        /\ row.manifest = buildOtaReleaseManifest(row, ver)

\* The releases every OTA path may serve.  Platform, architecture and storage
\* provider are live: their loss can only hide a release.
publicQuery(a) ==
    /\ Live(artifacts, a)
    /\ Live(versions, artifacts[a].version)
    /\ versions[artifacts[a].version].active
    /\ software[versions[artifacts[a].version].software].active
    /\ \/ ~software[versions[artifacts[a].version].software].requireSigned
       \/ SignaturePolicyMet(a)
    /\ artifacts[a].published
    /\ ~artifacts[a].archived

\* Mutant: the snapshot is not compared with the loaded metadata.
EnvelopeUnbound(row, ver) ==
    IF row.signature # Null /\ row.keyId # Null
    THEN [payload |-> buildOtaReleaseManifest(row, ver),
          signature |-> row.signature, keyId |-> row.keyId]
    ELSE Null

\* The signed manifest of a response: NULL unless the verified snapshot still
\* equals the manifest of the loaded row and version.
createOtaSignatureEnvelope(row, ver) ==
    IF /\ row.signature # Null
       /\ row.keyId # Null
       /\ row.manifest = buildOtaReleaseManifest(row, ver)
    THEN [payload |-> buildOtaReleaseManifest(row, ver),
          signature |-> row.signature, keyId |-> row.keyId]
    ELSE Null

-----------------------------------------------------------------------------
(* The state of a request *)

At(w, step) == req[w].pc = step
Start(w, op) == At(w, "idle") /\ op \in Ops
Become(w, r) == req' = [req EXCEPT ![w] = r]
Goto(w, step) == Become(w, [req[w] EXCEPT !.pc = step])
Finish(w) == Become(w, Idle)

\* Any await of a request can throw; what was written before it stays.
Abort(w) ==
    /\ ~At(w, "idle")
    /\ Finish(w)
    /\ UNCHANGED <<software, versions, artifacts, keys, verified>>

\* Artifact.findOrFail / query().firstOrFail() on a live artifact.
LoadArtifact(w, op, step) ==
    /\ Start(w, op)
    /\ \E a \in Artifact :
        /\ Live(artifacts, a)
        /\ Become(w, [Idle EXCEPT !.pc = step, !.art = a, !.row = artifacts[a]])
    /\ UNCHANGED <<software, versions, artifacts, keys, verified>>

\* The preloads of the loaded artifact's live version and its product, of
\* which only the handlers in `uses` look at more than the slug.
LoadVersion(w, step, next) ==
    /\ At(w, step)
    /\ Live(versions, req[w].row.version)
    /\ LET ver == versions[req[w].row.version]
           uses == {"publish.check", "rebuild.save"}
       IN  Become(w, [req[w] EXCEPT !.pc = next, !.ver = ver,
              !.soft = IF next \in uses THEN software[ver.software] ELSE Null])
    /\ UNCHANGED <<software, versions, artifacts, keys, verified>>

-----------------------------------------------------------------------------
(* artifact_service.ts *)

\* uploadArtifact up to its checks: the version is read with its product, a
\* release that is published at once is refused while signatures are required.
\* (Quota and object storage are the subject of ArtifactUpload.)
UploadLoad(w) ==
    /\ Start(w, "upload")
    /\ \E v \in Version, published \in Checkbox :
        /\ Live(versions, v)
        /\ software[versions[v].software].active
        /\ ~(published /\ software[versions[v].software].requireSigned)
        /\ \E a \in Artifact, c \in Channel :
            /\ artifacts[a] = Null
            /\ Become(w, [Idle EXCEPT !.pc = "upload.insert", !.art = a, !.row =
                  [version |-> v, channel |-> c,
                   fileName |-> buildFileName(software[versions[v].software].name,
                                              versions[v].number),
                   published |-> published, archived |-> FALSE, deleted |-> FALSE,
                   signature |-> Null, keyId |-> Null, manifest |-> Null]])
    /\ UNCHANGED <<software, versions, artifacts, keys, verified>>

UploadInsert(w) ==
    /\ At(w, "upload.insert")
    /\ artifacts[req[w].art] = Null
    /\ ArtifactSlotFree(req[w].art, req[w].row.version, req[w].row.channel)
    /\ artifacts' = [artifacts EXCEPT ![req[w].art] = req[w].row]
    /\ Finish(w)
    /\ UNCHANGED <<software, versions, keys, verified>>

\* updateArtifact: load the artifact, then the chosen version and its product,
\* then save every edited column and clear the signature columns.
EditLoad(w) == LoadArtifact(w, "edit", "edit.version")

EditVersion(w) ==
    /\ At(w, "edit.version")
    /\ \E v \in Version :
        /\ Live(versions, v)
        /\ software[versions[v].software].active
        /\ Become(w, [req[w] EXCEPT !.pc = "edit.save", !.vid = v, !.ver = versions[v],
                                    !.soft = software[versions[v].software]])
    /\ UNCHANGED <<software, versions, artifacts, keys, verified>>

EditSave(w) ==
    /\ At(w, "edit.save")
    /\ \E c \in Channel, archived \in Checkbox :
        LET r == req[w]
            new == [Unsigned(r.row) EXCEPT
                      !.version = r.vid, !.channel = c, !.archived = archived,
                      !.fileName = buildFileName(r.soft.name, r.ver.number)]
            saved == SaveArtifact(artifacts[r.art], r.row, new)
        IN  /\ ArtifactSlotFree(r.art, saved.version, saved.channel)
            /\ artifacts' = [artifacts EXCEPT ![r.art] = saved]
    /\ Finish(w)
    /\ UNCHANGED <<software, versions, keys, verified>>

\* deleteArtifact: a soft delete.
DeleteLoad(w) == LoadArtifact(w, "delete", "delete.save")

DeleteSave(w) ==
    /\ At(w, "delete.save")
    /\ artifacts' = [artifacts EXCEPT ![req[w].art] =
          SaveArtifact(@, req[w].row, [req[w].row EXCEPT !.deleted = TRUE])]
    /\ Finish(w)
    /\ UNCHANGED <<software, versions, keys, verified>>

\* publishArtifact, with assertValidReleaseSignature under the policy.
PublishLoad(w) == LoadArtifact(w, "publish", "publish.version")

PublishVersion(w) == LoadVersion(w, "publish.version", "publish.check")

PublishCheck(w) ==
    LET r == req[w]
    IN  /\ At(w, "publish.check")
        /\ ~r.row.published
        /\ ~r.row.archived
        /\ r.soft.requireSigned =>
             /\ r.row.signature # Null
             /\ r.row.keyId # Null
             /\ ActiveKey(r.ver.software, r.row.keyId)
             /\ verifyOtaReleaseSignature(buildOtaReleaseManifest(r.row, r.ver),
                                          r.row.signature, r.row.keyId)
        /\ Goto(w, "publish.save")
        /\ UNCHANGED <<software, versions, artifacts, keys, verified>>

PublishSave(w) ==
    /\ At(w, "publish.save")
    /\ artifacts' = [artifacts EXCEPT ![req[w].art] =
          SaveArtifact(@, req[w].row, [req[w].row EXCEPT !.published = TRUE])]
    /\ Finish(w)
    /\ UNCHANGED <<software, versions, keys, verified>>

\* setArtifactSignature, also the last step of importManagedSignature: load,
\* find the active key of the product, verify, save the three columns.
SignLoad(w) == LoadArtifact(w, "sign", "sign.version")

SignVersion(w) == LoadVersion(w, "sign.version", "sign.check")

SignCheck(w) ==
    LET r == req[w]
        manifest == buildOtaReleaseManifest(r.row, r.ver)
    IN  /\ At(w, "sign.check")
        /\ \E k \in Key, signature \in Signature :
            /\ ActiveKey(r.ver.software, k)
            /\ verifyOtaReleaseSignature(manifest, signature, k)
            /\ Become(w, [r EXCEPT !.pc = "sign.save", !.key = k, !.sig = signature])
            /\ verified' = verified \cup {<<k, manifest>>}
        /\ UNCHANGED <<software, versions, artifacts, keys>>

SignSave(w) ==
    LET r == req[w]
        new == [r.row EXCEPT !.signature = r.sig, !.keyId = r.key,
                             !.manifest = buildOtaReleaseManifest(r.row, r.ver)]
    IN  /\ At(w, "sign.save")
        /\ artifacts' = [artifacts EXCEPT ![r.art] = SaveArtifact(@, r.row, new)]
        /\ Finish(w)
        /\ UNCHANGED <<software, versions, keys, verified>>

\* rebuildAllNames, one artifact of its loop: the name is recomputed, the
\* signature cleared (checksums are recomputed from the same object).
RebuildLoad(w) == LoadArtifact(w, "rebuild", "rebuild.version")

RebuildVersion(w) == LoadVersion(w, "rebuild.version", "rebuild.save")

RebuildSave(w) ==
    LET r == req[w]
        new == [Unsigned(r.row) EXCEPT !.fileName = buildFileName(r.soft.name, r.ver.number)]
    IN  /\ At(w, "rebuild.save")
        /\ artifacts' = [artifacts EXCEPT ![r.art] = SaveArtifact(@, r.row, new)]
        /\ Finish(w)
        /\ UNCHANGED <<software, versions, keys, verified>>

-----------------------------------------------------------------------------
(* version_service.ts *)

\* createVersion: the product must be active when it is read; the duplicate
\* check is backed by the unique index.
CreateVersionLoad(w) ==
    /\ Start(w, "createVersion")
    /\ \E s \in Software :
        /\ software[s].active
        /\ Become(w, [Idle EXCEPT !.pc = "create.insert", !.sid = s])
    /\ UNCHANGED <<software, versions, artifacts, keys, verified>>

CreateVersionInsert(w) ==
    /\ At(w, "create.insert")
    /\ \E v \in Version, n \in Number, c \in Changelog, active \in Checkbox :
        /\ versions[v] = Null
        /\ VersionSlotFree(v, req[w].sid, n)
        /\ versions' = [versions EXCEPT ![v] =
              [software |-> req[w].sid, number |-> n, changelog |-> c,
               active |-> active, deleted |-> FALSE]]
    /\ Finish(w)
    /\ UNCHANGED <<software, artifacts, keys, verified>>

LoadVersionRow(w, op, step) ==
    /\ Start(w, op)
    /\ \E v \in Version :
        /\ Live(versions, v)
        /\ Become(w, [Idle EXCEPT !.pc = step, !.vid = v, !.ver = versions[v]])
    /\ UNCHANGED <<software, versions, artifacts, keys, verified>>

\* updateVersion: save the version row; when signed metadata changed, a second
\* statement clears the signatures of the version's artifacts.
UpdateVersionLoad(w) == LoadVersionRow(w, "updateVersion", "version.save")

UpdateVersionSave(w) ==
    /\ At(w, "version.save")
    /\ \E n \in Number, c \in Changelog, active \in Checkbox :
        LET r == req[w]
            saved == SaveVersion(versions[r.vid], r.ver,
                        [r.ver EXCEPT !.number = n, !.changelog = c, !.active = active])
        IN  /\ VersionSlotFree(r.vid, saved.software, saved.number)
            /\ versions' = [versions EXCEPT ![r.vid] = saved]
            /\ IF <<n, c>> # <<r.ver.number, r.ver.changelog>>
               THEN Goto(w, "version.clear")
               ELSE Finish(w)
    /\ UNCHANGED <<software, artifacts, keys, verified>>

UpdateVersionClear(w) ==
    /\ At(w, "version.clear")
    /\ artifacts' = [a \in Artifact |->
          IF artifacts[a] # Null /\ artifacts[a].version = req[w].vid
          THEN Unsigned(artifacts[a]) ELSE artifacts[a]]
    /\ Finish(w)
    /\ UNCHANGED <<software, versions, keys, verified>>

ToggleVersionLoad(w) == LoadVersionRow(w, "toggleVersion", "toggle.save")

ToggleVersionSave(w) ==
    /\ At(w, "toggle.save")
    /\ versions' = [versions EXCEPT ![req[w].vid] =
          SaveVersion(@, req[w].ver, [req[w].ver EXCEPT !.active = ~@])]
    /\ Finish(w)
    /\ UNCHANGED <<software, artifacts, keys, verified>>

\* deleteVersion: refused while a live artifact belongs to the version.
DeleteVersionLoad(w) == LoadVersionRow(w, "deleteVersion", "remove.check")

DeleteVersionCheck(w) ==
    /\ At(w, "remove.check")
    /\ \A a \in Artifact : Live(artifacts, a) => artifacts[a].version # req[w].vid
    /\ Goto(w, "remove.save")
    /\ UNCHANGED <<software, versions, artifacts, keys, verified>>

DeleteVersionSave(w) ==
    /\ At(w, "remove.save")
    /\ versions' = [versions EXCEPT ![req[w].vid] =
          SaveVersion(@, req[w].ver, [req[w].ver EXCEPT !.deleted = TRUE])]
    /\ Finish(w)
    /\ UNCHANGED <<software, artifacts, keys, verified>>

-----------------------------------------------------------------------------
(* software_service.ts *)

\* updateName.  (Two interleaved renames end as one of the two, as here.)
UpdateName(w) ==
    /\ Start(w, "rename")
    /\ \E s \in Software, n \in Name : software' = [software EXCEPT ![s].name = n]
    /\ UNCHANGED <<versions, artifacts, keys, req, verified>>

\* toggleActive: one transaction on the locked row.  The default product is
\* refused; which product is the default is the subject of Defaults.
ToggleActive(w) ==
    /\ Start(w, "toggleSoftware")
    /\ \E s \in Software : software' = [software EXCEPT ![s].active = ~@]
    /\ UNCHANGED <<versions, artifacts, keys, req, verified>>

\* addSigningKey and importManagedSigningKey: a key id is registered once, for
\* one product (the lookup is backed by the unique index on key_id).
AddSigningKey(w) ==
    /\ Start(w, "addKey")
    /\ \E s \in Software, k \in Key :
        /\ keys[k] = Null
        /\ keys' = [keys EXCEPT ![k] = [software |-> s, active |-> TRUE]]
    /\ UNCHANGED <<software, versions, artifacts, req, verified>>

\* setRequireSignedUpdates: turning the policy on first checks that the product
\* has an active key and that every published release of an active version
\* verifies under one.
PolicyLoad(w) ==
    /\ Start(w, "policy")
    /\ \E s \in Software, step \in {"policy.check", "policy.off"} :
        Become(w, [Idle EXCEPT !.pc = step, !.sid = s, !.soft = software[s]])
    /\ UNCHANGED <<software, versions, artifacts, keys, verified>>

PolicyCheck(w) ==
    LET s == req[w].sid
    IN  /\ At(w, "policy.check")
        /\ ActiveKeys(s) # {}
        /\ \A a \in Artifact :
             (/\ Live(artifacts, a)
              /\ artifacts[a].published
              /\ ~artifacts[a].archived
              /\ versions[artifacts[a].version].software = s
              /\ versions[artifacts[a].version].active)
             => /\ Live(versions, artifacts[a].version)
                /\ artifacts[a].keyId # Null
                /\ ActiveKey(s, artifacts[a].keyId)
                /\ verifyOtaReleaseSignature(
                      buildOtaReleaseManifest(artifacts[a], versions[artifacts[a].version]),
                      artifacts[a].signature, artifacts[a].keyId)
        /\ Become(w, [req[w] EXCEPT !.pc = "policy.save", !.seen = ActiveKeys(s)])
        /\ UNCHANGED <<software, versions, artifacts, keys, verified>>

PolicySave(w) ==
    LET r == req[w]
        required == r.pc = "policy.save"
    IN  /\ r.pc \in {"policy.save", "policy.off"}
        /\ software' = [software EXCEPT ![r.sid].requireSigned =
              Dirty(@, r.soft.requireSigned, required)]
        /\ Finish(w)
        /\ UNCHANGED <<versions, artifacts, keys, verified>>

\* revokeSigningKey: under the policy the key must not be the last active one
\* nor the key of a published release; the key is deactivated, then its
\* signatures are cleared by a second statement.
RevokeLoad(w) ==
    /\ Start(w, "revokeKey")
    /\ \E s \in Software, k \in Key :
        /\ ActiveKey(s, k)
        /\ Become(w, [Idle EXCEPT !.pc = "revoke.check", !.sid = s,
                                  !.soft = software[s], !.key = k])
    /\ UNCHANGED <<software, versions, artifacts, keys, verified>>

\* Mutant: the last active key may be revoked.
RevokeLastKey(w) ==
    LET r == req[w]
    IN  /\ At(w, "revoke.check")
        /\ Become(w, [r EXCEPT !.pc = "revoke.save", !.seen = ActiveKeys(r.sid)])
        /\ UNCHANGED <<software, versions, artifacts, keys, verified>>

RevokeCheck(w) ==
    LET r == req[w]
    IN  /\ At(w, "revoke.check")
        /\ r.soft.requireSigned =>
             /\ Cardinality(ActiveKeys(r.sid)) > 1
             /\ \A a \in Artifact :
                  ~ /\ Live(artifacts, a)
                    /\ artifacts[a].keyId = r.key
                    /\ artifacts[a].published
                    /\ ~artifacts[a].archived
                    /\ versions[artifacts[a].version].software = r.sid
                    /\ versions[artifacts[a].version].active
        /\ Become(w, [r EXCEPT !.pc = "revoke.save", !.seen = ActiveKeys(r.sid)])
        /\ UNCHANGED <<software, versions, artifacts, keys, verified>>

RevokeSave(w) ==
    /\ At(w, "revoke.save")
    /\ keys' = [keys EXCEPT ![req[w].key].active = FALSE]
    /\ Goto(w, "revoke.clear")
    /\ UNCHANGED <<software, versions, artifacts, verified>>

RevokeClear(w) ==
    /\ At(w, "revoke.clear")
    /\ artifacts' = [a \in Artifact |->
          IF /\ artifacts[a] # Null
             /\ artifacts[a].keyId = req[w].key
             /\ versions[artifacts[a].version].software = req[w].sid
          THEN Unsigned(artifacts[a]) ELSE artifacts[a]]
    /\ Finish(w)
    /\ UNCHANGED <<software, versions, keys, verified>>

-----------------------------------------------------------------------------
(* updater_service.ts: check, latest and releases *)

\* A row of the public query; its version is preloaded by a later statement.
CheckLoad(w) ==
    /\ Start(w, "check")
    /\ \E a \in Artifact :
        /\ publicQuery(a)
        /\ Become(w, [Idle EXCEPT !.pc = "check.version", !.art = a, !.row = artifacts[a]])
    /\ UNCHANGED <<software, versions, artifacts, keys, verified>>

CheckVersion(w) == LoadVersion(w, "check.version", "check.respond")

CheckRespond(w) ==
    /\ At(w, "check.respond")
    /\ Finish(w)
    /\ UNCHANGED <<software, versions, artifacts, keys, verified>>

-----------------------------------------------------------------------------

Init ==
    /\ software \in [Software -> [name: Name, active: {TRUE}, requireSigned: {FALSE}]]
    /\ versions = [v \in Version |-> Null]
    /\ artifacts = [a \in Artifact |-> Null]
    /\ keys = [k \in Key |-> Null]
    /\ req = [w \in Worker |-> Idle]
    /\ verified = {}

ArtifactStep(w) ==
    \/ UploadLoad(w) \/ UploadInsert(w)
    \/ EditLoad(w) \/ EditVersion(w) \/ EditSave(w)
    \/ DeleteLoad(w) \/ DeleteSave(w)
    \/ PublishLoad(w) \/ PublishVersion(w) \/ PublishCheck(w) \/ PublishSave(w)
    \/ SignLoad(w) \/ SignVersion(w) \/ SignCheck(w) \/ SignSave(w)
    \/ RebuildLoad(w) \/ RebuildVersion(w) \/ RebuildSave(w)

VersionStep(w) ==
    \/ CreateVersionLoad(w) \/ CreateVersionInsert(w)
    \/ UpdateVersionLoad(w) \/ UpdateVersionSave(w) \/ UpdateVersionClear(w)
    \/ ToggleVersionLoad(w) \/ ToggleVersionSave(w)
    \/ DeleteVersionLoad(w) \/ DeleteVersionCheck(w) \/ DeleteVersionSave(w)

SoftwareStep(w) ==
    \/ UpdateName(w) \/ ToggleActive(w) \/ AddSigningKey(w)
    \/ PolicyLoad(w) \/ PolicyCheck(w) \/ PolicySave(w)
    \/ RevokeLoad(w) \/ RevokeCheck(w) \/ RevokeSave(w) \/ RevokeClear(w)

UpdaterStep(w) == CheckLoad(w) \/ CheckVersion(w) \/ CheckRespond(w)

Next == \E w \in Worker :
    \/ ArtifactStep(w)
    \/ VersionStep(w)
    \/ SoftwareStep(w)
    \/ UpdaterStep(w)
    \/ Abort(w)

Spec == Init /\ [][Next]_vars

-----------------------------------------------------------------------------
(* Properties *)

\* Every table and every request holds values of its type.
TypeOK ==
    /\ software \in [Software -> SoftwareRow]
    /\ versions \in [Version -> VersionRow \cup {Null}]
    /\ artifacts \in [Artifact -> ArtifactRow \cup {Null}]
    /\ keys \in [Key -> KeyRow \cup {Null}]
    /\ req \in [Worker -> Request]
    /\ verified \subseteq Key \X Manifest

\* What a request holds at each step: the rows and ids its earlier steps loaded.
RowSteps == {"edit.version", "edit.save", "delete.save", "publish.version",
             "publish.check", "publish.save", "sign.version", "sign.check",
             "sign.save", "rebuild.version", "rebuild.save", "check.version",
             "check.respond"}
VersionSteps == {"version.save", "version.clear", "toggle.save", "remove.check",
                 "remove.save"}
LoadedSteps == {"edit.save", "publish.check", "publish.save", "sign.check",
                "sign.save", "rebuild.save", "check.respond"}
ProductSteps == {"policy.check", "policy.save", "policy.off", "revoke.check",
                 "revoke.save", "revoke.clear"}

RequestOK(r) ==
    /\ r.pc \in RowSteps \cup {"upload.insert"} => r.art \in Artifact /\ r.row \in ArtifactRow
    /\ r.pc = "upload.insert" =>
         r.row.signature = Null /\ r.row.keyId = Null /\ r.row.manifest = Null
    /\ r.pc \in RowSteps => artifacts[r.art] # Null
    /\ r.pc \in VersionSteps => r.vid \in Version /\ versions[r.vid] # Null
    /\ r.pc \in VersionSteps \cup LoadedSteps => r.ver \in VersionRow
    /\ r.pc = "edit.save" => r.vid \in Version
    /\ r.pc \in {"edit.save", "publish.check", "publish.save", "rebuild.save"} \cup ProductSteps
         => r.soft \in SoftwareRow
    /\ r.pc \in ProductSteps \cup {"create.insert"} => r.sid \in Software
    /\ r.pc \in {"revoke.check", "revoke.save", "revoke.clear"} =>
         r.key \in Key /\ keys[r.key] # Null /\ keys[r.key].software = r.sid
    /\ r.pc = "policy.check" => r.key = Null
    /\ r.pc = "policy.save" => r.key = Null /\ r.seen # {}
    /\ r.pc = "revoke.save" /\ r.soft.requireSigned => r.seen \ {r.key} # {}
    /\ r.pc = "sign.save" =>
         /\ r.key \in Key
         /\ r.sig = [key |-> r.key, manifest |-> buildOtaReleaseManifest(r.row, r.ver)]
         /\ keys[r.key] # Null
         /\ keys[r.key].software = r.ver.software
         /\ <<r.key, buildOtaReleaseManifest(r.row, r.ver)>> \in verified

\* The manifest of a stored release as it stands now.
CurrentManifest(a) == buildOtaReleaseManifest(artifacts[a], versions[artifacts[a].version])

\* The releases served by a product that requires signatures.
ServedSigned(a) ==
    /\ publicQuery(a)
    /\ software[versions[artifacts[a].version].software].requireSigned

\* publicQuery binds eligibility to verified metadata: whatever edits raced the
\* signature's save, a product that requires signatures only serves a release
\* whose metadata, exactly as it is now, setArtifactSignature once verified
\* under a key registered for that product.
ServedMetadataVerified ==
    \A a \in Artifact : ServedSigned(a) =>
        \E k \in Key : /\ <<k, CurrentManifest(a)>> \in verified
                       /\ keys[k].software = CurrentManifest(a).software

\* No product has ever registered a second key (keys are never deleted).
OneKeyPerProduct ==
    \A j, k \in Key : (/\ keys[j] # Null
                       /\ keys[k] # Null
                       /\ keys[j].software = keys[k].software) => j = k

\* Signature and snapshot of a row, stored or loaded, belong together.
PairOK(row) ==
    IF row.signature = Null
    THEN row.manifest = Null
    ELSE /\ row.signature.manifest = row.manifest
         /\ keys[row.signature.key] # Null
         /\ keys[row.signature.key].software = row.manifest.software

\* A snapshot that some key of the product it names has verified.
Known(manifest) ==
    \E k \in Key : /\ <<k, manifest>> \in verified
                   /\ keys[k] # Null
                   /\ keys[k].software = manifest.software

\* The inductive strengthening of the safety properties.
Inductive ==
    /\ TypeOK
    /\ \A w \in Worker : RequestOK(req[w])
    /\ \A a \in Artifact :
         (artifacts[a] # Null /\ artifacts[a].manifest # Null) => Known(artifacts[a].manifest)
    /\ OneKeyPerProduct =>
         /\ \A a \in Artifact : artifacts[a] # Null => PairOK(artifacts[a])
         /\ \A w \in Worker : req[w].row # Null => PairOK(req[w].row)

\* As long as no product has rotated its key, a release served under the policy
\* carries a signature that verifies over its current manifest under the key it
\* names, whatever signatures, edits, moves and revocations interleaved.
OneKeyServedVerifies ==
    OneKeyPerProduct => \A a \in Artifact : ServedSigned(a) =>
        verifyOtaReleaseSignature(CurrentManifest(a), artifacts[a].signature,
                                  artifacts[a].keyId)

\* The signed manifest of an OTA response, computed from rows that two different
\* statements read, verifies for a client that pins the product's key (under the
\* same proviso).
OneKeyEnvelopeVerifies ==
    OneKeyPerProduct => \A w \in Worker : At(w, "check.respond") =>
        LET e == createOtaSignatureEnvelope(req[w].row, req[w].ver)
        IN  (/\ e # Null
             /\ keys[e.keyId] # Null
             /\ keys[e.keyId].software = e.payload.software)
            => verifyOtaReleaseSignature(e.payload, e.signature, e.keyId)

\* Both together: until a product rotates its key, clients that pin it can verify
\* everything the OTA endpoints decide to serve or have put into a response.
OneKeyResponsesVerify == OneKeyServedVerifies /\ OneKeyEnvelopeVerifies

\* The three signature columns of a row, and their agreement: all NULL, or a
\* signature that verifies over the snapshot under the key id.
SignatureColumns(row) == <<row.signature, row.keyId, row.manifest>>

ColumnsAgree(row) ==
    \/ SignatureColumns(row) = <<Null, Null, Null>>
    \/ /\ Null \notin {row.signature, row.keyId, row.manifest}
       /\ verifyOtaReleaseSignature(row.manifest, row.signature, row.keyId)

\* Lost updates are the only thing that can leave a half-signed row: whatever
\* uploads, edits, moves, rebuilds, publications, version changes, revocations
\* and failures interleave, the three columns of an artifact stop agreeing only
\* in the save of a request that loaded the row before another request changed
\* its signature columns.
ColumnsSplitOnlyByStaleSave ==
    [][\A a \in Artifact :
          (/\ artifacts[a] # Null => ColumnsAgree(artifacts[a])
           /\ artifacts'[a] # Null
           /\ ~ColumnsAgree(artifacts'[a]))
          => \E w \in Worker :
               /\ EditSave(w) \/ SignSave(w) \/ RebuildSave(w)
               /\ req[w].art = a
               /\ SignatureColumns(req[w].row) # SignatureColumns(artifacts[a])]_vars

\* A product that requires signatures has an active key.
PolicyHasKey(s) == software[s].requireSigned => ActiveKeys(s) # {}

\* revokeSigningKey and setRequireSignedUpdates check for a remaining key some
\* steps before they save.  A product that requires signatures loses its last
\* active key only when that check has gone stale: another request has revoked
\* a key the check counted on, or has changed the policy since it was loaded.
\* No request does it alone, however it is ordered with other kinds of request.
LastKeyLostOnlyByOverlap ==
    [][\A s \in Software : PolicyHasKey(s) /\ ~PolicyHasKey(s)' =>
          \E w \in Worker :
             /\ PolicySave(w) \/ RevokeSave(w)
             /\ req[w].sid = s
             /\ \/ \E k \in req[w].seen \ {req[w].key} : ~ActiveKey(s, k)
                \/ req[w].soft.requireSigned # software[s].requireSigned]_vars

\* The documented promise that with the policy on every OTA path excludes
\* releases signed by revoked keys (docs/ota-signatures.md).
NoRevokedSignatureServed ==
    \A a \in Artifact : ServedSigned(a) => keys[artifacts[a].signature.key].active
=============================================================================
