# TLA+ verification of Reeva

Reeva publishes over-the-air releases. Administrators keep products, versions and
artifacts in a CMS (AdonisJS on PostgreSQL); clients ask public endpoints for
updates; releases can be required to carry an Ed25519 signature, made offline or
by a separate signing service in Rust. This directory models the parts of that
system whose correctness depends on how requests interleave, checks them with TLC
on small instances, and proves their safety properties with TLAPS for every size of
the system.

## The system

| Component | State | Operations | What is hard |
|---|---|---|---|
| Artifacts (`artifact_service.ts`) | table `artifacts`: metadata, publication flags, three signature columns | upload, edit, delete, publish, sign, rebuild names | no transactions: each handler reads, awaits, and saves only the columns it changed |
| Versions (`version_service.ts`) | table `versions` | create, update, toggle, delete | an update is two statements, the row and the clearing of signatures |
| Products and keys (`software_service.ts`) | `software`, `software_signing_keys` | create, rename, activate, default, add and revoke keys, signature policy | checks before a save; default product across rows |
| Public OTA query (`artifact_repository.ts`, `updater_service.ts`) | none | check, latest, releases, download | rows read by several statements while the CMS writes |
| Signing service (`signer/src/main.rs`) | `signing_requests`, `signing_audit`; keys in OpenBao | create, read and approve requests | replicas, row locks, expiry and renewal, key rotation, deadlines |
| Upload and quota (`artifact_service.ts`) | `storage_upload_reservations`, objects, artifacts | reserve, put, insert, compensate, clean up | database and object store cannot commit together; crashes |
| Storage providers (`storage_provider_service.ts`, seeder) | `storage_providers` | create, edit, activate, seed | one default across rows, several instances booting |
| Licenses (`license_service.ts`) | `licenses`, `license_activations`, key settings | create, edit, toggle, delete, issue, remove | counting under concurrency, first creation of the key |
| Accounts (`auth_service.ts`, `user_service.ts`, session controller, auth middleware) | users, reset and remember-me tokens, sessions | sign in and out, remember, send a link, reset, change password, (de)activate | token reuse, unlocked reads of the authentication version, row locks in both orders |
| Deployment start (`docker-entrypoint.sh`, `scripts/`, migrations, seeders) | secret files on volumes, database role, migration lock, schema, provider settings | initialise credentials, connect, create the key, migrate, seed, import | several containers at once, crashes between steps, the database going away |
| Managed signer client (`managed_signer_service.ts`) | none | fetch key, create and fetch requests | an approval for metadata that changed meanwhile |
| Rate limiter, drivers, dashboard, operator and benchmark scripts, views | – | – | single statements, I/O and presentation |

The CMS handlers share only the database. `importManagedSignature` fetches a
signature from the signing service and hands it to `setArtifactSignature`, so the
signing service is trusted by nobody: what it returns is verified like a pasted
signature. The public query reads what the CMS handlers leave behind. Uploads
create the artifact rows that release signing works on. A deployment start decides
whether the provider rows that uploads need can be decrypted at all.

What makes each part correct is stated by the properties below; the list of
hazards in `PROJECT.json` gives the lines at which they could fail.

## Modules

All modules follow one scheme. Tables are functions from ids to rows or `Null`.
`req[w]` is the request that worker `w` executes: its `pc` names the await it has
reached, the other fields hold what it has loaded. An action is the code between
two awaits that matter to others. `At`, `Become`, `Goto` and `Finish` move a
request. An operator marked `Mutant` in its comment is a plausible bug used to
show that a property can fail; no specification uses it.

**ReleaseSigning.** `artifact_service.ts`, `version_service.ts`,
`software_service.ts` and the public query. `Dirty` is Lucid's `save()`, which
writes a column only if the model's value differs from the loaded one; this is
what lets columns of one row come from two requests. A manifest is a record of
the signed fields, `Number` standing for version and codename, `Changelog` for
the remaining version metadata, `Channel` for channel, platform and architecture,
and a product id for its slug. Size and checksum of an artifact never change and
are left out. A signature is the pair of key and manifest it was made with. `verified` is a history variable: what
`setArtifactSignature` has accepted. `seen` is what a policy or revocation request
counted as active keys when it checked. `Abort` ends a request before any await, as
an error, a crash or a failed check would. `Ops` and `Checkbox` restrict an
instance to the operations a run is about; the proofs hold for all of them.

**SignerService.** `create_request`, `get_request` and `approve`. A request id is
the record of key fingerprint and payload that it digests. `Holds` and `Admitted`
are the row locks and the advisory lock; `now()` is fixed when a transaction
begins; `Kept` is the effect of the transaction's DELETE, applied when it commits.
OpenBao may rotate, disable or re-create a key at any moment. `reviewed` and
`approvals` are history: what an approver was shown, and which approval completed
a request. The 30-second deadline is `Abort`.

**ArtifactUpload.** One upload per worker against one provider: clean-up of
expired reservations in batches, reservation under the provider's row lock, the
object, the transaction that inserts the artifact and removes the reservation, the
compensation. The SUM of a table's sizes is the number of bytes its rows account for,
each byte a pair of row and position (`Bytes`). The insert's foreign key takes a key-share lock on the provider row
and so waits for a reservation in progress. An administrator may activate the
provider and change its quota at any time. `lost` is a history variable: the uploads
whose `storage.upload` or COMMIT succeeded while the answer got lost, about which
the compensation decides wrongly and cannot do better.

**Defaults.** The default product (`toggleActive`, `setDefault`) and the default
storage provider (`activateProvider`, the seeder that every boot runs). The unique
indexes and the check constraint on the defaults are left out on purpose: the run
shows that locks alone keep the code from ever meeting them.

**Licenses.** License rows under their row lock, activation tokens, the advisory
lock around the signing key, the soft deletion of the key's setting. A token is the key
that signed it, kept beside its activation row.

**SigningContract.** What the signing service promises its clients, each operation
done at once: a request is absent, pending until an expiry, or signed for good; it is
signed only after a review that showed the expiry it then has; no more than `Limit`
are kept. `SignerService` implements it: `Contract` maps the rows of
`signing_requests` to pending and signed requests, so transactions, locks, replicas
and OpenBao disappear, and `ImplementsContract` is the refinement. A transaction is one
step of the contract, taken when it commits; everything else stutters. The contract
is narrower than the documentation: the expiry of a completed request is not part of
it, because renewal can change it (see the disagreements).

**Accounts.** Each browser runs one request at a time: sign-in, remember-me, sign-out,
reset link, reset, own password change, reset by an administrator, activation. A
user is loaded without a lock and saved later with the absolute values it holds; the
transactions that set a password lock user and token rows until they commit.
The history fields `fresh` (issued since the last change of the account), `proven` (obtained
with the current password) and `late` (stored while that password was changing, or
after) and the set `overwritten` state the properties; no guard reads them. `Abort`
ends a request anywhere and rolls its transaction back.

**OtaUpdates.** The client's protocol: poll, download what was offered, list page by
page with a count and a row statement, switch the channel, while releases are
published and withdrawn and versions renumbered. check and latest are two statements:
`CheckSelect` and `LatestSelect` choose an artifact by the number of its version,
`CheckAnswer` and `LatestAnswer` answer with the number that `preload('version')` reads
afterwards; only latest compares that number with the client's again. `picked` is
history: the number the first statement saw. The comparisons of the SQL
(`updater_service.ts`) and of the CMS filter (`version_service.ts`) are translated clause
by clause and compared with one number per version, `Precedence`. The client is
external: it installs what it was offered, under the version number it was told.

**Startup.** The credential initializer with its three files, which may stop between
any two of them, PostgreSQL's first start, the application
containers step by step (connection check with its deadline, application key written
to a temporary file, linked, read back; migration lock, migrations, seeders, server),
crashes, database outages, an operator adding the legacy settings a migration asks
for or correcting the administrator's settings the user seeder refuses, and the legacy
import under its table locks. The seeders run in the order of their names: platforms,
architectures and settings (`"base"` in `seeded`, one read and one insert), the storage
provider, the administrator (`"admin"`). A provider's settings are
represented by what they are encrypted with.

`MC*` modules add symmetry sets and values of constants; each `.cfg` is one run.
Each component `M` has its theorems in `MProofs`, which extends it; the refinement of
`SigningContract` is proved in `SignerServiceProofs`.

## Runs

| Run | Instance | Shows |
|---|---|---|
| Signing_race | 2 requests and a client, 1 product, version, artifact and key, 2 changelogs | types; what is served under the policy has metadata verified under a key of the product; with one key, what is served and every response envelope verifies; the signature columns of a row stop agreeing only by a save of a copy loaded before another request changed them |
| Signing_policy | 2 requests, 2 keys, 1 product, version and artifact | a product that requires signatures loses its last active key only to a check that another request has made stale |
| Signing_revoked_served | 2 requests, 2 keys | violated: a revoked key's signature can be served (see below) |
| Signer_races | 2 requests, 1 payload, 2 key versions, 2 generations, clock 0–3 with lifetime 1, limit 1 | the service implements `SigningContract`; one audited approval per signature, by the key that was requested, bound to the reviewed expiry; a bounded table |
| Signer_renewal | 2 requests, 1 key version, clock 0–4 | violated: a completed request can be renewed |
| Upload_faults | 2 uploads at a time of 3, sizes 1–2, quotas 0, 2 and 3, batch 1, lifetime 2, clock 0–3 | artifact rows keep their object; stray objects keep a reservation; usage never grows above the quota in force |
| Defaults_exclusive | 3 requests, 3 products, 3 providers | exactly one default product, active; at most one default provider |
| Defaults_activate | 2 requests | violated: activating the default provider leaves none |
| Licenses_overlap | 2 requests, 2 licenses, 2 activations, 2 machines, 2 keys, limits 1 and 2 | exact count, machines activated once, activations within the license, tokens verify under the published key |
| Accounts_sessions | 2 browsers, 2 users (an administrator and a member changed up to twice), 2 tokens | old sessions and remember-me tokens stop working when the account changes; a reset link works once; every request ends |
| Updates_polling | 2 releases, 2 versions, 4 version numbers and their pre-releases, 2 channels, pages of 1, 3 changes | the SQL computes semantic-version precedence; check, latest and releases agree; a quiet listing is complete; an offer is an update unless its version was renumbered between the two statements; a client reaches the newest release |
| Startup_containers | 2 containers, fresh and upgraded volumes, APP_KEY set or not, administrator's settings absent, accepted or refused, 1 finished initializer run, 1 crash or outage | passwords agree; every container reads every provider row; nothing plain is served; the import meets an empty database; the connection check ends; every container comes to serve |

Why the bounds are enough: the races need one row, a request that holds a stale
copy of it and one that changes it; the column mixtures need two submissions and a
third value, hence two keys and two changelogs (`Signing_race` has the changelogs,
`Signing_policy` the keys; `Signing_revoked_served` both). A renewal needs one lifetime to
pass and pruning two, so three ticks of lifetime one let both happen and leave a
tick for what follows; two key versions and two generations give a request made for
the old key, one for the new key, and one for a key re-created at the same version.
A batch of one makes the clean-up loop with two
expired reservations. Three requests in `Defaults` let two queue behind a lock
holder. In `Accounts`, a stale session, a lost update and a deadlock each need two
browsers on one user; two versions leave room for an overlapping change and one after it.
In `OtaUpdates` the four version numbers differ in each of the three parts, in both
directions, and pages of one make a listing turn the page; three changes publish a
release, renumber its version between the two statements of a check and leave one for
what follows. In `Startup` two containers
race for the key, the lock and the seeds, and one fault lets a crash or an outage
fall between any two steps; eight secrets are one more than there are places to keep
one (four files, the database role, a draft in each container), so that a random
secret is always a new one. One finished run of the initializer is enough: on upgraded
volumes it is a repeated run, with any configured password, and on fresh ones a run
that stopped half-way does not count, so that another follows it. Symmetry is used only on sets whose elements no definition
tells apart and, of temporal formulas, only with those that constrain single steps.

Larger instances pass as well: the invariants of `Accounts` with both users changed twice
(4.8 million states), and `Startup` with two configured identities, of which the
initializer refuses the second (289,000 states).

Deadlock checking is off where a bounded instance really comes to rest: activation
ids are never reused (`Licenses`), and containers that all serve have nothing left to do
(`Startup`). Every other run checks for deadlock.

### Properties that name an exception

Some properties hold only up to a case the code does not cover; each says so instead
of leaving the case out of the model.

* `StaleSessionsRejected` excludes users in `overwritten`: two overlapping changes
  store the same `auth_version`, so a session issued between them survives the second.
* `RememberTokensRevoked` excludes `late` tokens: a sign-in that checked the old
  password can store its token after the change has deleted the others.
* `RowsMatchObjects` excludes uploads in `lost`, whose answer
  from the object store or from COMMIT never arrived.
* `OneKeyResponsesVerify` is about products that have registered one key.
* `ColumnsSplitOnlyByStaleSave` excepts the save of a request whose copy of the row
  was loaded before another request changed its signature columns (a lost update,
  which `Signing_revoked_served` shows in full).
* `LastKeyLostOnlyByOverlap` excepts a revocation or policy change whose check has
  become stale: two overlapping revocations can each count the other's key, and leave a
  product that requires signatures and has no active key.
* `OffersNewerUnlessRenumbered` excepts an answer of check whose version was renumbered
  between the select and the preload. It can name a version at or below the one
  the client runs, and a client that trusts it goes back.

### Fairness

Where liveness is claimed, the fairness is that of one process and of the database:

* `Accounts`: strong fairness of each request's next step. PostgreSQL queues
  waiters for a row, so a request whose lock keeps becoming free gets it, and its
  deadlock detection ends one of two requests that wait for each other
  (`DeadlockVictim` is part of `Step`). Nothing forces a browser to start a request.
* `OtaUpdates`: strong fairness of selecting, of a check's answer and of downloading: a
  client keeps polling, also when it lists in between, and errors of the database or of
  storage are not permanent; weak fairness of the end of a request and of a listing.
  Publishing, withdrawing, renumbering and switching channels are
  not fair, and bounded, so the catalogue comes to rest.
* `Startup`: strong fairness of a container's next step, because Docker restarts
  what exits and PostgreSQL queues whoever waits for a table lock; weak fairness of
  the import's end, of the operator supplying settings the migration's
  error asks for, and of the operator correcting the administrator's settings, without
  which no container would ever serve. Crashes and outages are bounded, and nothing brings the database back:
  the second half of `EveryInstanceServes` assumes `<>[]dbUp`.

The other modules state no fairness and claim no liveness: their handlers may fail
at any await, and nobody is obliged to finish one.

### Disagreements with the documentation

* `docs/ota-signatures.md:55-57` promises that releases signed by revoked keys are
  not served. Two overlapping submissions can leave the signature of one key
  beside the id of another, because only dirty columns are saved; revoking the
  first key does not find that row. The release then is served with a signature
  that clients reject. The guarantees that remain are `ServedMetadataVerified` (the
  metadata was verified) and, while a product has registered one key,
  `OneKeyServedVerifies`.
* `docs/signer-operations.md:105`: completed requests return the stored result. A
  resubmission that read the row as pending renews it after the approval has
  committed; repeating that approval then conflicts.
* `docs/refactor-plan.md:39`: activating a provider updates the default. Activating
  the current default once more (a double submit, a stale page) clears it.

Two smaller ones have no run of their own:

* `updater_controller.ts:65` describes check as looking for "a newer published artifact";
  after a renumbering between its two statements it can answer with an older number (the
  exception of `OffersNewerUnlessRenumbered`).
* The search field of the versions page (`resources/views/pages/cms/versions/index.edge:41`)
  suggests `1.0.*`, which the regular expression at `version_service.ts:18` rejects; it
  accepts `1.0*`, and ignores a patch number before the asterisk. `Filter` has both
  spellings and `ValidFilters` only the accepted ones; `FiltersByPrecedence` is about those.

## Proofs

Every invariant and every action property that a passing run checks, and the
refinement of `SigningContract`, is also a theorem, for every value of the constants: any
number of rows, requests, replicas, browsers, containers, any quota, limit, page size
and any length of the run.

| Module | Theorem | States |
|---|---|---|
| ReleaseSigningProofs | `ServedMetadataIsVerified`, `OneKeyResponses` | `ServedMetadataVerified`, `OneKeyResponsesVerify` |
| | `StaleSavesOnly`, `StaleChecksOnly` | `ColumnsSplitOnlyByStaleSave`, `LastKeyLostOnlyByOverlap` (action properties) |
| SignerServiceProofs | `AuditCorrect`, `SignatureCorrect`, `RetentionCorrect` | `OneAuditedApproval`, `SignedByRequestedKey`, `Retained` |
| | `ApprovalCorrect` | `ApprovalBoundToExpiry` (action property) |
| | `ContractCorrect` | `ImplementsContract` (refinement) |
| ArtifactUploadProofs | `RowsCorrect`, `QuotaCorrect` | `RowsMatchObjects`, `QuotaRespected` (action property) |
| DefaultsProofs | `DefaultProductCorrect`, `DefaultProviderCorrect` | `OneActiveDefault`, `AtMostOneDefaultProvider` |
| LicensesProofs | `CountCorrect`, `MachineCorrect`, `TokensCorrect` | `ActivationCountExact`, `MachineActivatedOnce`, `TokensVerify` |
| | `WithinLicenseCorrect` | `ActivationWithinLicense` (action property) |
| AccountsProofs | `SessionsCorrect`, `RememberCorrect` | `StaleSessionsRejected`, `RememberTokensRevoked` |
| | `ResetCorrect` | `ResetConsumesToken` (action property) |
| OtaUpdatesProofs | `OffersCorrect`, `FiltersCorrect`, `ListingCorrect`, `OffersNewerCorrect` | `OffersNewest`, `FiltersByPrecedence`, `ListingComplete`, `OffersNewerUnlessRenumbered` |
| StartupProofs | `PasswordsCorrect`, `ConfigsCorrect`, `ServesCorrect`, `ImportCorrect` | `PasswordsAgree`, `ConfigsReadable`, `ServesEncrypted`, `ImportsIntoEmpty` |

Each module also proves `InductiveCorrect`, the inductive invariant `Inductive` that
the others follow from, and `TypeCorrect`.

### Assumptions

They are the named `ASSUME`s of the component modules, which TLC evaluates in the
runs:

* `NullAssumption`, in every module that has one: NULL is not a row, key, id or
  number. (`Accounts`, `OtaUpdates` and `Startup` say part of it in their own
  assumption.)
* `OpsAssumption`: which operations an instance of `ReleaseSigning` issues.
* `BoundsAssumption`, `BoundAssumption`, `ProviderAssumption`, `AccountsAssumption`,
  `OtaAssumption` and `StartupAssumption`: the numbers are naturals, limits, lifetimes
  and page sizes are not zero, and special elements belong to their sets. `Upload` and
  `Release`, the ids that ever occur, are finite: SUM and COUNT are taken over tables.
* `ValuesAssumption` of `Startup`: there are more secrets than places that hold one,
  so that a random secret need not repeat one in use. Without it the initializer
  could not go on.

### The inductive invariants

None of the properties is inductive by itself: what a request will write depends on
what it has read. Each `Inductive` therefore says what a request at each step holds, and
why that is still true (a lock, or a weaker fact that survives interference).

* **ReleaseSigning**: no lock helps. `RequestOK` says what each `pc` guarantees about
  the loaded copies (in particular that the signature about to be saved matches the
  loaded rows and is in `verified`); a stored snapshot is always one that was verified
  (`Known`); while no product has a second key, signature and snapshot belong together
  in stored rows and in loaded copies alike (`PairOK`), because a dirty-column save mixes
  the two. Each action is first shown to have an *effect*: types are kept, tables and
  `verified` only grow (`Monotone`), the signature and snapshot columns of a row are
  unchanged, cleared together or come from one verified pair (`ColumnEffect`), and the
  request it leaves is well formed; one lemma then shows that effects preserve
  `Inductive`. The two action properties compare the copy a request holds with the row
  at its save: when the signature columns of both are the same, a dirty-column save writes
  columns that agree; when the policy and every key that was counted are as they
  were, the key that remains is still active.
* **SignerService**: an approval from its lock to its commit, and a submission from
  its prune to its insert, find the rows as they read them. `LocksExclude` gives each
  row lock and the advisory lock one holder; `Retained` needs the advisory lock, since
  count and insert are separate statements. The refinement proof maps every action:
  commits to `Submit`, `Review` or `Approve` of the contract, the rest to stutters.
* **ArtifactUpload**: a running upload owns its id and its reservation does not expire
  under it (`OwnerOK`); what a clean-up works on belongs to no running upload and no stored
  artifact (`BatchOK`); while the provider row is locked the sum of the artifact rows
  stays true (`LockOK`). The sums are cardinalities of finite sets of bytes, so the quota
  argument is about unions of disjoint sets and needs no induction over a table.
* **Defaults**: the rows a toggle or `setDefault` has read are locked by it alone
  (`RowLocksExclude`), one transaction at a time is in the provider steps, and the seeder's look at the
  defaults is still right.
* **Licenses**: under the row lock the license and the count of its activations are
  as read; under the key lock a generated pair is not yet stored; the two halves of the pair are
  written together.
* **Accounts**: `VersionOK` bounds the authentication version that a session or a
  sign-in carries by the stored one, strictly after a change; `DoomedOK` says that during the
  transaction of a password change every remember row it will not delete is `late`; a
  reset holds its token's lock until it commits.
* **OtaUpdates**: while a check is between its statements the number it selected by is
  above the client's (`AskedOK`), so that its answer is too when preload reads that same
  number; an undisturbed listing has seen the releases of rank below its page's
  start (`ListingOK`). That ranks are a bijection to an
  initial segment is a pigeonhole argument on finite sets, that a newest release exists is
  the well-ordering of precedence; the SQL comparison is compared with positional
  numbers digit by digit.
* **Startup**: the deployment's key (`ImportKey`) is set once, and every container
  past the key steps holds it; the current schema means that no row is plain; an open
  import has found the database empty and whoever writes rows waits for it
  (`ImportOK`); a run of the initializer that is under way has not been counted
  (`InitOK`).

### Only model-checked

Liveness is outside the prover's reach: `RequestsEnd`, `ReachesNewest` and
`EveryInstanceServes`. So are ENABLED, and what recursive definitions compute (no
module uses any). Deadlock freedom and the three violations are TLC's as well.

## Not modelled

* The managed signer client has no state: it checks sizes, times and shapes, and
  what it returns is verified again by `setArtifactSignature`.
* The rate limiter is one upsert per attempt; `Accounts` does not limit attempts, so
  what it shows holds for every limit.
* Storage drivers, the dashboard, download statistics, views and framework
  configuration are I/O, read-only aggregation or presentation.
* The operator commands of `signer_admin.mjs` initialise and unseal OpenBao by hand, one at a
  time; its review and approve commands are actions of `SignerService`. The
  verification and benchmark scripts are test drivers.
* Slug allocation, parsing and validation of form fields carry no state beyond
  passing or failing; a failed check is an `Abort` or a disabled step.
* `updateProvider` also replaces a provider's configuration
  (`storage_provider_service.ts:230`); `ArtifactUpload` models its quota only. A bucket or
  directory changed under existing objects is outside the model.
* In `Startup`, platforms, architectures and settings are seeded as one group, so that
  a crash between two of them is not told apart from one before all; the import's check of
  the software baseline is left out, since nothing modelled writes that table.
* Editing the key settings of licenses by hand is left out, as is `revoked_at`,
  which is written and never read. In `ArtifactUpload` no upload outlives its
  seven-day reservation, which no HTTP request comes near.

## Plan

1. Done: `ReleaseSigning`, `SignerService`, `ArtifactUpload`, `Defaults`, `Licenses`,
   `Accounts`, `OtaUpdates`, `Startup` and `SigningContract`; proofs of all their safety
   properties and of the refinement.
2. Next: theorems that are stronger than the runs' properties where the inductive
   invariants already carry them, such as the exclusion of lock holders as a property of its own;
   the composition of `ArtifactUpload` and `ReleaseSigning` over the artifacts table.
3. The managed signer client as a step of `ReleaseSigning` that holds an approval made for
   metadata which has changed since.
