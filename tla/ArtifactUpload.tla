--------------------------- MODULE ArtifactUpload ---------------------------
(***************************************************************************)
(* uploadArtifact (app/services/artifact_service.ts) against one storage   *)
(* provider: quota reservations in PostgreSQL, the object store, the       *)
(* artifact row, compensation after a failure and the clean-up of          *)
(* reservations that a stopped process left behind.                        *)
(*                                                                         *)
(* The object of upload u is artifacts/<u>/payload.  Everything here is    *)
(* scoped by the provider's id, so one provider is modelled.               *)
(***************************************************************************)
EXTENDS Naturals, FiniteSets

CONSTANTS
    Upload,        \* artifact ids (randomUUID: never used twice)
    Size,          \* sizes of the uploaded files
    Quota,         \* the values of quota_bytes; 0 is unlimited
    Worker,        \* uploads in flight at once
    Batch,         \* reservations cleaned up per round (100)
    Ttl,           \* lifetime of a reservation, in ticks (7 days)
    MaxTime,       \* bound: the clock stops here
    Null

ASSUME BoundsAssumption ==
    /\ Size \subseteq Nat \ {0} /\ Quota \subseteq Nat
    /\ Batch \in Nat \ {0} /\ Ttl \in Nat \ {0} /\ MaxTime \in Nat
    /\ IsFiniteSet(Upload)

VARIABLES
    active,        \* storage_providers.is_active
    quota,         \* storage_providers.quota_bytes
    reservations,  \* table storage_upload_reservations
    artifacts,     \* the sizes of the rows of table artifacts (also soft-deleted)
    objects,       \* the uploads whose object the provider stores
    now,           \* the clock, in ticks
    used,          \* the ids randomUUID has returned
    req,           \* the upload each worker is executing
    lost           \* history: uploads whose storage.upload or COMMIT was done unanswered

vars == <<active, quota, reservations, artifacts, objects, now, used, req, lost>>

-----------------------------------------------------------------------------

Time == 0..(MaxTime + Ttl)
Reservation == [size: Size, expires: Time]

\* No upload, no artifact row and no reservation.
ASSUME NullAssumption == Null \notin Upload \cup Size \cup Reservation

Steps == {"idle", "clean.read", "clean.objects", "clean.rows", "reserve", "reserve.insert",
          "put", "insert", "undo", "release"}

Request == [pc: Steps, id: Upload \cup {Null}, size: Size \cup {0}, t: Time,
            batch: SUBSET Upload, todo: SUBSET Upload, usage: Nat]

Idle == [pc |-> "idle", id |-> Null, size |-> 0, t |-> 0, batch |-> {}, todo |-> {},
         usage |-> 0]

At(w, step) == req[w].pc = step
Become(w, r) == req' = [req EXCEPT ![w] = r]
Goto(w, step) == Become(w, [req[w] EXCEPT !.pc = step])
Finish(w) == Become(w, Idle)

Reserved == {u \in Upload : reservations[u] # Null}
Stored == {u \in Upload : artifacts[u] # Null}
Expired(t) == {u \in Reserved : reservations[u].expires <= t}

\* COALESCE(SUM(size_bytes), 0) of each table, as the number of bytes it accounts for.
Bytes(u, size) == {u} \X (1..size)
ArtifactBytes == UNION {Bytes(u, artifacts[u]) : u \in Stored}
ReservedBytes(t) == UNION {Bytes(u, reservations[u].size) : u \in Reserved \ Expired(t)}
ArtifactsUsage == Cardinality(ArtifactBytes)
ReservationsUsage(t) == Cardinality(ReservedBytes(t))

\* SELECT ... FOR UPDATE of the provider row, held by a reserveQuota transaction.
ProviderLocked == \E w \in Worker : At(w, "reserve.insert")

-----------------------------------------------------------------------------
(* uploadArtifact: checks and cleanupExpiredReservations *)

Begin(w) ==
    /\ At(w, "idle")
    /\ active
    /\ \E u \in Upload, size \in Size :
        /\ u \notin used
        /\ used' = used \cup {u}
        /\ Become(w, [Idle EXCEPT !.pc = "clean.read", !.id = u, !.size = size, !.t = now])
    /\ UNCHANGED <<active, quota, reservations, artifacts, objects, now, lost>>

\* The reservations that expired first, at most Batch of them, until none is left.
CleanRead(w) ==
    LET expired == Expired(req[w].t)
        size == IF Cardinality(expired) < Batch THEN Cardinality(expired) ELSE Batch
    IN  /\ At(w, "clean.read")
        /\ \E batch \in SUBSET expired :
            /\ Cardinality(batch) = size
            /\ \A u \in batch, v \in expired \ batch :
                  reservations[u].expires <= reservations[v].expires
            /\ Become(w, [req[w] EXCEPT !.batch = batch, !.todo = batch,
                  !.pc = IF batch = {} THEN "reserve" ELSE "clean.objects"])
        /\ UNCHANGED <<active, quota, reservations, artifacts, objects, now, used, lost>>

\* storage.delete of one reservation's object; deleting a missing one succeeds.
CleanObject(w) ==
    /\ At(w, "clean.objects")
    /\ \E u \in req[w].todo :
        /\ objects' = objects \ {u}
        /\ Become(w, [req[w] EXCEPT !.todo = @ \ {u},
              !.pc = IF req[w].todo = {u} THEN "clean.rows" ELSE @])
    /\ UNCHANGED <<active, quota, reservations, artifacts, now, used, lost>>

CleanRows(w) ==
    /\ At(w, "clean.rows")
    /\ reservations' = [u \in Upload |->
          IF u \in req[w].batch \cap Expired(req[w].t) THEN Null ELSE reservations[u]]
    /\ Goto(w, "clean.read")
    /\ UNCHANGED <<active, quota, artifacts, objects, now, used, lost>>

-----------------------------------------------------------------------------
(* reserveQuota *)

\* Lock the provider row, fix the transaction's now, sum the artifact rows.
ReserveLock(w) ==
    /\ At(w, "reserve")
    /\ ~ProviderLocked
    /\ active
    /\ Become(w, [req[w] EXCEPT !.pc = "reserve.insert", !.t = now, !.usage = ArtifactsUsage])
    /\ UNCHANGED <<active, quota, reservations, artifacts, objects, now, used, lost>>

\* Mutant: the reservation has no expiry.
ReserveForever(w) ==
    LET r == req[w]
        usage == r.usage + ReservationsUsage(r.t)
    IN  /\ At(w, "reserve.insert")
        /\ quota > 0 => usage * 100 < 95 * quota /\ usage + r.size <= quota
        /\ reservations' = [reservations EXCEPT ![r.id] = [size |-> r.size, expires |-> Null]]
        /\ Goto(w, "put")
        /\ UNCHANGED <<active, quota, artifacts, objects, now, used, lost>>

\* Sum the reservations, compare with the quota, insert and commit.
ReserveInsert(w) ==
    LET r == req[w]
        usage == r.usage + ReservationsUsage(r.t)
    IN  /\ At(w, "reserve.insert")
        /\ quota > 0 => usage * 100 < 95 * quota /\ usage + r.size <= quota
        /\ reservations' = [reservations EXCEPT ![r.id] =
              [size |-> r.size, expires |-> r.t + Ttl]]
        /\ Goto(w, "put")
        /\ UNCHANGED <<active, quota, artifacts, objects, now, used, lost>>

-----------------------------------------------------------------------------
(* The object, the artifact row and the compensation *)

\* storage.upload: stored, or an error.  A provider behind a network may have
\* stored the object although the answer got lost.
Put(w) ==
    /\ At(w, "put")
    /\ \/ objects' = objects \cup {req[w].id} /\ Goto(w, "insert") /\ UNCHANGED lost
       \/ objects' = objects /\ Goto(w, "release") /\ UNCHANGED lost
       \/ /\ objects' = objects \cup {req[w].id}
          /\ Goto(w, "release")
          /\ lost' = lost \cup {req[w].id}
    /\ UNCHANGED <<active, quota, reservations, artifacts, now, used>>

\* Mutant: the insert does not lock the provider row it refers to.
InsertWithoutKeyLock(w) ==
    LET r == req[w]
    IN  /\ At(w, "insert")
        /\ artifacts' = [artifacts EXCEPT ![r.id] = r.size]
        /\ reservations' = [reservations EXCEPT ![r.id] = Null]
        /\ Finish(w)
        /\ UNCHANGED <<active, quota, objects, now, used, lost>>

\* Artifact.create and the delete of the reservation commit together.  The
\* foreign key to storage_providers takes a key-share lock on the provider row,
\* which waits for a reserveQuota transaction.  A unique index, a vanished row or
\* a database error rolls back; the answer of a successful commit may get lost.
Insert(w) ==
    LET r == req[w]
        commit == /\ artifacts' = [artifacts EXCEPT ![r.id] = r.size]
                  /\ reservations' = [reservations EXCEPT ![r.id] = Null]
    IN  /\ At(w, "insert")
        /\ ~ProviderLocked
        /\ \/ commit /\ Finish(w) /\ UNCHANGED lost
           \/ UNCHANGED <<artifacts, reservations, lost>> /\ Goto(w, "undo")
           \/ commit /\ Goto(w, "undo") /\ lost' = lost \cup {r.id}
        /\ UNCHANGED <<active, quota, objects, now, used>>

\* Mutant: a failed delete is taken for a successful one.
UndoAlwaysReleases(w) ==
    /\ At(w, "undo")
    /\ \E deleted \in BOOLEAN :
        /\ objects' = IF deleted THEN objects \ {req[w].id} ELSE objects
        /\ Goto(w, "release")
    /\ UNCHANGED <<active, quota, reservations, artifacts, now, used, lost>>

\* The compensating storage.delete; when it fails the reservation stays.
Undo(w) ==
    /\ At(w, "undo")
    /\ \/ objects' = objects \ {req[w].id} /\ Goto(w, "release")
       \/ objects' = objects /\ Finish(w)
    /\ UNCHANGED <<active, quota, reservations, artifacts, now, used, lost>>

\* The reservation is deleted; an error is swallowed.
Release(w) ==
    /\ At(w, "release")
    /\ \/ reservations' = [reservations EXCEPT ![req[w].id] = Null]
       \/ UNCHANGED reservations
    /\ Finish(w)
    /\ UNCHANGED <<active, quota, artifacts, objects, now, used, lost>>

\* A step before the try block throws, or the process stops at any step: nothing
\* is compensated and an open transaction rolls back.
Stop(w) ==
    /\ ~At(w, "idle")
    /\ Finish(w)
    /\ UNCHANGED <<active, quota, reservations, artifacts, objects, now, used, lost>>

-----------------------------------------------------------------------------
(* The environment *)

\* activateProvider: the provider is never deactivated again.  Both updates of
\* the provider row wait for its lock.
ActivateProvider ==
    /\ ~ProviderLocked
    /\ active' = TRUE
    /\ UNCHANGED <<quota, reservations, artifacts, objects, now, used, req, lost>>

\* updateProvider: an administrator changes the quota, perhaps below the usage.
UpdateProvider ==
    /\ ~ProviderLocked
    /\ quota' \in Quota
    /\ UNCHANGED <<active, reservations, artifacts, objects, now, used, req, lost>>

\* No upload outlives its reservation of seven days.
Tick ==
    /\ now < MaxTime
    /\ \A w \in Worker : ~At(w, "idle") => now + 1 < req[w].t + Ttl
    /\ now' = now + 1
    /\ UNCHANGED <<active, quota, reservations, artifacts, objects, used, req, lost>>

-----------------------------------------------------------------------------

Init ==
    /\ active \in BOOLEAN
    /\ quota \in Quota
    /\ reservations = [u \in Upload |-> Null]
    /\ artifacts = [u \in Upload |-> Null]
    /\ objects = {}
    /\ now = 0
    /\ used = {}
    /\ req = [w \in Worker |-> Idle]
    /\ lost = {}

UploadStep(w) ==
    \/ Begin(w) \/ CleanRead(w) \/ CleanObject(w) \/ CleanRows(w)
    \/ ReserveLock(w) \/ ReserveInsert(w)
    \/ Put(w) \/ Insert(w) \/ Undo(w) \/ Release(w)

Next ==
    \/ \E w \in Worker : UploadStep(w) \/ Stop(w)
    \/ ActivateProvider
    \/ UpdateProvider
    \/ Tick

Spec == Init /\ [][Next]_vars

-----------------------------------------------------------------------------
(* Properties *)

\* Tables, objects and requests hold values of their types.
TypeOK ==
    /\ active \in BOOLEAN
    /\ quota \in Quota
    /\ reservations \in [Upload -> Reservation \cup {Null}]
    /\ artifacts \in [Upload -> Size \cup {Null}]
    /\ objects \subseteq Upload
    /\ now \in 0..MaxTime
    /\ used \subseteq Upload
    /\ req \in [Worker -> Request]
    /\ lost \subseteq Upload

\* What the artifact rows and the live reservations take of the quota.
Usage == ArtifactsUsage + ReservationsUsage(now)

\* However uploads, failures, clean-ups and quota changes interleave, no step
\* lets the usage grow beyond the quota in force, although reserveQuota sums the
\* two tables with two statements.
QuotaRespected == [][Usage' > Usage => quota = 0 \/ Usage' <= quota]_vars

\* Database and object store agree wherever a process stopped.  An artifact row is
\* never left without its object: neither compensation nor the repeated clean-up
\* deletes the object of a stored artifact.  An object without an artifact row has a
\* reservation, through which a later upload finds and deletes it.  The exceptions
\* are the uploads of which the answer of COMMIT or of storage.upload got lost, so
\* that the compensation could not know.
RowsMatchObjects ==
    /\ Stored \ lost \subseteq objects
    /\ objects \subseteq Stored \cup Reserved \cup lost
=============================================================================
