----------------------------- MODULE MediaLibrary -----------------------------
(***************************************************************************)
(* One image of the media library: its row in upload_assets, the objects   *)
(* in storage, the resources that refer to it, and the jobs that delete    *)
(* its objects (services/mediaAssets.js, routes/upload.js, routes/media.js,*)
(* scripts/cleanup-media.js).                                              *)
(*                                                                         *)
(* A resource is saved in one transaction, but it checks the image without *)
(* a lock before it refers to it, and two resources that drop it cannot    *)
(* see each other's work.  Storage is outside every transaction.  Left out *)
(* are the grace period (an orphan may be old enough at any time) and a    *)
(* change of the configured storage, after which its jobs are given up.    *)
(***************************************************************************)
EXTENDS Naturals

CONSTANTS
    MediaObject,    \* the stored variants of the image
    Resource,       \* products, categories, ... that may show it
    Cleaner,        \* runs of processCleanupJobs
    JobAttempts,    \* attempts of a deletion job (10 in the code)
    MaxMediaFaults  \* bound: lost acknowledgements, overtaken and dead cleaners

ASSUME MediaAssumption ==
    /\ JobAttempts \in Nat \ {0}
    /\ MaxMediaFaults \in Nat

VARIABLES
    asset,       \* upload_assets.status; "new" before the upload, "none" after a failed one
    refs,        \* media_references: the resources that refer to the image
    stored,      \* the objects that are in storage
    jobs,        \* media_cleanup_jobs, by object; its own if asset_id names the image
    savers,      \* how far each resource's transaction is
    cleaners,    \* what each run of processCleanupJobs still has to do
    mediaFaults

mediaVars == <<asset, refs, stored, jobs, savers, cleaners, mediaFaults>>

NoJob == [st |-> "none", attempts |-> 0, own |-> FALSE]
NewJob(own) == [st |-> "pending", attempts |-> 0, own |-> own]
Owned == {o \in MediaObject : jobs[o].own}
Usable == asset \in {"ready", "orphan_candidate"}

Fault == mediaFaults < MaxMediaFaults /\ mediaFaults' = mediaFaults + 1

\* deleteObjectsBestEffort leaves some objects; enqueueCleanupObjects adds jobs for them, for
\* the image if the error names it, until it fails, unheard, or the process is gone.
TakeBack(left, named) ==
    /\ stored' = left
    /\ \E queued \in SUBSET left :
         jobs' = [o \in MediaObject |->
            IF o \in queued THEN NewJob(named) ELSE NoJob]

-----------------------------------------------------------------------------
(* routes/upload.js *)

\* createPendingAsset, uploadPreparedAsset, commit.
UploadAsset ==
    /\ asset = "new"
    /\ asset' = "ready"
    /\ stored' = MediaObject
    /\ UNCHANGED <<refs, jobs, savers, cleaners, mediaFaults>>

\* The upload fails after some objects were stored; its rows roll back, and the error names the
\* image if the row was written.
UploadFails ==
    /\ asset = "new"
    /\ asset' = "none"
    /\ \E left \in SUBSET MediaObject, named \in BOOLEAN : TakeBack(left, named)
    /\ UNCHANGED <<refs, savers, cleaners, mediaFaults>>

\* The commit succeeds and its answer is lost: the objects of a ready image are taken back, and
\* the error of a commit names no image.
UploadUnacknowledged ==
    /\ asset = "new"
    /\ Fault
    /\ asset' = "ready"
    /\ \E left \in SUBSET MediaObject : TakeBack(left, FALSE)
    /\ UNCHANGED <<refs, savers, cleaners>>

-----------------------------------------------------------------------------
(* syncMediaReferences, in the transaction that saves a resource *)

\* The image must be usable; the row is not locked.
CheckAsset(r) ==
    /\ savers[r] = "idle"
    /\ Usable
    /\ savers' = [savers EXCEPT ![r] = "checked"]
    /\ UNCHANGED <<asset, refs, stored, jobs, cleaners, mediaFaults>>

\* The reference is written, the image is ready whatever it was, commit.
WriteReference(r) ==
    /\ savers[r] = "checked"
    /\ refs' = refs \cup {r}
    /\ asset' = "ready"
    /\ savers' = [savers EXCEPT ![r] = "idle"]
    /\ UNCHANGED <<stored, jobs, cleaners, mediaFaults>>

\* The resource drops the image: is it an orphan now?  References that other transactions
\* are dropping still count, and ones they are writing do not.
DropReference(r) ==
    /\ savers[r] = "idle"
    /\ r \in refs
    /\ savers' = [savers EXCEPT ![r] =
          IF refs = {r} /\ asset = "ready" THEN "orphaning" ELSE "dropping"]
    /\ UNCHANGED <<asset, refs, stored, jobs, cleaners, mediaFaults>>

\* ... commit.
CommitDrop(r) ==
    /\ savers[r] \in {"orphaning", "dropping"}
    /\ refs' = refs \ {r}
    /\ asset' = IF savers[r] = "orphaning" /\ asset = "ready" THEN "orphan_candidate" ELSE asset
    /\ savers' = [savers EXCEPT ![r] = "idle"]
    /\ UNCHANGED <<stored, jobs, cleaners, mediaFaults>>

\* The request fails; its transaction rolls back.
AbandonSave(r) ==
    /\ savers[r] # "idle"
    /\ savers' = [savers EXCEPT ![r] = "idle"]
    /\ UNCHANGED <<asset, refs, stored, jobs, cleaners, mediaFaults>>

-----------------------------------------------------------------------------
(* Deletion *)

\* queueAssetDeletion, for the DELETE route and for the orphans of cleanup-media.js: the row
\* is locked and its references are counted.  The upsert leaves a completed job so and takes up
\* any other again, but leaves it to whom it was: only a new job is the image's own.
QueueAssetDeletion ==
    /\ asset \in {"ready", "orphan_candidate", "deleting"}
    /\ refs = {}
    /\ asset' = "deleting"
    /\ jobs' = [o \in MediaObject |->
          CASE jobs[o].st = "none" -> NewJob(TRUE)
            [] jobs[o].st = "completed" -> jobs[o]
            [] OTHER -> [jobs[o] EXCEPT !.st = "pending"]]
    /\ UNCHANGED <<refs, stored, savers, cleaners, mediaFaults>>

HeldByOthers(w, o) == \E v \in Cleaner \ {w} : o \in cleaners[v]

\* processCleanupJobs claims every due job, or none: cleanup-media.js among all, the DELETE
\* route among the image's own.  A job that is processing is due when its lease of five minutes
\* ran out: its cleaner died or, a fault, is slow.
ClaimJobs(w) ==
    LET among(scope, st) == {o \in scope : jobs[o].st = st}
        claim(due) ==
            /\ jobs' = [o \in MediaObject |->
                  IF o \in due THEN [jobs[o] EXCEPT !.st = "processing"] ELSE jobs[o]]
            /\ cleaners' = [cleaners EXCEPT ![w] = due]
    IN /\ cleaners[w] = {}
       /\ \E scope \in {MediaObject, Owned} :
            LET waiting == among(scope, "pending")
                stale == among(scope, "processing")
            IN \/ /\ claim(waiting \cup {o \in stale : ~HeldByOthers(w, o)})
                  /\ UNCHANGED mediaFaults
               \/ /\ \E o \in stale : HeldByOthers(w, o)
                  /\ claim(waiting \cup stale)
                  /\ Fault
       /\ UNCHANGED <<asset, refs, stored, savers>>

\* One object of the batch: deleted, or the request failed before or after it took effect.
DeleteObject(w, o) ==
    LET attempted == [jobs EXCEPT ![o].attempts = IF @ < JobAttempts THEN @ + 1 ELSE @]
        last == jobs[o].attempts + 1 >= JobAttempts
        done(st) == jobs' = [attempted EXCEPT ![o].st = st]
    IN /\ o \in cleaners[w]
       /\ cleaners' = [cleaners EXCEPT ![w] = @ \ {o}]
       /\ \/ stored' = stored \ {o} /\ done("completed")
          \/ stored' \in {stored, stored \ {o}} /\ done(IF last THEN "dead_letter" ELSE "pending")
       /\ UNCHANGED <<asset, refs, savers, mediaFaults>>

\* Mutant of FinalizeDeletion: a job that gave up counts as done.
FinalizeAnyway(w) ==
    /\ cleaners[w] = {}
    /\ asset' = IF asset = "deleting" /\ \A o \in Owned : jobs[o].st \in {"completed", "dead_letter"}
                THEN "deleted" ELSE asset
    /\ UNCHANGED <<refs, stored, jobs, savers, cleaners, mediaFaults>>

\* The batch is done, or was empty: an image is deleted when no job of its own is open,
\* whatever became of jobs for its objects that do not name it.
FinalizeDeletion(w) ==
    /\ cleaners[w] = {}
    /\ asset' = IF asset = "deleting" /\ \A o \in Owned : jobs[o].st = "completed"
                THEN "deleted" ELSE asset
    /\ UNCHANGED <<refs, stored, jobs, savers, cleaners, mediaFaults>>

\* The process of a cleaner stops.
CleanerCrash(w) ==
    /\ Fault
    /\ cleaners[w] # {}
    /\ cleaners' = [cleaners EXCEPT ![w] = {}]
    /\ UNCHANGED <<asset, refs, stored, jobs, savers>>

-----------------------------------------------------------------------------
MediaInit ==
    /\ asset = "new"
    /\ refs = {}
    /\ stored = {}
    /\ jobs = [o \in MediaObject |-> NoJob]
    /\ savers = [r \in Resource |-> "idle"]
    /\ cleaners = [w \in Cleaner |-> {}]
    /\ mediaFaults = 0

MediaNext ==
    \/ UploadAsset \/ UploadFails \/ UploadUnacknowledged
    \/ QueueAssetDeletion
    \/ \E r \in Resource :
         CheckAsset(r) \/ WriteReference(r) \/ DropReference(r) \/ CommitDrop(r) \/ AbandonSave(r)
    \/ \E w \in Cleaner :
         \/ ClaimJobs(w) \/ FinalizeDeletion(w) \/ CleanerCrash(w)
         \/ \E o \in MediaObject : DeleteObject(w, o)

MediaSpec == MediaInit /\ [][MediaNext]_mediaVars

-----------------------------------------------------------------------------
(* Properties *)

\* Image, jobs, savers and cleaners hold values the tables and the code know.
MediaTypeOK ==
    /\ asset \in {"new", "none", "ready", "orphan_candidate", "deleting", "deleted"}
    /\ refs \subseteq Resource /\ stored \subseteq MediaObject
    /\ jobs \in [MediaObject -> [st : {"none", "pending", "processing", "completed", "dead_letter"},
                                 attempts : 0..JobAttempts, own : BOOLEAN]]
    /\ savers \in [Resource -> {"idle", "checked", "orphaning", "dropping"}]
    /\ cleaners \in [Cleaner -> SUBSET MediaObject]
    /\ mediaFaults \in 0..MaxMediaFaults

\* However the jobs of an image failed, were overtaken or died between the storage and the
\* database: when it is called deleted, what is still in storage is on the list of objects to
\* delete, open or given up, by a job that a lost answer to the upload's commit cut off from
\* the image.
DeletedIsListed ==
    asset = "deleted" =>
        \A o \in stored : jobs[o].st \notin {"none", "completed"} /\ ~jobs[o].own
=============================================================================
