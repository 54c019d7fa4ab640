---------------------------- MODULE CatalogueProofs ----------------------------
(***************************************************************************)
(* Theorems about the parts of the store's catalogue that several people   *)
(* and workers change: Instagram drafts, images, themes, reviews, stock.   *)
(* They hold for any number of them.                                       *)
(*                                                                         *)
(* Each rests on an invariant of its own.  InstagramDrafts: an analysis is *)
(* alone on its draft, and the first product is of the draft that says     *)
(* applied.  MediaLibrary: a job that completed left no object, and an     *)
(* image that is being deleted gave each of its objects a job.             *)
(* ThemeVersions: a request that writes has what it writes locked.         *)
(* Reviews and ProductStock: what a recount or a sum that nobody overtook  *)
(* has seen is what its commit makes true.                                 *)
(***************************************************************************)
EXTENDS CatalogueServices, TLAPS, FiniteSetTheorems

-----------------------------------------------------------------------------
(* InstagramDrafts *)

\* A draft that says applied belongs to a post that says so.
AppliedTogether == draft.st = "applied" => media = "applied"

\* The transaction of processDraft is alone, on a draft that is being analysed.
AnalysisIsAlone ==
    \A w \in Analyst : analysts[w] = "analyzing" =>
        /\ draft.st = "analyzing"
        /\ \A v \in Analyst : analysts[v] = "analyzing" => v = w

\* The first product is the one of a draft that still says applied.
AppliedIsFirst == products <= forced + undone + (IF draft.st = "applied" THEN 1 ELSE 0)

\* The inductive invariant of InstagramDrafts.
DraftInv == DraftTypeOK /\ AppliedTogether /\ AnalysisIsAlone /\ AppliedIsFirst

\* The invariant of InstagramDrafts holds throughout.
LEMMA DraftInductive == DraftSpec => []DraftInv
<1> USE DraftAssumption
<1>1. DraftInit => DraftInv
  <2> SUFFICES ASSUME DraftInit PROVE DraftInv
      OBVIOUS
  <2>1. draft \in [st : DraftStatuses, attempts : 0..DraftAttempts, complete : BOOLEAN]
      BY DEF DraftInit, DraftStatuses
  <2>2. DraftTypeOK
      BY <2>1 DEF DraftInit, DraftTypeOK, MediaStatuses
  <2> QED
      BY <2>2 DEF DraftInit, DraftInv, AppliedTogether, AnalysisIsAlone, AppliedIsFirst
<1>2. DraftInv /\ [DraftNext]_draftVars => DraftInv'
  <2> SUFFICES ASSUME DraftInv, [DraftNext]_draftVars PROVE DraftInv'
      OBVIOUS
  <2> USE DEF DraftInv
  <2>t. /\ draft \in [st : DraftStatuses, attempts : 0..DraftAttempts, complete : BOOLEAN]
        /\ products \in Nat /\ undone \in Nat /\ forced \in Nat
      BY DEF DraftTypeOK
  <2>1. ASSUME NEW force \in BOOLEAN, QueueAnalysis(force) PROVE DraftInv'
    <3>1. /\ draft' \in [st : DraftStatuses, attempts : 0..DraftAttempts, complete : BOOLEAN]
          /\ draft'.st = "pending"
      <4>1. 0 \in 0..DraftAttempts /\ "pending" \in DraftStatuses
          BY DEF DraftStatuses
      <4>2. draft' = [draft EXCEPT !.st = "pending", !.attempts = 0]
          BY <2>1 DEF QueueAnalysis
      <4> QED
          BY <2>t, <4>1, <4>2
    <3>2. /\ forced' \in 0..MaxForced
          /\ draft.st = "applied" => forced' = forced + 1
          /\ forced' >= forced
        BY <2>1, <2>t DEF QueueAnalysis, DraftTypeOK, AppliedTogether
    <3>3. DraftTypeOK'
        BY <2>1, <3>1, <3>2 DEF QueueAnalysis, DraftTypeOK, MediaStatuses
    <3>4. AppliedTogether' /\ AnalysisIsAlone'
        BY <2>1, <3>1 DEF QueueAnalysis, AppliedTogether, AnalysisIsAlone, Locked
    <3>5. AppliedIsFirst'
        BY <2>1, <2>t, <3>1, <3>2 DEF QueueAnalysis, AppliedIsFirst, DraftTypeOK
    <3> QED
        BY <3>3, <3>4, <3>5
  <2>2. ASSUME NEW e \in Editor, ReadDraft(e) PROVE DraftInv'
      BY <2>2 DEF ReadDraft, DraftTypeOK, AppliedTogether, AnalysisIsAlone, AppliedIsFirst
  <2>3. ASSUME NEW e \in Editor, UpdateDraft(e) PROVE DraftInv'
    <3>1. /\ draft' \in [st : DraftStatuses, attempts : 0..DraftAttempts, complete : BOOLEAN]
          /\ draft'.st = "ready"
        BY <2>3, <2>t DEF UpdateDraft, DraftStatuses
    <3>2. undone' \in Nat /\ undone' = undone + (IF draft.st = "applied" THEN 1 ELSE 0)
        BY <2>3, <2>t DEF UpdateDraft, Overwrite
    <3>3. DraftTypeOK'
        BY <2>3, <3>1, <3>2 DEF UpdateDraft, DraftTypeOK
    <3>4. AppliedTogether' /\ AnalysisIsAlone'
        BY <2>3, <3>1 DEF UpdateDraft, AppliedTogether, AnalysisIsAlone, Locked
    <3>5. AppliedIsFirst'
        BY <2>3, <2>t, <3>1, <3>2 DEF UpdateDraft, AppliedIsFirst
    <3> QED
        BY <3>3, <3>4, <3>5
  <2>4. ASSUME DiscardDraft \/ ApplyDraft PROVE DraftInv'
    <3>1. /\ draft' \in [st : DraftStatuses, attempts : 0..DraftAttempts, complete : BOOLEAN]
          /\ draft.st # "applied"
          /\ \/ draft'.st = "discarded" /\ media' = "skipped" /\ products' = products
             \/ draft'.st = "applied" /\ media' = "applied" /\ products' = products + 1
        BY <2>4, <2>t DEF DiscardDraft, ApplyDraft, DraftStatuses
    <3>2. /\ ~Locked /\ UNCHANGED <<analysts, editors, forced, draftFaults, undone>>
        BY <2>4 DEF DiscardDraft, ApplyDraft
    <3>3. DraftTypeOK'
        BY <2>t, <3>1, <3>2 DEF DraftTypeOK, MediaStatuses
    <3>4. AppliedTogether' /\ AnalysisIsAlone'
        BY <3>1, <3>2 DEF AppliedTogether, AnalysisIsAlone, Locked
    <3>5. AppliedIsFirst'
        BY <2>t, <3>1, <3>2 DEF AppliedIsFirst
    <3> QED
        BY <3>3, <3>4, <3>5
  <2>5. ASSUME NEW w \in Analyst, ClaimDraft(w) PROVE DraftInv'
    <3>1. /\ draft' \in [st : DraftStatuses, attempts : 0..DraftAttempts, complete : BOOLEAN]
          /\ draft'.st = "analyzing" /\ draft.st # "applied"
      <4>1. draft.attempts + 1 \in 0..DraftAttempts /\ "analyzing" \in DraftStatuses
          BY <2>5, <2>t DEF ClaimDraft, DraftStatuses
      <4>2. /\ draft' = [draft EXCEPT !.st = "analyzing", !.attempts = draft.attempts + 1]
            /\ draft.st # "applied"
          BY <2>5, <2>t DEF ClaimDraft
      <4> QED
          BY <2>t, <4>1, <4>2
    <3>2. /\ draftFaults' \in 0..MaxDraftFaults
          /\ analysts' = [analysts EXCEPT ![w] = "claimed"]
          /\ UNCHANGED <<media, editors, products, forced, undone>>
        BY <2>5 DEF ClaimDraft, Slow, DraftTypeOK
    <3>3. DraftTypeOK' /\ AppliedTogether'
        BY <3>1, <3>2 DEF DraftTypeOK, AppliedTogether
    <3>4. AnalysisIsAlone'
        BY <3>1, <3>2 DEF AnalysisIsAlone, DraftTypeOK
    <3>5. AppliedIsFirst'
        BY <2>t, <3>1, <3>2 DEF AppliedIsFirst
    <3> QED
        BY <3>3, <3>4, <3>5
  <2>6. ASSUME NEW w \in Analyst, StartAnalysis(w) PROVE DraftInv'
      BY <2>6 DEF StartAnalysis, Locked, DraftTypeOK, AppliedTogether, AnalysisIsAlone,
                  AppliedIsFirst
  <2>7. ASSUME NEW w \in Analyst, FinishAnalysis(w) PROVE DraftInv'
    <3>1. /\ draft' \in [st : DraftStatuses, attempts : 0..DraftAttempts, complete : BOOLEAN]
          /\ draft'.st \in {"discarded", "needs_review", "ready"}
          /\ media' \in {"skipped", "needs_review", "ready"}
        BY <2>7, <2>t DEF FinishAnalysis, DraftStatuses
    <3>2. draft.st = "analyzing" /\ \A v \in Analyst \ {w} : analysts[v] # "analyzing"
        BY <2>7 DEF FinishAnalysis, AnalysisIsAlone
    <3>3. /\ analysts' = [analysts EXCEPT ![w] = "idle"]
          /\ UNCHANGED <<editors, products, forced, draftFaults, undone>>
        BY <2>7 DEF FinishAnalysis
    <3>4. DraftTypeOK' /\ AppliedTogether'
        BY <3>1, <3>3 DEF DraftTypeOK, AppliedTogether, MediaStatuses
    <3>5. AnalysisIsAlone'
        BY <3>2, <3>3 DEF AnalysisIsAlone, DraftTypeOK
    <3>6. AppliedIsFirst'
        BY <2>t, <3>1, <3>2, <3>3 DEF AppliedIsFirst
    <3> QED
        BY <3>4, <3>5, <3>6
  <2>8. ASSUME NEW w \in Analyst, FailAnalysis(w) \/ AnalystCrash(w) PROVE DraftInv'
    <3>1. /\ \E st \in {"idle", "transient", "permanent"} : analysts' = [analysts EXCEPT ![w] = st]
          /\ draftFaults' \in 0..MaxDraftFaults
          /\ UNCHANGED <<draft, media, editors, products, forced, undone>>
        BY <2>8 DEF FailAnalysis, AnalystCrash, DraftTypeOK
    <3> QED
        BY <3>1 DEF DraftTypeOK, AppliedTogether, AnalysisIsAlone, AppliedIsFirst
  <2>9. ASSUME NEW w \in Analyst, RecordDraftFailure(w) PROVE DraftInv'
    <3>1. /\ draft' \in [st : DraftStatuses, attempts : 0..DraftAttempts, complete : BOOLEAN]
          /\ draft'.st \in {"pending", "error"} /\ media' \in {"analyzing", "error"}
        BY <2>9, <2>t DEF RecordDraftFailure, DraftStatuses
    <3>2. undone' \in Nat /\ undone' = undone + (IF draft.st = "applied" THEN 1 ELSE 0)
        BY <2>9, <2>t DEF RecordDraftFailure, Overwrite
    <3>3. /\ ~Locked /\ analysts' = [analysts EXCEPT ![w] = "idle"]
          /\ UNCHANGED <<editors, products, forced, draftFaults>>
        BY <2>9 DEF RecordDraftFailure
    <3>4. DraftTypeOK' /\ AppliedTogether'
        BY <3>1, <3>2, <3>3 DEF DraftTypeOK, AppliedTogether, MediaStatuses
    <3>5. AnalysisIsAlone'
        BY <3>3 DEF AnalysisIsAlone, DraftTypeOK, Locked
    <3>6. AppliedIsFirst'
        BY <2>t, <3>1, <3>2, <3>3 DEF AppliedIsFirst
    <3> QED
        BY <3>4, <3>5, <3>6
  <2>10. CASE UNCHANGED draftVars
      BY <2>10 DEF draftVars, DraftTypeOK, AppliedTogether, AnalysisIsAlone, AppliedIsFirst
  <2> QED
      BY <2>1, <2>2, <2>3, <2>4, <2>5, <2>6, <2>7, <2>8, <2>9, <2>10 DEF DraftNext
<1> QED
    BY <1>1, <1>2, PTL DEF DraftSpec

\* A post makes one product, and one more for each analysis an administrator forced and each
\* late write over an applied draft (service.js, worker.js of modules/instagram).
THEOREM ProductsAreAccountedForHolds == DraftSpec => []ProductsAreAccountedFor
<1>1. DraftInv => ProductsAreAccountedFor
    BY DEF DraftInv, DraftTypeOK, AppliedIsFirst, ProductsAreAccountedFor
<1> QED
    BY <1>1, DraftInductive, PTL

-----------------------------------------------------------------------------
(* MediaLibrary *)

\* Before the upload there is nothing: no object, no job, and nothing a cleaner could hold.
NewHasNothing ==
    asset = "new" => stored = {} /\ \A o \in MediaObject : jobs[o].st = "none"

\* A completed job left no object, and what a cleaner holds has a job.
CompletedIsGone ==
    /\ \A o \in MediaObject : jobs[o].st = "completed" => o \notin stored
    /\ \A w \in Cleaner : \A o \in cleaners[w] : jobs[o].st # "none"

\* The deletion of an image gave each of its objects a job.
DeletingHasJobs == asset = "deleting" => \A o \in MediaObject : jobs[o].st # "none"

\* The inductive invariant of MediaLibrary.
MediaInv ==
    MediaTypeOK /\ NewHasNothing /\ CompletedIsGone /\ DeletingHasJobs /\ DeletedIsListed

\* Rows of media_cleanup_jobs.
JobRow == [st : {"none", "pending", "processing", "completed", "dead_letter"},
           attempts : 0..JobAttempts, own : BOOLEAN]

\* The invariant of MediaLibrary holds throughout.
LEMMA MediaInductive == MediaSpec => []MediaInv
<1> USE MediaAssumption
<1> USE DEF NewHasNothing, CompletedIsGone, DeletingHasJobs, DeletedIsListed
<1>j. NoJob \in JobRow /\ NoJob.st = "none"
    BY DEF NoJob, JobRow
<1>1. MediaInit => MediaInv
    BY <1>j DEF MediaInit, MediaInv, MediaTypeOK, JobRow
<1>2. MediaInv /\ [MediaNext]_mediaVars => MediaInv'
  <2> SUFFICES ASSUME MediaInv, [MediaNext]_mediaVars PROVE MediaInv'
      OBVIOUS
  <2> USE DEF MediaInv
  <2>t. jobs \in [MediaObject -> JobRow]
      BY DEF MediaTypeOK, JobRow
  <2>f. ASSUME Fault PROVE mediaFaults' \in 0..MaxMediaFaults
      BY <2>f DEF Fault, MediaTypeOK
  <2>1. ASSUME UploadAsset PROVE MediaInv'
      BY <2>1 DEF UploadAsset, MediaTypeOK
  <2>2. ASSUME UploadFails \/ UploadUnacknowledged PROVE MediaInv'
    <3>1. PICK left \in SUBSET MediaObject, named \in BOOLEAN : TakeBack(left, named)
        BY <2>2 DEF UploadFails, UploadUnacknowledged
    <3>2. /\ asset = "new" /\ asset' \in {"none", "ready"} /\ UNCHANGED <<refs, savers, cleaners>>
          /\ mediaFaults' \in 0..MaxMediaFaults
        BY <2>2, <2>f DEF UploadFails, UploadUnacknowledged, MediaTypeOK
    <3>3. NewJob(named) \in JobRow /\ NewJob(named).st = "pending"
        BY DEF JobRow, NewJob
    <3>4. /\ jobs' \in [MediaObject -> JobRow] /\ stored' = left
          /\ \A o \in MediaObject : jobs'[o].st \in {"none", "pending"}
        BY <1>j, <3>1, <3>3 DEF TakeBack
    <3>5. \A w \in Cleaner : cleaners[w] = {}
        BY <3>2 DEF MediaTypeOK
    <3> QED
        BY <3>2, <3>4, <3>5 DEF MediaTypeOK, JobRow
  <2>3. ASSUME NEW r \in Resource, CheckAsset(r) \/ WriteReference(r) \/ DropReference(r)
                                     \/ CommitDrop(r) \/ AbandonSave(r)
        PROVE  MediaInv'
    <3>1. /\ asset' = asset \/ asset' \in {"ready", "orphan_candidate"}
          /\ UNCHANGED <<stored, jobs, cleaners, mediaFaults>>
          /\ refs' \subseteq Resource
          /\ savers' \in [Resource -> {"idle", "checked", "orphaning", "dropping"}]
        BY <2>3 DEF CheckAsset, WriteReference, DropReference, CommitDrop, AbandonSave, MediaTypeOK
    <3> QED
        BY <3>1 DEF MediaTypeOK
  <2>4. ASSUME QueueAssetDeletion PROVE MediaInv'
    <3>0. NewJob(TRUE) \in JobRow /\ NewJob(TRUE).st = "pending"
        BY DEF JobRow, NewJob
    <3>1. \A o \in MediaObject : /\ [jobs[o] EXCEPT !.st = "pending"] \in JobRow
                                 /\ [jobs[o] EXCEPT !.st = "pending"].st = "pending"
        BY <2>t DEF JobRow
    <3>2. /\ jobs' \in [MediaObject -> JobRow]
          /\ \A o \in MediaObject : /\ jobs'[o].st \in {"completed", "pending"}
                                    /\ jobs'[o].st = "completed" => jobs[o].st = "completed"
      <4>1. ASSUME NEW o \in MediaObject
            PROVE  /\ jobs'[o] \in JobRow /\ jobs'[o].st \in {"completed", "pending"}
                   /\ jobs'[o].st = "completed" => jobs[o].st = "completed"
        <5>1. CASE jobs[o].st = "none"
            BY <2>4, <3>0, <5>1 DEF QueueAssetDeletion
        <5>2. CASE jobs[o].st = "completed"
            BY <2>4, <2>t, <5>2 DEF QueueAssetDeletion
        <5>3. CASE jobs[o].st \notin {"none", "completed"}
            BY <2>4, <3>1, <5>3 DEF QueueAssetDeletion
        <5> QED
            BY <5>1, <5>2, <5>3
      <4>2. DOMAIN jobs' = MediaObject /\ jobs' = [o \in MediaObject |-> jobs'[o]]
          BY <2>4 DEF QueueAssetDeletion
      <4> QED
          BY <4>1, <4>2
    <3> QED
        BY <2>4, <3>2 DEF QueueAssetDeletion, MediaTypeOK, JobRow
  <2>5. ASSUME NEW w \in Cleaner, ClaimJobs(w) PROVE MediaInv'
    <3>1. PICK due \in SUBSET MediaObject :
            /\ \A o \in due : jobs[o].st \in {"pending", "processing"}
            /\ jobs' = [o \in MediaObject |->
                  IF o \in due THEN [jobs[o] EXCEPT !.st = "processing"] ELSE jobs[o]]
            /\ cleaners' = [cleaners EXCEPT ![w] = due]
        BY <2>5 DEF ClaimJobs, Owned
    <3>2. mediaFaults' \in 0..MaxMediaFaults /\ UNCHANGED <<asset, refs, stored, savers>>
        BY <2>5, <2>f DEF ClaimJobs, MediaTypeOK
    <3>3. \A o \in MediaObject : /\ [jobs[o] EXCEPT !.st = "processing"] \in JobRow
                                 /\ [jobs[o] EXCEPT !.st = "processing"].st = "processing"
                                 /\ [jobs[o] EXCEPT !.st = "processing"].own = jobs[o].own
        BY <2>t DEF JobRow
    <3>4. /\ jobs' \in [MediaObject -> JobRow]
          /\ \A o \in MediaObject : /\ jobs'[o].st = IF o \in due THEN "processing" ELSE jobs[o].st
                                    /\ jobs'[o].own = jobs[o].own
        BY <2>t, <3>1, <3>3
    <3> QED
        BY <3>1, <3>2, <3>4 DEF MediaTypeOK, JobRow
  <2>6. ASSUME NEW w \in Cleaner, NEW o \in MediaObject, DeleteObject(w, o) PROVE MediaInv'
    <3>1. PICK st \in {"completed", "dead_letter", "pending"} :
            /\ jobs' = [[jobs EXCEPT ![o].attempts = IF @ < JobAttempts THEN @ + 1 ELSE @]
                          EXCEPT ![o].st = st]
            /\ st = "completed" => stored' = stored \ {o}
            /\ stored' \in {stored, stored \ {o}}
        BY <2>6 DEF DeleteObject
    <3>2. /\ o \in cleaners[w] /\ cleaners' = [cleaners EXCEPT ![w] = @ \ {o}]
          /\ UNCHANGED <<asset, refs, savers, mediaFaults>>
        BY <2>6 DEF DeleteObject
    <3>3. asset # "new"
        BY <3>2
    <3>4. jobs[o] \in JobRow
        BY <2>t
    <3>5. /\ jobs' \in [MediaObject -> JobRow] /\ jobs'[o].st = st /\ jobs'[o].own = jobs[o].own
          /\ \A p \in MediaObject \ {o} : jobs'[p] = jobs[p]
      <4> DEFINE mid == [jobs EXCEPT ![o].attempts = IF @ < JobAttempts THEN @ + 1 ELSE @]
      <4>1. mid \in [MediaObject -> JobRow] /\ mid[o].own = jobs[o].own
            /\ \A p \in MediaObject \ {o} : mid[p] = jobs[p]
          BY <2>t, <3>4 DEF JobRow
      <4>2. jobs' = [mid EXCEPT ![o].st = st]
          BY <3>1
      <4> HIDE DEF mid
      <4> QED
          BY <4>1, <4>2 DEF JobRow
    <3>6. cleaners' \in [Cleaner -> SUBSET MediaObject]
        BY <3>2 DEF MediaTypeOK
    <3>7. \A v \in Cleaner : cleaners'[v] \subseteq cleaners[v]
        BY <3>2 DEF MediaTypeOK
    <3>8. \A p \in MediaObject : jobs[p].st # "none" => jobs'[p].st # "none"
        BY <3>5
    <3>9. MediaTypeOK'
        BY <3>1, <3>2, <3>5, <3>6 DEF MediaTypeOK, JobRow
    <3>10. CompletedIsGone'
        BY <3>1, <3>5, <3>7, <3>8, <3>6 DEF MediaTypeOK
    <3>11. DeletedIsListed'
        BY <3>1, <3>2, <3>5 DEF MediaTypeOK
    <3> QED
        BY <3>1, <3>2, <3>3, <3>8, <3>9, <3>10, <3>11
  <2>7. ASSUME NEW w \in Cleaner, FinalizeDeletion(w) PROVE MediaInv'
    <3>1. asset' = "deleted" /\ asset # "deleted"
            => \A o \in stored : jobs[o].st \notin {"none", "completed"} /\ ~jobs[o].own
        BY <2>7 DEF FinalizeDeletion, Owned, MediaTypeOK
    <3>2. asset' \in {asset, "deleted"}
        BY <2>7 DEF FinalizeDeletion
    <3>3. cleaners' \in [Cleaner -> SUBSET MediaObject]
          /\ \A v \in Cleaner : cleaners'[v] = cleaners[v]
        BY <2>7 DEF FinalizeDeletion, MediaTypeOK
    <3> QED
        BY <2>7, <3>1, <3>2, <3>3 DEF FinalizeDeletion, MediaTypeOK
  <2>8. ASSUME NEW w \in Cleaner, CleanerCrash(w) PROVE MediaInv'
      BY <2>8, <2>f DEF CleanerCrash, MediaTypeOK
  <2>9. CASE UNCHANGED mediaVars
      BY <2>9 DEF mediaVars, MediaTypeOK
  <2> QED
      BY <2>1, <2>2, <2>3, <2>4, <2>5, <2>6, <2>7, <2>8, <2>9 DEF MediaNext
<1> QED
    BY <1>1, <1>2, PTL DEF MediaSpec

\* What an image that is called deleted left in storage is listed for deletion, by jobs that do
\* not name the image (mediaAssets.js).
THEOREM DeletedIsListedHolds == MediaSpec => []DeletedIsListed
<1>1. MediaInv => DeletedIsListed
    BY DEF MediaInv
<1> QED
    BY <1>1, MediaInductive, PTL

-----------------------------------------------------------------------------
(* ThemeVersions *)

\* Rows of the tables of versions and publications, and what a request knows.
ThemeRow == [st : {"draft", "published", "archived"}, config : Config]
PublicationRow == [version : Nat, previous : Nat, config : Config]
RequestRow ==
    [pc : {"idle", "copied", "locked", "read", "archived"},
     kind : {"create", "publish", "rollback"}, row : 0..MaxThemeVersions,
     old : 0..MaxThemeVersions, config : Config \cup {NoConfig}]

\* Tables, views and requests hold values of their kind, and a record names a version.
ThemeRows ==
    /\ themes \in Seq(ThemeRow) /\ Len(themes) <= MaxThemeVersions
    /\ publications \in Seq(PublicationRow) /\ publications # <<>>
    /\ \A i \in DOMAIN publications : publications[i].version \in DOMAIN themes
    /\ view \in [ThemeEditor -> Config \cup {NoConfig}]
    /\ request \in [ThemeEditor -> RequestRow]

\* One version is live, the one of the last record; there is one draft.
OneIsLive ==
    /\ \A v \in DOMAIN themes :
          themes[v].st = "published" <=> v = publications[Len(publications)].version
    /\ \A v, w \in DOMAIN themes : themes[v].st = "draft" /\ themes[w].st = "draft" => v = w

\* What was published is no draft again, keeps its configuration, and replaced the version
\* that was published before.
RecordsStand ==
    \A i \in DOMAIN publications :
        /\ themes[publications[i].version].st # "draft"
        /\ themes[publications[i].version].config = publications[i].config
        /\ publications[i].previous = IF i = 1 THEN 0 ELSE publications[i - 1].version

\* A request that publishes the draft has it locked, and its configuration is the one the
\* editor saw; one that rolls back copies a version that is no draft.  Neither archives a draft.
RequestKnows(e) ==
    LET q == request[e]
    IN /\ q.pc # "idle" => q.config \in Config
       /\ q.pc \in {"locked", "read", "archived"} =>
             /\ q.row \in DOMAIN themes /\ themes[q.row].config = q.config
             /\ q.kind \in {"publish", "rollback"}
             /\ q.kind = "publish" <=> themes[q.row].st = "draft"
       /\ q.pc \in {"read", "archived"} =>
             q.old \in DOMAIN themes /\ themes[q.old].st # "draft"

\* No two requests have the same row locked.
LocksAreApart ==
    \A e, f \in ThemeEditor : e # f => LockedRows(e) \cap LockedRows(f) = {}

\* The inductive invariant of ThemeVersions.
ThemeInv ==
    /\ ThemeRows /\ OneIsLive /\ RecordsStand /\ LocksAreApart
    /\ \A e \in ThemeEditor : RequestKnows(e)

\* The facts about the sets of versions.
LEMMA VersionSets ==
    ASSUME ThemeInv
    PROVE  /\ \A v : v \in TheDraft <=> v \in DOMAIN themes /\ themes[v].st = "draft"
           /\ Published = {publications[Len(publications)].version}
           /\ publications[Len(publications)].version \in DOMAIN themes
<1>1. Len(publications) \in DOMAIN publications
    BY DEF ThemeInv, ThemeRows
<1> QED
    BY <1>1 DEF ThemeInv, OneIsLive, ThemeRows, TheDraft, Published, InState

\* A request that stays, or becomes, one without locks, and leaves the tables alone.
LEMMA OnlyRequest ==
    ASSUME ThemeInv, NEW e \in ThemeEditor, NEW q \in RequestRow,
           request' = [request EXCEPT ![e] = q], UNCHANGED <<themes, publications, view>>,
           RequestKnows(e)', \A f \in ThemeEditor \ {e} : LockedRows(e)' \cap LockedRows(f) = {}
    PROVE  ThemeInv'
<1>1. ThemeRows' /\ OneIsLive' /\ RecordsStand'
    BY DEF ThemeInv, ThemeRows, OneIsLive, RecordsStand
<1>2. \A f \in ThemeEditor \ {e} : request'[f] = request[f]
    BY DEF ThemeInv, ThemeRows
<1>3. \A f \in ThemeEditor \ {e} : LockedRows(f)' = LockedRows(f)
    BY <1>2 DEF LockedRows
<1>4. LocksAreApart'
    BY <1>3 DEF ThemeInv, LocksAreApart
<1>5. \A f \in ThemeEditor : RequestKnows(f)'
    BY <1>2 DEF ThemeInv, RequestKnows
<1> QED
    BY <1>1, <1>4, <1>5 DEF ThemeInv

\* The first theme is live and recorded.
LEMMA ThemeInitially == ThemeInit => ThemeInv
<1> SUFFICES ASSUME ThemeInit PROVE ThemeInv
    OBVIOUS
<1> USE ThemeAssumption
<1>1. PICK config \in Config :
         /\ themes = <<[st |-> "published", config |-> config]>>
         /\ publications = <<[version |-> 1, previous |-> 0, config |-> config]>>
    BY DEF ThemeInit
<1>2. /\ themes \in Seq(ThemeRow) /\ Len(themes) = 1 /\ DOMAIN themes = {1}
      /\ themes[1].st = "published" /\ themes[1].config = config
    BY <1>1 DEF ThemeRow
<1>3. /\ publications \in Seq(PublicationRow) /\ Len(publications) = 1
      /\ DOMAIN publications = {1} /\ publications[1].version = 1
      /\ publications[1].previous = 0 /\ publications[1].config = config
    BY <1>1 DEF PublicationRow
<1>4. NoThemeRequest \in RequestRow /\ NoThemeRequest.pc = "idle"
    BY DEF NoThemeRequest, RequestRow
<1>5. ThemeRows
    BY <1>2, <1>3, <1>4 DEF ThemeRows, ThemeInit
<1>6. OneIsLive /\ RecordsStand
    BY <1>2, <1>3 DEF OneIsLive, RecordsStand
<1>7. \A e \in ThemeEditor : RequestKnows(e) /\ LockedRows(e) = {}
    BY <1>4 DEF ThemeInit, RequestKnows, LockedRows
<1> QED
    BY <1>5, <1>6, <1>7 DEF ThemeInv, LocksAreApart

\* The steps of a request that only read and lock keep the invariant.
LEMMA RequestSteps ==
    ASSUME ThemeInv, NEW e \in ThemeEditor,
           \/ CreateBegin(e) \/ PublishDraft(e) \/ ReadPublished(e) \/ ArchiveOld(e)
           \/ \E v \in 1..MaxThemeVersions : RollbackTo(e, v)
    PROVE  ThemeInv'
<1> USE ThemeAssumption
<1>q. /\ request[e] \in RequestRow /\ RequestKnows(e) /\ NoThemeRequest \in RequestRow
      /\ request \in [ThemeEditor -> RequestRow]
      /\ DOMAIN themes \subseteq 1..MaxThemeVersions
      /\ \A v \in DOMAIN themes : themes[v] \in ThemeRow
      /\ \A v \in DOMAIN themes : themes[v].config \in Config
  <2>1. NoThemeRequest \in RequestRow
      BY DEF NoThemeRequest, RequestRow
  <2>2. themes \in Seq(ThemeRow) /\ Len(themes) <= MaxThemeVersions
      BY DEF ThemeInv, ThemeRows
  <2>3. /\ DOMAIN themes = 1..Len(themes) /\ Len(themes) \in Nat
        /\ \A v \in DOMAIN themes : themes[v] \in ThemeRow
      BY <2>2
  <2>4. DOMAIN themes \subseteq 1..MaxThemeVersions
      BY <2>2, <2>3
  <2>5. \A v \in DOMAIN themes : themes[v].config \in Config
      BY <2>3 DEF ThemeRow
  <2> QED
      BY <2>1, <2>3, <2>4, <2>5 DEF ThemeInv, ThemeRows
<1>1. ASSUME CreateBegin(e) PROVE ThemeInv'
  <2>1. PICK v \in Published :
          request' = [request EXCEPT ![e] = [NoThemeRequest EXCEPT !.pc = "copied",
                                                             !.config = themes[v].config]]
      BY <1>1 DEF CreateBegin
  <2> DEFINE q == [NoThemeRequest EXCEPT !.pc = "copied", !.config = themes[v].config]
  <2>2. q \in RequestRow /\ q.pc = "copied" /\ q.config \in Config
      BY <1>q, VersionSets DEF NoThemeRequest, RequestRow
  <2>3. request' = [request EXCEPT ![e] = q]
      BY <2>1
  <2> HIDE DEF q
  <2>4. request'[e] = q
      BY <2>3, <1>q
  <2>5. RequestKnows(e)' /\ LockedRows(e)' = {}
      BY <2>2, <2>4 DEF RequestKnows, LockedRows
  <2> QED
      BY <1>1, <2>2, <2>3, <2>5, OnlyRequest DEF CreateBegin
<1>2. ASSUME NEW v \in DOMAIN themes, NEW kind \in {"publish", "rollback"}, RowFree(e, v),
             kind = "publish" <=> themes[v].st = "draft",
             request' = [request EXCEPT ![e] = [pc |-> "locked", kind |-> kind, row |-> v,
                                                old |-> 0, config |-> themes[v].config]],
             UNCHANGED <<themes, publications, view>>
      PROVE  ThemeInv'
  <2> DEFINE q == [pc |-> "locked", kind |-> kind, row |-> v, old |-> 0, config |-> themes[v].config]
  <2>1. q \in RequestRow
      BY <1>q DEF RequestRow
  <2>2. q.pc = "locked" /\ q.kind = kind /\ q.row = v /\ q.config = themes[v].config
      OBVIOUS
  <2>3. request' = [request EXCEPT ![e] = q]
      BY <1>2
  <2> HIDE DEF q
  <2>4. request'[e] = q
      BY <2>3, <1>q
  <2>5. RequestKnows(e)'
      BY <1>2, <1>q, <2>2, <2>4 DEF RequestKnows
  <2>6. \A f \in ThemeEditor \ {e} : LockedRows(e)' \cap LockedRows(f) = {}
      BY <1>2, <2>2, <2>4 DEF LockedRows, RowFree
  <2> QED
      BY <1>2, <2>1, <2>3, <2>5, <2>6, OnlyRequest
<1>3. ASSUME PublishDraft(e) PROVE ThemeInv'
    BY <1>2, <1>3, VersionSets DEF PublishDraft
<1>4. ASSUME NEW v \in 1..MaxThemeVersions, RollbackTo(e, v) PROVE ThemeInv'
    BY <1>2, <1>4, VersionSets DEF RollbackTo
<1>5. ASSUME ReadPublished(e) PROVE ThemeInv'
  <2>1. PICK v \in Published :
          request' = [request EXCEPT ![e] =
             IF @.kind = "rollback" /\ @.row = v THEN NoThemeRequest
             ELSE [@ EXCEPT !.pc = "read", !.old = v]]
      BY <1>5 DEF ReadPublished
  <2>2. v \in DOMAIN themes /\ themes[v].st = "published" /\ request[e].pc = "locked"
      BY <1>5, VersionSets DEF ReadPublished, Published, InState
  <2> DEFINE r == [request[e] EXCEPT !.pc = "read", !.old = v]
  <2>3. CASE request' = [request EXCEPT ![e] = NoThemeRequest]
    <3>1. request'[e] = NoThemeRequest
        BY <2>3, <1>q
    <3>2. RequestKnows(e)' /\ LockedRows(e)' = {}
        BY <3>1 DEF RequestKnows, LockedRows, NoThemeRequest
    <3> QED
        BY <1>5, <1>q, <2>3, <3>2, OnlyRequest DEF ReadPublished
  <2>4. CASE request' = [request EXCEPT ![e] = r]
    <3>1. r \in RequestRow /\ r.pc = "read" /\ r.old = v /\ r.row = request[e].row
          /\ r.kind = request[e].kind /\ r.config = request[e].config
      <4>1. v \in 0..MaxThemeVersions /\ request[e] \in RequestRow
          BY <1>q, <2>2
      <4> QED
          BY <4>1 DEF RequestRow
    <3> HIDE DEF r
    <3>2. request'[e] = r
        BY <2>4, <1>q
    <3>3. RequestKnows(e)' /\ LockedRows(e)' = LockedRows(e)
        BY <1>5, <1>q, <2>2, <3>1, <3>2 DEF RequestKnows, LockedRows, ReadPublished
    <3>4. \A f \in ThemeEditor \ {e} : LockedRows(e)' \cap LockedRows(f) = {}
        BY <3>3 DEF ThemeInv, LocksAreApart
    <3> QED
        BY <1>5, <2>4, <3>1, <3>3, <3>4, OnlyRequest DEF ReadPublished
  <2> QED
      BY <2>1, <2>3, <2>4
<1>6. ASSUME ArchiveOld(e) PROVE ThemeInv'
  <2> DEFINE r == [request[e] EXCEPT !.pc = "archived"]
  <2>1. /\ request' = [request EXCEPT ![e] = r] /\ request[e].pc = "read"
        /\ RowFree(e, request[e].old)
      BY <1>6, <1>q DEF ArchiveOld
  <2>2. r \in RequestRow /\ r.pc = "archived" /\ r.old = request[e].old /\ r.row = request[e].row
        /\ r.kind = request[e].kind /\ r.config = request[e].config
      BY <1>q DEF RequestRow
  <2> HIDE DEF r
  <2>3. request'[e] = r
      BY <2>1, <1>q
  <2>4. RequestKnows(e)'
      BY <1>6, <1>q, <2>1, <2>2, <2>3 DEF RequestKnows, ArchiveOld
  <2>5. LockedRows(e)' = LockedRows(e) \cup {request[e].old}
      BY <2>1, <2>2, <2>3 DEF LockedRows
  <2>6. \A f \in ThemeEditor \ {e} : LockedRows(e)' \cap LockedRows(f) = {}
      BY <2>1, <2>5 DEF ThemeInv, LocksAreApart, RowFree
  <2> QED
      BY <1>6, <2>1, <2>2, <2>4, <2>6, OnlyRequest DEF ArchiveOld
<1> QED
    BY <1>1, <1>3, <1>4, <1>5, <1>6

\* The commit of a publication or a rollback: the draft it locked, or a new version, replaces
\* the version that is live, and the record says so.
LEMMA GoesLive ==
    ASSUME ThemeInv, NEW e \in ThemeEditor, request[e].pc = "archived",
           request[e].old = publications[Len(publications)].version,
           NEW live \in Nat, live # request[e].old,
           live \in DOMAIN themes => live = request[e].row /\ themes[live].st = "draft",
           themes' \in Seq(ThemeRow), Len(themes') <= MaxThemeVersions,
           DOMAIN themes' = DOMAIN themes \cup {live},
           \A v \in DOMAIN themes :
               /\ themes'[v].config = themes[v].config
               /\ v # live => themes'[v].st = IF v = request[e].old THEN "archived"
                                              ELSE themes[v].st,
           themes'[live].st = "published", themes'[live].config = request[e].config,
           publications' = Append(publications, [version |-> live, previous |-> request[e].old,
                                                 config |-> request[e].config]),
           request' = [request EXCEPT ![e] = NoThemeRequest], view' = view
    PROVE  ThemeInv'
<1> DEFINE q == request[e]
           n == Len(publications)
           new == [version |-> live, previous |-> q.old, config |-> q.config]
<1>1. /\ q \in RequestRow /\ q.config \in Config /\ q.row \in DOMAIN themes
      /\ q.old \in DOMAIN themes /\ themes[q.old].st # "draft" /\ LockedRows(e) = {q.row, q.old}
    BY DEF ThemeInv, ThemeRows, RequestKnows, LockedRows
<1>2. /\ publications \in Seq(PublicationRow) /\ n \in Nat \ {0} /\ DOMAIN publications = 1..n
      /\ \A i \in 1..n : publications[i].version \in DOMAIN themes
    BY DEF ThemeInv, ThemeRows
<1>3. new \in PublicationRow /\ new.version = live /\ new.previous = q.old /\ new.config = q.config
  <2>1. q.old \in Nat
      BY <1>1, ThemeAssumption DEF RequestRow
  <2> QED
      BY <1>1, <2>1 DEF PublicationRow
<1>4. /\ publications' \in Seq(PublicationRow) /\ Len(publications') = n + 1
      /\ DOMAIN publications' = 1..(n + 1) /\ publications'[n + 1] = new
      /\ \A i \in 1..n : publications'[i] = publications[i]
  <2> HIDE DEF new
  <2>1. publications' = Append(publications, new)
      BY DEF new
  <2> QED
      BY <1>2, <1>3, <2>1
<1>5. \A f \in ThemeEditor \ {e} : request'[f] = request[f]
    BY DEF ThemeInv, ThemeRows
<1>6. request'[e] = NoThemeRequest /\ NoThemeRequest \in RequestRow /\ NoThemeRequest.pc = "idle"
  <2>1. NoThemeRequest \in RequestRow /\ NoThemeRequest.pc = "idle"
      BY ThemeAssumption DEF NoThemeRequest, RequestRow
  <2> QED
      BY <2>1 DEF ThemeInv, ThemeRows
<1> HIDE DEF new
<1>7. ThemeRows'
  <2>1. request' \in [ThemeEditor -> RequestRow] /\ view' \in [ThemeEditor -> Config \cup {NoConfig}]
      BY <1>6 DEF ThemeInv, ThemeRows
  <2>2. publications' # <<>>
      BY <1>2, <1>4
  <2>3. \A i \in DOMAIN publications' : publications'[i].version \in DOMAIN themes'
      BY <1>2, <1>3, <1>4
  <2> QED
      BY <1>4, <2>1, <2>2, <2>3 DEF ThemeRows
<1>8. OneIsLive'
  <2>1. publications'[Len(publications')].version = live
      BY <1>3, <1>4
  <2>2. \A v \in DOMAIN themes' : themes'[v].st = "published" <=> v = live
      BY DEF ThemeInv, OneIsLive
  <2>3. \A v \in DOMAIN themes' : themes'[v].st = "draft" => v \in DOMAIN themes /\ themes[v].st = "draft"
      OBVIOUS
  <2> QED
      BY <2>1, <2>2, <2>3 DEF ThemeInv, OneIsLive
<1>9. RecordsStand'
  <2> SUFFICES ASSUME NEW i \in 1..(n + 1)
               PROVE  /\ themes'[publications'[i].version].st # "draft"
                      /\ themes'[publications'[i].version].config = publications'[i].config
                      /\ publications'[i].previous = IF i = 1 THEN 0 ELSE publications'[i - 1].version
      BY <1>4 DEF RecordsStand
  <2>1. CASE i = n + 1
    <3>0. i - 1 = n /\ n \in 1..n /\ i # 1
        BY <1>2, <2>1
    <3>1. publications'[i - 1] = publications[n] /\ i # 1
        BY <1>4, <3>0
    <3> QED
        BY <1>3, <1>4, <2>1, <3>1
  <2>2. CASE i \in 1..n
    <3>1. /\ themes[publications[i].version].st # "draft"
          /\ themes[publications[i].version].config = publications[i].config
          /\ publications[i].previous = IF i = 1 THEN 0 ELSE publications[i - 1].version
          /\ publications[i].version \in DOMAIN themes
        BY <1>2, <2>2 DEF ThemeInv, RecordsStand
    <3>2. publications'[i] = publications[i] /\ (i # 1 => publications'[i - 1] = publications[i - 1])
        BY <1>2, <1>4, <2>2
    <3>3. themes'[publications[i].version].st # "draft"
        BY <3>1
    <3> QED
        BY <3>1, <3>2, <3>3
  <2> QED
      BY <1>2, <2>1, <2>2
<1>10. LocksAreApart'
  <2>1. LockedRows(e)' = {} /\ \A f \in ThemeEditor \ {e} : LockedRows(f)' = LockedRows(f)
      BY <1>5, <1>6 DEF LockedRows
  <2> QED
      BY <2>1 DEF ThemeInv, LocksAreApart
<1>11. ASSUME NEW f \in ThemeEditor PROVE RequestKnows(f)'
  <2>1. CASE f = e
      BY <1>6, <2>1 DEF RequestKnows
  <2>2. CASE f # e
    <3>1. RequestKnows(f) /\ request'[f] = request[f]
        BY <1>5, <2>2 DEF ThemeInv
    <3>2. request[f].pc \in {"locked", "read", "archived"} => request[f].row \notin LockedRows(e)
        BY <2>2 DEF ThemeInv, LocksAreApart, LockedRows
    <3>3. request[f].pc \in {"locked", "read", "archived"} =>
             /\ request[f].row # live
             /\ themes'[request[f].row].st = "draft" <=> themes[request[f].row].st = "draft"
      <4> SUFFICES ASSUME request[f].pc \in {"locked", "read", "archived"}
                   PROVE  /\ request[f].row # live
                          /\ themes'[request[f].row].st = "draft" <=> themes[request[f].row].st = "draft"
          OBVIOUS
      <4>1. request[f].row \in DOMAIN themes /\ request[f].row # q.old /\ request[f].row # q.row
          BY <1>1, <3>1, <3>2 DEF RequestKnows
      <4>2. request[f].row # live
          BY <4>1
      <4> QED
          BY <4>1, <4>2
    <3>4. request[f].pc \in {"read", "archived"} => themes'[request[f].old].st # "draft"
        BY <3>1 DEF RequestKnows
    <3> QED
        BY <3>1, <3>3, <3>4 DEF RequestKnows
  <2> QED
      BY <2>1, <2>2
<1> QED
    BY <1>7, <1>8, <1>9, <1>10, <1>11 DEF ThemeInv

\* The steps that change versions, records or what an editor sees keep the invariant.
LEMMA TableSteps ==
    ASSUME ThemeInv, NEW e \in ThemeEditor,
           \/ ViewDraft(e) \/ CreateInsert(e) \/ CommitLive(e)
           \/ \E config \in Config : SaveDraft(e, config)
    PROVE  ThemeInv'
<1> USE ThemeAssumption
<1>q. /\ request[e] \in RequestRow /\ RequestKnows(e)
      /\ request \in [ThemeEditor -> RequestRow]
      /\ themes \in Seq(ThemeRow) /\ Len(themes) \in Nat /\ Len(themes) <= MaxThemeVersions
      /\ DOMAIN themes = 1..Len(themes)
      /\ view \in [ThemeEditor -> Config \cup {NoConfig}]
      /\ \A v \in DOMAIN themes : themes[v] \in ThemeRow /\ themes[v].config \in Config
  <2>1. themes \in Seq(ThemeRow)
      BY DEF ThemeInv, ThemeRows
  <2>2. \A v \in DOMAIN themes : themes[v] \in ThemeRow
      BY <2>1
  <2>3. \A v \in DOMAIN themes : themes[v].config \in Config
      BY <2>2 DEF ThemeRow
  <2> QED
      BY <2>1, <2>2, <2>3 DEF ThemeInv, ThemeRows
<1>n. NoThemeRequest \in RequestRow /\ NoThemeRequest.pc = "idle"
    BY DEF NoThemeRequest, RequestRow
<1>l. Len(publications) \in DOMAIN publications
    BY DEF ThemeInv, ThemeRows
\* A draft is added where there was none.
<1>a. ASSUME NEW row \in ThemeRow, row.st = "draft", TheDraft = {}, Len(themes) < MaxThemeVersions,
             themes' = Append(themes, row), view' \in [ThemeEditor -> Config \cup {NoConfig}],
             request' = [request EXCEPT ![e] = NoThemeRequest], publications' = publications
      PROVE  ThemeInv'
  <2>1. /\ themes' \in Seq(ThemeRow) /\ Len(themes') = Len(themes) + 1
        /\ DOMAIN themes' = 1..(Len(themes) + 1)
        /\ themes'[Len(themes) + 1] = row
        /\ \A v \in DOMAIN themes : themes'[v] = themes[v]
      BY <1>a, <1>q
  <2>2. /\ DOMAIN themes' = DOMAIN themes \cup {Len(themes) + 1}
        /\ Len(themes) + 1 \notin DOMAIN themes
      BY <1>q, <2>1
  <2>3. request'[e] = NoThemeRequest /\ \A f \in ThemeEditor \ {e} : request'[f] = request[f]
      BY <1>a, <1>q
  <2>4. ThemeRows'
    <3>1. request' \in [ThemeEditor -> RequestRow]
        BY <1>a, <1>q, <1>n
    <3>2. Len(themes') <= MaxThemeVersions
        BY <1>a, <1>q, <2>1
    <3> QED
        BY <1>a, <2>1, <2>2, <3>1, <3>2 DEF ThemeInv, ThemeRows
  <2>5. OneIsLive' /\ RecordsStand'
    <3>1. \A v \in DOMAIN themes : themes[v].st # "draft"
        BY <1>a, VersionSets
    <3>2. \A i \in DOMAIN publications : publications[i].version \in DOMAIN themes
        BY DEF ThemeInv, ThemeRows
    <3>3. OneIsLive'
      <4>1. publications' = publications /\ publications[Len(publications)].version \in DOMAIN themes
          BY <1>a, <1>l, <3>2
      <4>2. \A v \in DOMAIN themes' : themes'[v].st = "draft" => v = Len(themes) + 1
          BY <2>1, <2>2, <3>1
      <4>3. \A v \in DOMAIN themes' :
              themes'[v].st = "published" <=> v = publications[Len(publications)].version
          BY <1>a, <2>1, <2>2, <4>1 DEF ThemeInv, OneIsLive
      <4> QED
          BY <4>1, <4>2, <4>3 DEF OneIsLive
    <3>4. RecordsStand'
        BY <1>a, <2>1, <3>2 DEF ThemeInv, RecordsStand
    <3> QED
        BY <3>3, <3>4
  <2>6. LocksAreApart'
    <3>1. LockedRows(e)' = {} /\ \A f \in ThemeEditor \ {e} : LockedRows(f)' = LockedRows(f)
        BY <2>3, <1>n DEF LockedRows
    <3> QED
        BY <3>1 DEF ThemeInv, LocksAreApart
  <2>7. ASSUME NEW f \in ThemeEditor PROVE RequestKnows(f)'
      BY <1>n, <2>1, <2>2, <2>3 DEF ThemeInv, RequestKnows
  <2> QED
      BY <2>4, <2>5, <2>6, <2>7 DEF ThemeInv
<1>1. ASSUME ViewDraft(e) PROVE ThemeInv'
  <2>1. view' \in [ThemeEditor -> Config \cup {NoConfig}]
      BY <1>1, <1>q, VersionSets DEF ViewDraft
  <2>2. UNCHANGED <<themes, publications, request>>
      BY <1>1 DEF ViewDraft
  <2> QED
      BY <2>1, <2>2 DEF ThemeInv, ThemeRows, OneIsLive, RecordsStand, LocksAreApart, LockedRows,
                        RequestKnows
<1>2. ASSUME NEW q \in {NoThemeRequest}, request' = [request EXCEPT ![e] = q],
             UNCHANGED <<themes, publications, view>>
      PROVE  ThemeInv'
  <2>1. request'[e] = NoThemeRequest
      BY <1>2, <1>q
  <2>2. RequestKnows(e)' /\ LockedRows(e)' = {}
      BY <2>1, <1>n DEF RequestKnows, LockedRows
  <2> QED
      BY <1>2, <1>n, <2>2, OnlyRequest
<1>3. ASSUME CreateInsert(e) PROVE ThemeInv'
  <2>1. CASE TheDraft = {}
    <3> DEFINE row == [st |-> "draft", config |-> request[e].config]
    <3>1. row \in ThemeRow /\ row.st = "draft" /\ request[e].config \in Config
        BY <1>3, <1>q DEF CreateInsert, RequestKnows, ThemeRow
    <3>2. /\ themes' = Append(themes, row) /\ Len(themes) < MaxThemeVersions
          /\ view' = [view EXCEPT ![e] = request[e].config]
        BY <1>3, <2>1 DEF CreateInsert
    <3> HIDE DEF row
    <3>3. view' \in [ThemeEditor -> Config \cup {NoConfig}]
        BY <1>q, <3>1, <3>2
    <3> QED
        BY <1>a, <1>3, <2>1, <3>1, <3>2, <3>3 DEF CreateInsert
  <2>2. CASE TheDraft # {}
      BY <1>2, <1>3, <2>2 DEF CreateInsert
  <2> QED
      BY <2>1, <2>2
<1>4. ASSUME NEW config \in Config, SaveDraft(e, config) PROVE ThemeInv'
  <2>1. PICK v \in TheDraft : RowFree(e, v) /\ themes' = [themes EXCEPT ![v].config = config]
      BY <1>4 DEF SaveDraft
  <2>2. v \in DOMAIN themes /\ themes[v].st = "draft"
      BY VersionSets
  <2>3. /\ view' = [view EXCEPT ![e] = config] /\ request[e].pc = "idle"
        /\ UNCHANGED <<publications, request>>
      BY <1>4 DEF SaveDraft
  <2>4. /\ themes' \in Seq(ThemeRow) /\ Len(themes') = Len(themes) /\ DOMAIN themes' = DOMAIN themes
        /\ \A u \in DOMAIN themes : themes'[u].st = themes[u].st
        /\ \A u \in DOMAIN themes \ {v} : themes'[u].config = themes[u].config
    <3>1. themes[v] \in ThemeRow
        BY <1>q, <2>2
    <3>2. [themes[v] EXCEPT !.config = config] \in ThemeRow
          /\ [themes[v] EXCEPT !.config = config].st = themes[v].st
        BY <3>1 DEF ThemeRow
    <3>3. themes' = [themes EXCEPT ![v] = [themes[v] EXCEPT !.config = config]]
        BY <2>1
    <3> QED
        BY <1>q, <2>2, <3>2, <3>3
  <2>5. ThemeRows'
      BY <1>q, <2>3, <2>4 DEF ThemeInv, ThemeRows
  <2>6. \A i \in DOMAIN publications : publications[i].version \in DOMAIN themes
      BY DEF ThemeInv, ThemeRows
  <2>7. OneIsLive'
      BY <2>3, <2>4 DEF ThemeInv, OneIsLive
  <2>8. RecordsStand'
    <3>1. \A i \in DOMAIN publications : publications[i].version # v
        BY <2>2 DEF ThemeInv, RecordsStand
    <3> QED
        BY <2>3, <2>4, <2>6, <3>1 DEF ThemeInv, RecordsStand
  <2>9. LocksAreApart'
      BY <2>3 DEF ThemeInv, LocksAreApart, LockedRows
  <2>10. ASSUME NEW f \in ThemeEditor PROVE RequestKnows(f)'
    <3>1. RequestKnows(f) /\ request' = request
        BY <2>3 DEF ThemeInv
    <3>2. request[f].pc \in {"locked", "read", "archived"} => request[f].row # v
        BY <2>1, <2>3 DEF RowFree, LockedRows
    <3> QED
        BY <2>4, <3>1, <3>2 DEF RequestKnows
  <2> QED
      BY <2>5, <2>7, <2>8, <2>9, <2>10 DEF ThemeInv
<1>5. ASSUME CommitLive(e) PROVE ThemeInv'
  <2> DEFINE q == request[e]
  <2>1. q.pc = "archived" /\ request' = [request EXCEPT ![e] = NoThemeRequest] /\ view' = view
      BY <1>5 DEF CommitLive
  <2>2. CASE ~(Published \subseteq {q.old})
      BY <1>2, <1>5, <2>2 DEF CommitLive
  <2>3. CASE Published \subseteq {q.old}
    <3>1. q.old = publications[Len(publications)].version
        BY <2>3, VersionSets
    <3>2. /\ q.row \in DOMAIN themes /\ themes[q.row].config = q.config
          /\ q.kind \in {"publish", "rollback"}
          /\ q.kind = "publish" <=> themes[q.row].st = "draft"
          /\ q.old \in DOMAIN themes /\ themes[q.old].st # "draft" /\ q.config \in Config
        BY <1>q, <2>1 DEF RequestKnows
    <3> DEFINE archived == [themes EXCEPT ![q.old].st = "archived"]
               live == IF q.kind = "publish" THEN q.row ELSE Len(themes) + 1
    <3>3. /\ live <= MaxThemeVersions
          /\ themes' = IF q.kind = "publish" THEN [archived EXCEPT ![live].st = "published"]
                       ELSE Append(archived, [st |-> "published", config |-> q.config])
          /\ publications' = Append(publications, [version |-> live, previous |-> q.old,
                                                   config |-> q.config])
        BY <1>5, <2>3 DEF CommitLive, GoLive
    <3>4. /\ archived \in Seq(ThemeRow) /\ Len(archived) = Len(themes)
          /\ DOMAIN archived = DOMAIN themes
          /\ \A v \in DOMAIN themes :
               /\ archived[v].config = themes[v].config
               /\ archived[v].st = IF v = q.old THEN "archived" ELSE themes[v].st
      <4>1. themes[q.old] \in ThemeRow
          BY <1>q, <3>2
      <4>2. /\ [themes[q.old] EXCEPT !.st = "archived"] \in ThemeRow
            /\ [themes[q.old] EXCEPT !.st = "archived"].st = "archived"
            /\ [themes[q.old] EXCEPT !.st = "archived"].config = themes[q.old].config
          BY <4>1 DEF ThemeRow
      <4>3. archived = [themes EXCEPT ![q.old] = [themes[q.old] EXCEPT !.st = "archived"]]
          OBVIOUS
      <4> HIDE DEF archived
      <4> QED
          BY <1>q, <3>2, <4>2, <4>3
    <3> HIDE DEF archived
    <3>5. CASE q.kind = "publish"
      <4>1. live = q.row /\ live \in DOMAIN themes /\ live # q.old /\ live \in Nat
          BY <1>q, <3>2, <3>5
      <4> HIDE DEF live
      <4>2. archived[live] \in ThemeRow /\ archived[live].config = q.config
          BY <3>2, <3>4, <4>1
      <4>3. /\ [archived[live] EXCEPT !.st = "published"] \in ThemeRow
            /\ [archived[live] EXCEPT !.st = "published"].st = "published"
            /\ [archived[live] EXCEPT !.st = "published"].config = q.config
          BY <4>2 DEF ThemeRow
      <4>4. themes' = [archived EXCEPT ![live] = [archived[live] EXCEPT !.st = "published"]]
          BY <3>3, <3>5
      <4>5. /\ themes' \in Seq(ThemeRow) /\ Len(themes') = Len(themes)
            /\ DOMAIN themes' = DOMAIN themes
            /\ themes'[live].st = "published" /\ themes'[live].config = q.config
            /\ \A v \in DOMAIN themes \ {live} : themes'[v] = archived[v]
          BY <3>4, <4>1, <4>3, <4>4
      <4>6. DOMAIN themes' = DOMAIN themes \cup {live} /\ Len(themes') <= MaxThemeVersions
          BY <1>q, <4>1, <4>5
      <4>7. \A v \in DOMAIN themes :
               /\ themes'[v].config = themes[v].config
               /\ v # live => themes'[v].st = IF v = q.old THEN "archived" ELSE themes[v].st
          BY <3>2, <3>4, <4>1, <4>5
      <4>8. /\ themes[live].st = "draft"
            /\ publications' = Append(publications, [version |-> live, previous |-> q.old,
                                                     config |-> q.config])
          BY <3>2, <3>3, <3>5, <4>1
      <4> QED
          BY <2>1, <3>1, <4>1, <4>5, <4>6, <4>7, <4>8, GoesLive
    <3>6. CASE q.kind = "rollback"
      <4> DEFINE row == [st |-> "published", config |-> q.config]
      <4>1. row \in ThemeRow /\ row.st = "published" /\ row.config = q.config
          BY <3>2 DEF ThemeRow
      <4>2. live = Len(themes) + 1 /\ live \notin DOMAIN themes /\ live # q.old /\ live \in Nat
          BY <1>q, <3>2, <3>6
      <4>3. themes' = Append(archived, row)
          BY <3>3, <3>6
      <4> HIDE DEF live, row
      <4>4. /\ themes' \in Seq(ThemeRow) /\ Len(themes') = Len(themes) + 1
            /\ DOMAIN themes' = 1..(Len(themes) + 1) /\ themes'[live] = row
            /\ \A v \in DOMAIN themes : themes'[v] = archived[v]
          BY <1>q, <3>4, <4>1, <4>2, <4>3
      <4>5. DOMAIN themes' = DOMAIN themes \cup {live} /\ Len(themes') <= MaxThemeVersions
          BY <1>q, <3>3, <4>2, <4>4
      <4>6. \A v \in DOMAIN themes :
               /\ themes'[v].config = themes[v].config
               /\ v # live => themes'[v].st = IF v = q.old THEN "archived" ELSE themes[v].st
          BY <3>4, <4>4
      <4> QED
          BY <2>1, <3>1, <3>2, <3>3, <4>1, <4>2, <4>4, <4>5, <4>6, GoesLive
    <3> QED
        BY <3>2, <3>5, <3>6
  <2> QED
      BY <2>2, <2>3
<1> QED
    BY <1>1, <1>3, <1>4, <1>5

\* The invariant of ThemeVersions holds throughout.
LEMMA ThemeInductive == ThemeSpec => []ThemeInv
<1>1. ThemeInv /\ [ThemeNext]_themeVars => ThemeInv'
  <2>1. ASSUME ThemeInv, UNCHANGED themeVars PROVE ThemeInv'
      BY <2>1 DEF themeVars, ThemeInv, ThemeRows, OneIsLive, RecordsStand, LocksAreApart,
                  LockedRows, RequestKnows
  <2> QED
      BY <2>1, RequestSteps, TableSteps DEF ThemeNext
<1> QED
    BY <1>1, ThemeInitially, PTL DEF ThemeSpec

\* One version is live and at most one is a draft; the last record names the live one with the
\* configuration that was published, and each record names the version it replaced
\* (modules/themes/service.js), however editors overlap.
THEOREM LiveThemeIsRecordedHolds == ThemeSpec => []LiveThemeIsRecorded
<1>1. ASSUME ThemeInv PROVE LiveThemeIsRecorded
  <2>1. Cardinality(TheDraft) <= 1
    <3>1. \A v, w \in TheDraft : v = w
        BY <1>1, VersionSets DEF ThemeInv, OneIsLive
    <3>2. CASE TheDraft = {}
        BY <3>2, FS_EmptySet
    <3>3. CASE TheDraft # {}
      <4>1. PICK v : v \in TheDraft
          BY <3>3
      <4>2. TheDraft = {v}
          BY <3>1, <4>1
      <4>3. Cardinality(TheDraft) = 1
          BY <4>2, FS_Singleton
      <4> QED
          BY <4>3
    <3> QED
        BY <3>2, <3>3
  <2> QED
      BY <1>1, <2>1, VersionSets DEF ThemeInv, RecordsStand, LiveThemeIsRecorded
<1> QED
    BY <1>1, ThemeInductive, PTL

-----------------------------------------------------------------------------
(* Reviews *)

\* What a recount counts.
VotesOf(f) == [t \in VoteTypes |-> Cardinality({v \in Voter : f[v] = t})]
ShownOf(f, parent) == Cardinality({i \in Items(parent) : f[i] = "published"})

\* What a transaction in progress knows.
ClerkRow ==
    [pc : {"idle", "open", "counted"}, op : {"vote", "moderate", "answer"},
     item : Author \cup Answer \cup {NoClerk.item}, voter : Voter \cup {NoClerk.voter},
     to : Moderated \cup VoteTypes \cup {"none"}, count : Nat \cup [VoteTypes -> Nat],
     late : BOOLEAN]

\* Rows, counters and transactions hold values of their kind.
ReviewRows ==
    /\ content \in [Author \cup Answer -> Moderated \cup {"none"}]
    /\ votes \in [Author -> [Voter -> VoteTypes \cup {"none"}]]
    /\ tally \in [Author -> [VoteTypes -> Nat]]
    /\ counts \in [Parents -> Nat]
    /\ drifted \in [Parents -> BOOLEAN]
    /\ clerk \in [Clerk -> ClerkRow]

\* A transaction in progress has an item of the kind its operation is about.
ClerkWorks(c) ==
    LET q == clerk[c]
    IN q.pc # "idle" =>
         /\ q.op = "vote" => q.item \in Author /\ q.voter \in Voter /\ q.to \in VoteTypes
         /\ q.op = "moderate" => q.item \in Author \cup Answer /\ q.to \in Moderated
         /\ q.op = "answer" => q.item \in Answer /\ q.to \in Moderated

\* The snapshot a transaction has is what its commit will make true.
SnapshotHolds(c) ==
    clerk[c].pc = "counted" =>
        IF clerk[c].op = "vote" THEN clerk[c].count = VotesOf(SeenVotes(c))
        ELSE /\ clerk[c].count \in Nat
             /\ clerk[c].late \/ clerk[c].count = ShownOf(SeenContent(c), Parent(clerk[c].item))

\* No two votes on one review are in progress.
VotesAreApart ==
    \A c, d \in Clerk :
        /\ clerk[c].pc # "idle" /\ clerk[c].op = "vote"
        /\ clerk[d].pc # "idle" /\ clerk[d].op = "vote"
        /\ clerk[c].item = clerk[d].item
        => c = d

\* The inductive invariant of Reviews.
ReviewInv ==
    /\ ReviewRows /\ VotesAreApart /\ CountersMatchRows
    /\ \A c \in Clerk : ClerkWorks(c) /\ SnapshotHolds(c)

\* What is counted is a number.
LEMMA CountIsNumber ==
    /\ \A f : VotesOf(f) \in [VoteTypes -> Nat]
    /\ \A f, parent : ShownOf(f, parent) \in Nat
<1>1. ASSUME NEW S \in {Voter, Author, Answer}, NEW T \in SUBSET S PROVE Cardinality(T) \in Nat
    BY ReviewAssumption, FS_Subset, FS_CardinalityType
<1>2. ASSUME NEW f PROVE VotesOf(f) \in [VoteTypes -> Nat]
  <2>1. \A t : {v \in Voter : f[v] = t} \in SUBSET Voter
      OBVIOUS
  <2>2. \A t \in VoteTypes : Cardinality({v \in Voter : f[v] = t}) \in Nat
      BY <1>1, <2>1
  <2> QED
      BY <2>2 DEF VotesOf
<1>3. ASSUME NEW f, NEW parent PROVE ShownOf(f, parent) \in Nat
  <2>1. Items(parent) \in {Voter, Author, Answer}
      BY DEF Items
  <2>2. {i \in Items(parent) : f[i] = "published"} \in SUBSET Items(parent)
      OBVIOUS
  <2> QED
      BY <1>1, <2>1, <2>2 DEF ShownOf
<1> QED
    BY <1>2, <1>3

\* The same published items give the same count.
LEMMA ShownAgrees ==
    ASSUME NEW parent, NEW f, NEW g,
           \A i \in Items(parent) : f[i] = "published" <=> g[i] = "published"
    PROVE  ShownOf(f, parent) = ShownOf(g, parent)
<1>1. {i \in Items(parent) : f[i] = "published"} = {i \in Items(parent) : g[i] = "published"}
    OBVIOUS
<1> QED
    BY <1>1 DEF ShownOf

\* CountersMatchRows in the words of this proof.
LEMMA CountersByDefinition ==
    CountersMatchRows <=>
        /\ \A a \in Author, t \in VoteTypes : tally[a][t] = VotesOf(votes[a])[t]
        /\ \A parent \in Parents : ~drifted[parent] => counts[parent] = ShownOf(content, parent)
    BY DEF CountersMatchRows, VotesOf, ShownOf

\* Nothing is written yet, and every counter is 0.
LEMMA ReviewInitially == ReviewInit => ReviewInv
<1> SUFFICES ASSUME ReviewInit PROVE ReviewInv
    OBVIOUS
<1>1. NoClerk \in ClerkRow /\ NoClerk.pc = "idle"
    BY DEF NoClerk, ClerkRow
<1>2. ReviewRows
    BY <1>1 DEF ReviewInit, ReviewRows, Moderated, VoteTypes, Parents
<1>3. CountersMatchRows
  <2>1. ASSUME NEW a \in Author, NEW t \in VoteTypes
        PROVE  tally[a][t] = Cardinality({v \in Voter : votes[a][v] = t})
    <3>1. {v \in Voter : votes[a][v] = t} = {}
        BY DEF ReviewInit, VoteTypes
    <3>2. tally[a][t] = 0
        BY DEF ReviewInit
    <3> QED
        BY <3>1, <3>2, FS_EmptySet
  <2>2. ASSUME NEW parent \in Parents
        PROVE  counts[parent] = Cardinality({i \in Items(parent) : content[i] = "published"})
    <3>1. {i \in Items(parent) : content[i] = "published"} = {}
        BY DEF ReviewInit, Items
    <3>2. counts[parent] = 0
        BY DEF ReviewInit
    <3> QED
        BY <3>1, <3>2, FS_EmptySet
  <2> QED
      BY <2>1, <2>2 DEF CountersMatchRows
<1> QED
    BY <1>1, <1>2, <1>3 DEF ReviewInit, ReviewInv, VotesAreApart, ClerkWorks, SnapshotHolds

\* A transaction begins.
LEMMA ClerkBegins ==
    ASSUME ReviewInv, NEW c \in Clerk, NEW q \in ClerkRow, q.pc = "open",
           q.op = "vote" => q.item \in Author /\ q.voter \in Voter /\ q.to \in VoteTypes,
           q.op = "moderate" => q.item \in Author \cup Answer /\ q.to \in Moderated,
           q.op = "answer" => q.item \in Answer /\ q.to \in Moderated,
           q.op = "vote" => RowIsFree(q.item), clerk[c].pc = "idle",
           clerk' = [clerk EXCEPT ![c] = q],
           UNCHANGED <<content, question, votes, tally, counts, drifted>>
    PROVE  ReviewInv'
<1>1. clerk'[c] = q /\ \A d \in Clerk \ {c} : clerk'[d] = clerk[d]
    BY DEF ReviewInv, ReviewRows
<1>2. ReviewRows'
    BY DEF ReviewInv, ReviewRows
<1>3. VotesAreApart'
  <2>1. ASSUME q.op = "vote", NEW d \in Clerk, clerk[d].pc # "idle", clerk[d].op = "vote"
        PROVE  clerk[d].item # q.item
      BY <2>1 DEF RowIsFree, RowLocks
  <2>2. \A d, b \in Clerk \ {c} :
          /\ clerk[b].pc # "idle" /\ clerk[b].op = "vote"
          /\ clerk[d].pc # "idle" /\ clerk[d].op = "vote"
          /\ clerk[b].item = clerk[d].item
          => b = d
      BY DEF ReviewInv, VotesAreApart
  <2> QED
      BY <1>1, <2>1, <2>2 DEF VotesAreApart
<1>4. CountersMatchRows'
    BY CountersByDefinition DEF ReviewInv, CountersMatchRows
<1>5. ASSUME NEW d \in Clerk PROVE ClerkWorks(d)' /\ SnapshotHolds(d)'
  <2>1. CASE d = c
      BY <1>1, <2>1 DEF ClerkWorks, SnapshotHolds
  <2>2. CASE d # c
      BY <1>1, <2>2 DEF ReviewInv, ClerkWorks, SnapshotHolds, SeenVotes, SeenContent
  <2> QED
      BY <2>1, <2>2
<1> QED
    BY <1>2, <1>3, <1>4, <1>5 DEF ReviewInv

\* A vote, a moderation or an answer begins.
LEMMA BeginSteps ==
    ASSUME ReviewInv, NEW c \in Clerk,
           \/ \E a \in Author, v \in Voter, to \in VoteTypes : Vote(c, a, v, to)
           \/ \E item \in Author \cup Answer, to \in Moderated : Moderate(c, item, to)
           \/ \E item \in Answer, to \in {"pending", "published"} : AnswerQuestion(c, item, to)
    PROVE  ReviewInv'
<1>1. NoClerk \in ClerkRow /\ NoClerk.op = "vote"
    BY DEF NoClerk, ClerkRow
<1>2. ASSUME NEW a \in Author, NEW v \in Voter, NEW to \in VoteTypes, Vote(c, a, v, to)
      PROVE  ReviewInv'
  <2> DEFINE q == [NoClerk EXCEPT !.pc = "open", !.item = a, !.voter = v, !.to = to]
  <2>1. /\ q \in ClerkRow /\ q.pc = "open" /\ q.op = "vote" /\ q.item = a /\ q.voter = v
        /\ q.to = to
      BY <1>1 DEF ClerkRow
  <2>2. Begin(c, a, q)
      BY <1>2 DEF Vote
  <2> HIDE DEF q
  <2> QED
      BY <2>1, <2>2, ClerkBegins DEF Begin
<1>3. ASSUME NEW item \in Author \cup Answer, NEW to \in Moderated, Moderate(c, item, to)
      PROVE  ReviewInv'
  <2> DEFINE q == [NoClerk EXCEPT !.pc = "open", !.op = "moderate", !.item = item, !.to = to]
  <2>1. q \in ClerkRow /\ q.pc = "open" /\ q.op = "moderate" /\ q.item = item /\ q.to = to
      BY <1>1 DEF ClerkRow
  <2>2. Begin(c, item, q)
      BY <1>3 DEF Moderate
  <2> HIDE DEF q
  <2> QED
      BY <2>1, <2>2, ClerkBegins DEF Begin
<1>4. ASSUME NEW item \in Answer, NEW to \in {"pending", "published"}, AnswerQuestion(c, item, to)
      PROVE  ReviewInv'
  <2> DEFINE q == [NoClerk EXCEPT !.pc = "open", !.op = "answer", !.item = item, !.to = to]
  <2>1. to \in Moderated
      BY DEF Moderated
  <2>2. q \in ClerkRow /\ q.pc = "open" /\ q.op = "answer" /\ q.item = item /\ q.to = to
      BY <1>1, <2>1 DEF ClerkRow
  <2>3. Begin(c, "question", q)
      BY <1>4 DEF AnswerQuestion
  <2> HIDE DEF q
  <2> QED
      BY <2>1, <2>2, <2>3, ClerkBegins DEF Begin
<1> QED
    BY <1>2, <1>3, <1>4

\* The statement that recounts takes a snapshot of what its commit will make true.
LEMMA RecountStep == ASSUME ReviewInv, NEW c \in Clerk, Recount(c) PROVE ReviewInv'
<1> DEFINE n == IF clerk[c].op = "vote" THEN VotesOf(SeenVotes(c))
                ELSE ShownOf(SeenContent(c), Parent(clerk[c].item))
           q == [clerk[c] EXCEPT !.pc = "counted", !.count = n]
<1>0. clerk[c] \in ClerkRow /\ clerk[c].pc = "open"
    BY DEF ReviewInv, ReviewRows, Recount
<1>1. clerk' = [clerk EXCEPT ![c] = q] /\ UNCHANGED <<content, question, votes, tally, counts, drifted>>
    BY <1>0 DEF Recount, VotesOf, ShownOf, ClerkRow
<1>2. n \in Nat \cup [VoteTypes -> Nat]
    BY CountIsNumber
<1> HIDE DEF n
<1>3. /\ q \in ClerkRow /\ q.pc = "counted" /\ q.count = n /\ q.op = clerk[c].op
      /\ q.item = clerk[c].item /\ q.voter = clerk[c].voter /\ q.to = clerk[c].to
    BY <1>0, <1>2 DEF ClerkRow
<1> HIDE DEF q
<1>4. clerk'[c] = q /\ \A d \in Clerk \ {c} : clerk'[d] = clerk[d]
    BY <1>1 DEF ReviewInv, ReviewRows
<1>5. ReviewRows'
    BY <1>1, <1>3 DEF ReviewInv, ReviewRows
<1>6. VotesAreApart'
  <2>1. \A d \in Clerk : /\ clerk'[d].pc # "idle" <=> clerk[d].pc # "idle"
                         /\ clerk'[d].op = clerk[d].op /\ clerk'[d].item = clerk[d].item
      BY <1>0, <1>3, <1>4
  <2> QED
      BY <2>1 DEF ReviewInv, VotesAreApart
<1>7. CountersMatchRows'
    BY <1>1 DEF ReviewInv, CountersMatchRows
<1>8. ASSUME NEW d \in Clerk PROVE ClerkWorks(d)' /\ SnapshotHolds(d)'
  <2>1. CASE d = c
    <3>1. ClerkWorks(d)'
        BY <1>0, <1>3, <1>4, <2>1 DEF ReviewInv, ClerkWorks
    <3>2. /\ clerk'[c].op = clerk[c].op /\ clerk'[c].item = clerk[c].item
          /\ clerk'[c].voter = clerk[c].voter /\ clerk'[c].to = clerk[c].to
        BY <1>3, <1>4
    <3>2a. SeenVotes(c)' = SeenVotes(c) /\ SeenContent(c)' = SeenContent(c)
        BY <1>1, <3>2, Zenon DEF SeenVotes, SeenContent
    <3>3. SnapshotHolds(d)'
        BY <1>3, <1>4, <2>1, <3>2a, CountIsNumber DEF SnapshotHolds, n
    <3> QED
        BY <3>1, <3>3
  <2>2. CASE d # c
      BY <1>1, <1>4, <2>2 DEF ReviewInv, ClerkWorks, SnapshotHolds, SeenVotes, SeenContent
  <2> QED
      BY <2>1, <2>2
<1> QED
    BY <1>5, <1>6, <1>7, <1>8 DEF ReviewInv

\* A vote commits: no other vote on the review is in progress, so its snapshot stands.
LEMMA CommitVote ==
    ASSUME ReviewInv, NEW c \in Clerk, Commit(c), clerk[c].op = "vote" PROVE ReviewInv'
<1> DEFINE q == clerk[c]
<1>1. /\ q.pc = "counted"
      /\ votes' = [votes EXCEPT ![q.item] = SeenVotes(c)]
      /\ tally' = [tally EXCEPT ![q.item] = q.count]
      /\ clerk' = [clerk EXCEPT ![c] = NoClerk]
      /\ UNCHANGED <<content, question, counts, drifted>>
    BY DEF Commit
<1>2. /\ q.item \in Author /\ q.voter \in Voter /\ q.to \in VoteTypes
      /\ q.count = VotesOf(SeenVotes(c)) /\ VotesOf(SeenVotes(c)) \in [VoteTypes -> Nat]
    BY <1>1, CountIsNumber DEF ReviewInv, ClerkWorks, SnapshotHolds
<1>3. SeenVotes(c) \in [Voter -> VoteTypes \cup {"none"}]
    BY <1>2 DEF ReviewInv, ReviewRows, SeenVotes
<1>4. NoClerk \in ClerkRow /\ NoClerk.pc = "idle"
    BY DEF NoClerk, ClerkRow
<1>5. clerk'[c] = NoClerk /\ \A d \in Clerk \ {c} : clerk'[d] = clerk[d]
    BY <1>1 DEF ReviewInv, ReviewRows
<1>6. ReviewRows'
    BY <1>1, <1>2, <1>3, <1>4 DEF ReviewInv, ReviewRows
<1>7. VotesAreApart'
    BY <1>4, <1>5 DEF ReviewInv, VotesAreApart
<1>8. CountersMatchRows'
  <2>1. \A a \in Author : IF a = q.item THEN votes'[a] = SeenVotes(c) /\ tally'[a] = q.count
                          ELSE votes'[a] = votes[a] /\ tally'[a] = tally[a]
      BY <1>1, <1>2 DEF ReviewInv, ReviewRows
  <2>2. \A a \in Author, t \in VoteTypes : tally'[a][t] = VotesOf(votes'[a])[t]
      BY <1>2, <2>1, CountersByDefinition DEF ReviewInv
  <2>3. \A parent \in Parents : ~drifted'[parent] => counts'[parent] = ShownOf(content', parent)
      BY <1>1, CountersByDefinition DEF ReviewInv
  <2> QED
      BY <2>2, <2>3 DEF CountersMatchRows, VotesOf, ShownOf
<1>9. ASSUME NEW d \in Clerk PROVE ClerkWorks(d)' /\ SnapshotHolds(d)'
  <2>1. CASE d = c
      BY <1>4, <1>5, <2>1 DEF ClerkWorks, SnapshotHolds
  <2>2. CASE d # c
    <3>1. clerk'[d] = clerk[d] /\ ClerkWorks(d) /\ SnapshotHolds(d)
        BY <1>5, <2>2 DEF ReviewInv
    <3>1a. content' = content /\ clerk'[d] = clerk[d]
        BY <1>1, <3>1
    <3>2. SeenContent(d)' = SeenContent(d)
        BY <3>1a, Zenon DEF SeenContent
    <3>3. ASSUME clerk[d].pc = "counted", clerk[d].op = "vote" PROVE SeenVotes(d)' = SeenVotes(d)
      <4>1. clerk[d].item # q.item /\ clerk[d].item \in Author
          BY <1>1, <2>2, <3>1, <3>3 DEF ReviewInv, VotesAreApart, ClerkWorks
      <4>2. votes'[clerk[d].item] = votes[clerk[d].item]
          BY <1>1, <4>1 DEF ReviewInv, ReviewRows
      <4> QED
          BY <3>1, <4>2 DEF SeenVotes
    <3> QED
        BY <3>1, <3>2, <3>3 DEF ClerkWorks, SnapshotHolds
  <2> QED
      BY <2>1, <2>2
<1> QED
    BY <1>6, <1>7, <1>8, <1>9 DEF ReviewInv

\* Reviews and answers are counted apart.
LEMMA ParentsAreApart ==
    /\ \A item \in Author \cup Answer : item \in Items(Parent(item)) /\ Parent(item) \in Parents
    /\ \A item \in Author \cup Answer, parent \in Parents :
          item \in Items(parent) => parent = Parent(item)
    BY ReviewAssumption DEF Items, Parent, Parents

\* A moderation or an answer commits: the snapshots others took of the same parent are late,
\* those of the other parent stand.
LEMMA CommitShown ==
    ASSUME ReviewInv, NEW c \in Clerk, Commit(c), clerk[c].op # "vote" PROVE ReviewInv'
<1> DEFINE q == clerk[c]
           parent == Parent(q.item)
           overtaken(d) == clerk[d].pc = "counted" /\ clerk[d].op # "vote"
                             /\ Parent(clerk[d].item) = parent
<1>1. /\ q.pc = "counted" /\ content' = SeenContent(c)
      /\ counts' = [counts EXCEPT ![parent] = q.count]
      /\ drifted' = [drifted EXCEPT ![parent] = q.late]
      /\ clerk' = [d \in Clerk |->
             IF d = c THEN NoClerk
             ELSE IF overtaken(d) THEN [clerk[d] EXCEPT !.late = TRUE] ELSE clerk[d]]
      /\ UNCHANGED <<votes, tally>>
    BY DEF Commit
<1>2. /\ q \in ClerkRow /\ q.op \in {"moderate", "answer"} /\ q.item \in Author \cup Answer
      /\ q.to \in Moderated /\ q.late \in BOOLEAN
      /\ q.count \in Nat /\ (q.late \/ q.count = ShownOf(SeenContent(c), parent))
    BY <1>1 DEF ReviewInv, ReviewRows, ClerkWorks, SnapshotHolds, ClerkRow
<1>2a. parent \in Parents
    BY <1>2, ParentsAreApart
<1>3. content' = [content EXCEPT ![q.item] = q.to]
    BY <1>1, <1>2 DEF SeenContent
<1>4. NoClerk \in ClerkRow /\ NoClerk.pc = "idle"
    BY DEF NoClerk, ClerkRow
<1>5. ASSUME NEW d \in Clerk, d # c
      PROVE  /\ clerk'[d] \in ClerkRow
             /\ clerk'[d].pc = clerk[d].pc /\ clerk'[d].op = clerk[d].op
             /\ clerk'[d].item = clerk[d].item /\ clerk'[d].voter = clerk[d].voter
             /\ clerk'[d].to = clerk[d].to /\ clerk'[d].count = clerk[d].count
             /\ clerk'[d].late = (clerk[d].late \/ overtaken(d))
  <2>1. clerk[d] \in ClerkRow
      BY DEF ReviewInv, ReviewRows
  <2>2. clerk'[d] = IF overtaken(d) THEN [clerk[d] EXCEPT !.late = TRUE] ELSE clerk[d]
      BY <1>1, <1>5
  <2> HIDE DEF overtaken
  <2> QED
      BY <2>1, <2>2 DEF ClerkRow
<1>6. clerk'[c] = NoClerk /\ clerk' \in [Clerk -> ClerkRow]
  <2>1. clerk'[c] = NoClerk
      BY <1>1
  <2>2. clerk' = [d \in Clerk |-> clerk'[d]]
      BY <1>1
  <2> QED
      BY <1>4, <1>5, <2>1, <2>2
<1>7. ReviewRows'
  <2>1. content' \in [Author \cup Answer -> Moderated \cup {"none"}]
      BY <1>2, <1>3 DEF ReviewInv, ReviewRows
  <2>2. counts' \in [Parents -> Nat] /\ drifted' \in [Parents -> BOOLEAN]
      BY <1>1, <1>2 DEF ReviewInv, ReviewRows
  <2> QED
      BY <1>1, <1>6, <2>1, <2>2 DEF ReviewInv, ReviewRows
<1>8. VotesAreApart'
    BY <1>4, <1>5, <1>6 DEF ReviewInv, VotesAreApart
\* What the other parent counts is what it counted.
<1>9. ASSUME NEW other \in Parents, other # parent, NEW i \in Items(other)
      PROVE  content'[i] = content[i]
  <2>1. i \in Author \cup Answer /\ i # q.item
      BY <1>2, <1>9, ParentsAreApart DEF Items
  <2> QED
      BY <1>3, <2>1 DEF ReviewInv, ReviewRows
<1>10. CountersMatchRows'
  <2>1. \A a \in Author, t \in VoteTypes : tally'[a][t] = VotesOf(votes'[a])[t]
      BY <1>1, CountersByDefinition DEF ReviewInv
  <2>2. ~drifted'[parent] => counts'[parent] = ShownOf(content', parent)
      BY <1>1, <1>2, <1>2a DEF ReviewInv, ReviewRows
  <2>3. ASSUME NEW other \in Parents, other # parent, ~drifted'[other]
        PROVE  counts'[other] = ShownOf(content', other)
    <3>1. counts'[other] = counts[other] /\ drifted'[other] = drifted[other]
        BY <1>1, <2>3 DEF ReviewInv, ReviewRows
    <3>2. counts[other] = ShownOf(content, other)
        BY <2>3, <3>1, CountersByDefinition DEF ReviewInv
    <3>3. ShownOf(content', other) = ShownOf(content, other)
        BY <1>9, <2>3, ShownAgrees
    <3> QED
        BY <3>1, <3>2, <3>3
  <2> QED
      BY <2>1, <2>2, <2>3 DEF CountersMatchRows, VotesOf, ShownOf
<1>11. ASSUME NEW d \in Clerk PROVE ClerkWorks(d)' /\ SnapshotHolds(d)'
  <2>1. CASE d = c
      BY <1>4, <1>6, <2>1 DEF ClerkWorks, SnapshotHolds
  <2>2. CASE d # c
    <3>1. ClerkWorks(d) /\ SnapshotHolds(d)
        BY DEF ReviewInv
    <3>2. ClerkWorks(d)'
        BY <1>5, <2>2, <3>1 DEF ClerkWorks
    <3>3. CASE clerk[d].pc # "counted"
        BY <1>5, <2>2, <3>2, <3>3 DEF SnapshotHolds
    <3>4. CASE clerk[d].pc = "counted" /\ clerk[d].op = "vote"
      <4>1. SeenVotes(d)' = SeenVotes(d)
          BY <1>1, <1>5, <2>2 DEF SeenVotes
      <4> QED
          BY <1>5, <2>2, <3>1, <3>2, <3>4, <4>1 DEF SnapshotHolds
    <3>5. CASE overtaken(d)
        BY <1>5, <2>2, <3>1, <3>2, <3>5 DEF SnapshotHolds
    <3>6. CASE clerk[d].pc = "counted" /\ clerk[d].op # "vote" /\ Parent(clerk[d].item) # parent
      <4> DEFINE other == Parent(clerk[d].item)
      <4>1. other \in Parents /\ clerk[d].item \in Author \cup Answer
          BY <3>1, <3>6, ParentsAreApart DEF ClerkWorks, ReviewInv, ReviewRows, ClerkRow
      <4>2. clerk'[d].late = clerk[d].late
          BY <1>5, <2>2, <3>6 DEF ReviewInv, ReviewRows, ClerkRow
      <4>3. SeenContent(d) = [content EXCEPT ![clerk[d].item] = clerk[d].to]
          BY <3>6 DEF SeenContent
      <4>4. SeenContent(d)' = [content' EXCEPT ![clerk[d].item] = clerk[d].to]
          BY <1>5, <2>2, <3>6 DEF SeenContent
      <4>5. ASSUME NEW i \in Items(other) PROVE SeenContent(d)'[i] = SeenContent(d)[i]
        <5>1. content'[i] = content[i] /\ i \in Author \cup Answer
            BY <1>9, <3>6, <4>1 DEF Items
        <5> QED
            BY <1>7, <4>3, <4>4, <5>1 DEF ReviewInv, ReviewRows
      <4>6. ShownOf(SeenContent(d)', other) = ShownOf(SeenContent(d), other)
          BY <4>5, ShownAgrees
      <4> QED
          BY <1>5, <2>2, <3>1, <3>2, <3>6, <4>2, <4>6 DEF SnapshotHolds
    <3> QED
        BY <3>2, <3>3, <3>4, <3>5, <3>6
  <2> QED
      BY <2>1, <2>2
<1> QED
    BY <1>7, <1>8, <1>10, <1>11 DEF ReviewInv

\* A review that is written waits for its moderation, and no recount counts it.
LEMMA CreateStep == ASSUME ReviewInv, NEW a \in Author, CreateReview(a) PROVE ReviewInv'
<1>1. /\ content[a] = "none" /\ content' = [content EXCEPT ![a] = "pending"]
      /\ UNCHANGED <<votes, tally, counts, clerk, drifted>>
    BY DEF CreateReview
<1>2. ReviewRows'
    BY <1>1 DEF ReviewInv, ReviewRows, Moderated
<1>3. VotesAreApart'
    BY <1>1 DEF ReviewInv, VotesAreApart
<1>4. \A i \in Author \cup Answer : content'[i] = "published" <=> content[i] = "published"
    BY <1>1 DEF ReviewInv, ReviewRows
<1>5. CountersMatchRows'
  <2>1. ASSUME NEW parent \in Parents PROVE ShownOf(content', parent) = ShownOf(content, parent)
    <3>1. \A i \in Items(parent) : content'[i] = "published" <=> content[i] = "published"
        BY <1>4 DEF Items
    <3> QED
        BY <3>1, ShownAgrees
  <2>2. \A a2 \in Author, t \in VoteTypes : tally'[a2][t] = VotesOf(votes'[a2])[t]
      BY <1>1, CountersByDefinition DEF ReviewInv
  <2>3. \A parent \in Parents : ~drifted'[parent] => counts'[parent] = ShownOf(content', parent)
      BY <1>1, <2>1, CountersByDefinition DEF ReviewInv
  <2> QED
      BY <2>2, <2>3 DEF CountersMatchRows, VotesOf, ShownOf
<1>6. ASSUME NEW d \in Clerk PROVE ClerkWorks(d)' /\ SnapshotHolds(d)'
  <2>1. ClerkWorks(d) /\ SnapshotHolds(d) /\ clerk'[d] = clerk[d] /\ SeenVotes(d)' = SeenVotes(d)
      BY <1>1 DEF ReviewInv, SeenVotes
  <2>2. ClerkWorks(d)'
      BY <2>1 DEF ClerkWorks
  <2>3. ASSUME clerk[d].pc = "counted", clerk[d].op # "vote"
        PROVE  ShownOf(SeenContent(d)', Parent(clerk[d].item))
                 = ShownOf(SeenContent(d), Parent(clerk[d].item))
    <3>1. SeenContent(d) = [content EXCEPT ![clerk[d].item] = clerk[d].to]
        BY <2>3 DEF SeenContent
    <3>2. SeenContent(d)' = [content' EXCEPT ![clerk[d].item] = clerk[d].to]
        BY <2>1, <2>3 DEF SeenContent
    <3>3. \A i \in Author \cup Answer :
             SeenContent(d)'[i] = "published" <=> SeenContent(d)[i] = "published"
        BY <1>2, <1>4, <3>1, <3>2 DEF ReviewInv, ReviewRows
    <3>4. \A i \in Items(Parent(clerk[d].item)) :
             SeenContent(d)'[i] = "published" <=> SeenContent(d)[i] = "published"
        BY <3>3 DEF Items
    <3> QED
        BY <3>4, ShownAgrees
  <2> QED
      BY <2>1, <2>2, <2>3 DEF SnapshotHolds
<1> QED
    BY <1>2, <1>3, <1>5, <1>6 DEF ReviewInv

\* A step that changes the question alone, or nothing.
LEMMA QuestionStep ==
    ASSUME ReviewInv, UNCHANGED <<content, votes, tally, counts, clerk, drifted>> PROVE ReviewInv'
<1>1. ReviewRows' /\ VotesAreApart' /\ CountersMatchRows'
    BY DEF ReviewInv, ReviewRows, VotesAreApart, CountersMatchRows
<1>2. ASSUME NEW d \in Clerk PROVE ClerkWorks(d)' /\ SnapshotHolds(d)'
    BY DEF ReviewInv, ClerkWorks, SnapshotHolds, SeenVotes, SeenContent
<1> QED
    BY <1>1, <1>2 DEF ReviewInv

\* The invariant of Reviews holds throughout.
LEMMA ReviewInductive == ReviewSpec => []ReviewInv
<1>1. ReviewInv /\ [ReviewNext]_reviewVars => ReviewInv'
  <2> SUFFICES ASSUME ReviewInv, [ReviewNext]_reviewVars PROVE ReviewInv'
      OBVIOUS
  <2>1. ASSUME NEW a \in Author, CreateReview(a) PROVE ReviewInv'
      BY <2>1, CreateStep
  <2>2. CASE AskQuestion
      BY <2>2, QuestionStep DEF AskQuestion
  <2>3. ASSUME NEW to \in Moderated, ModerateQuestion(to) PROVE ReviewInv'
      BY <2>3, QuestionStep DEF ModerateQuestion
  <2>4. ASSUME NEW c \in Clerk,
               \/ \E a \in Author, v \in Voter, to \in VoteTypes : Vote(c, a, v, to)
               \/ \E item \in Author \cup Answer, to \in Moderated : Moderate(c, item, to)
               \/ \E item \in Answer, to \in {"pending", "published"} : AnswerQuestion(c, item, to)
        PROVE  ReviewInv'
      BY <2>4, BeginSteps
  <2>5. ASSUME NEW c \in Clerk, Recount(c) PROVE ReviewInv'
      BY <2>5, RecountStep
  <2>6. ASSUME NEW c \in Clerk, Commit(c) PROVE ReviewInv'
      BY <2>6, CommitVote, CommitShown
  <2>7. CASE UNCHANGED reviewVars
      BY <2>7, QuestionStep DEF reviewVars
  <2> QED
      BY <2>1, <2>2, <2>3, <2>4, <2>5, <2>6, <2>7 DEF ReviewNext
<1> QED
    BY <1>1, ReviewInitially, PTL DEF ReviewSpec

-----------------------------------------------------------------------------
(* ProductStock *)

\* What a transaction remembers is a record; its change is of variants.
KeeperRow(q) ==
    q = [pc |-> q.pc, form |-> q.form, change |-> q.change, sum |-> q.sum, late |-> q.late]

\* A snapshot nobody has overtaken is the sum of what its commit makes the shelf.
SumIsSeen(w) ==
    keeper[w].pc = "summed" /\ ~keeper[w].late => keeper[w].sum = ActiveSum(SeenShelf(w))

\* The inductive invariant of ProductStock.
StockInv ==
    /\ DOMAIN keeper = Keeper
    /\ \A w \in Keeper : KeeperRow(keeper[w]) /\ SumIsSeen(w)
    /\ \A u, w \in Keeper : keeper[u].form /\ keeper[w].form => u = w
    /\ \A w \in Keeper : keeper[w].pc = "unmoved" => keeper[w].form
    /\ ShelfMatchesVariants

\* A transaction that has locked and changed its variants, and one that has its sum.
Changed(q, change) == [q EXCEPT !.pc = "open", !.change = change]
Summed(q, sum) == [q EXCEPT !.pc = "summed", !.sum = sum]

LEMMA KeeperGoes ==
    ASSUME NEW q, KeeperRow(q), NEW x
    PROVE  /\ KeeperRow(Changed(q, x)) /\ Changed(q, x).pc = "open"
           /\ Changed(q, x).form = q.form /\ Changed(q, x).late = q.late
           /\ KeeperRow(Summed(q, x)) /\ Summed(q, x).sum = x /\ Summed(q, x).change = q.change
           /\ Summed(q, x).form = q.form /\ Summed(q, x).late = q.late /\ Summed(q, x).pc = "summed"
<1>1. PICK a, b, c, d, e : q = [pc |-> a, form |-> b, change |-> c, sum |-> d, late |-> e]
    BY DEF KeeperRow
<1>2. PICK y, z : y = Changed(q, x) /\ z = Summed(q, x)
    OBVIOUS
<1>3. y = [pc |-> "open", form |-> b, change |-> x, sum |-> d, late |-> e]
    BY <1>1, <1>2 DEF Changed
<1>4. z = [pc |-> "summed", form |-> b, change |-> c, sum |-> x, late |-> e]
    BY <1>1, <1>2 DEF Summed
<1>5. /\ KeeperRow(y) /\ y.pc = "open" /\ KeeperRow(z) /\ z.sum = x /\ z.change = q.change
      /\ y.form = q.form /\ y.late = q.late /\ z.form = q.form /\ z.late = q.late
      /\ z.pc = "summed"
    BY <1>1, <1>3, <1>4 DEF KeeperRow
<1> QED
    BY <1>2, <1>5

\* A step of one transaction that has not been summed leaves the rest as it was.
LEMMA WorkStep ==
    ASSUME StockInv, NEW w \in Keeper, NEW q, KeeperRow(q),
           q.pc = "summed" => q.late \/ q.sum = ActiveSum(SeenShelf(w))',
           q.form => ~q.late /\ (keeper[w].form \/ ProductIsFree(w)),
           q.pc = "unmoved" => q.form,
           keeper' = [keeper EXCEPT ![w] = q], UNCHANGED <<shelf, product, stale>>
    PROVE  StockInv'
<1>1. DOMAIN keeper' = Keeper /\ keeper'[w] = q /\ \A u \in Keeper \ {w} : keeper'[u] = keeper[u]
    BY DEF StockInv
<1>2. ASSUME NEW u \in Keeper PROVE KeeperRow(keeper[u])' /\ SumIsSeen(u)'
    <2>1. CASE u = w
        BY <1>1, <2>1 DEF SumIsSeen, KeeperRow
    <2>2. CASE u # w
        <3>1. keeper'[u] = keeper[u] /\ shelf' = shelf
            BY <1>1, <2>2
        <3>2. SeenShelf(u)' = SeenShelf(u)
            BY <3>1 DEF SeenShelf
        <3>3. ActiveSum(SeenShelf(u))' = ActiveSum(SeenShelf(u))
            BY <3>2
        <3> QED
            BY <3>1, <3>3 DEF StockInv, SumIsSeen, KeeperRow
    <2> QED
        BY <2>1, <2>2
<1>3. ShelfMatchesVariants'
    <2>1. ASSUME NEW u \in Keeper, keeper'[u].form PROVE ~keeper'[u].late
        BY <1>1, <2>1 DEF StockInv, ShelfMatchesVariants
    <2>2. product'.stock = product.stock /\ ActiveSum(shelf)' = ActiveSum(shelf)
        OBVIOUS
    <2> QED
        BY <2>1, <2>2 DEF StockInv, ShelfMatchesVariants
<1>4. ASSUME NEW u \in Keeper, NEW v \in Keeper, keeper'[u].form, keeper'[v].form PROVE u = v
    BY <1>1, <1>4 DEF StockInv, ProductIsFree
<1>5. \A u \in Keeper : keeper'[u].pc = "unmoved" => keeper'[u].form
    BY <1>1 DEF StockInv
<1> QED
    BY <1>1, <1>2, <1>3, <1>4, <1>5 DEF StockInv

\* A commit of w leaves the transactions of the others as they were, but late.
LEMMA OthersAreOvertaken ==
    ASSUME StockInv, NEW w \in Keeper, keeper' = Overtaken(w),
           keeper[w].form \/ ProductIsFree(w)
    PROVE  /\ DOMAIN keeper' = Keeper
           /\ \A u \in Keeper : KeeperRow(keeper[u])' /\ SumIsSeen(u)'
           /\ \A u, v \in Keeper : keeper'[u].form /\ keeper'[v].form => u = v
           /\ \A u \in Keeper : keeper'[u].form => ~keeper'[u].late
           /\ \A u \in Keeper : keeper'[u].pc = "unmoved" => keeper'[u].form
<1>0. KeeperRow(NoStockWork) /\ NoStockWork.pc = "idle" /\ ~NoStockWork.form
    BY DEF KeeperRow, NoStockWork
<1>1. /\ DOMAIN keeper' = Keeper
      /\ \A u \in Keeper : keeper'[u] = IF u = w THEN NoStockWork
             ELSE IF keeper[u].pc = "summed" THEN [keeper[u] EXCEPT !.late = TRUE] ELSE keeper[u]
    BY DEF Overtaken
<1>2. ASSUME NEW u \in Keeper
      PROVE  /\ KeeperRow(keeper[u])' /\ SumIsSeen(u)'
             /\ keeper'[u].form = IF u = w THEN FALSE ELSE keeper[u].form
             /\ keeper'[u].pc = IF u = w THEN "idle" ELSE keeper[u].pc
    <2>1. PICK a, b, c, d, e :
            keeper[u] = [pc |-> a, form |-> b, change |-> c, sum |-> d, late |-> e]
        BY DEF StockInv, KeeperRow
    <2>2. CASE u = w
        BY <1>0, <1>1, <2>2 DEF KeeperRow, SumIsSeen, NoStockWork
    <2>3. CASE u # w /\ a # "summed"
        BY <1>1, <2>1, <2>3 DEF KeeperRow, SumIsSeen
    <2>4. CASE u # w /\ a = "summed"
        <3>1. keeper'[u] = [pc |-> a, form |-> b, change |-> c, sum |-> d, late |-> TRUE]
            BY <1>1, <2>1, <2>4
        <3> QED
            BY <2>1, <2>4, <3>1 DEF KeeperRow, SumIsSeen
    <2> QED
        BY <2>2, <2>3, <2>4
<1>3. \A u \in Keeper : ~keeper'[u].form
    BY <1>2 DEF StockInv, ProductIsFree
<1>4. \A u \in Keeper : keeper'[u].pc # "unmoved"
    BY <1>2, <1>3 DEF StockInv
<1> QED
    BY <1>1, <1>2, <1>3, <1>4

\* The invariant of ProductStock holds throughout.
LEMMA StockInductive == StockSpec => []StockInv
<1>0. KeeperRow(NoStockWork) /\ NoStockWork.pc = "idle" /\ ~NoStockWork.form
    BY DEF KeeperRow, NoStockWork
<1>1. StockInit => StockInv
    BY <1>0 DEF StockInit, StockInv, SumIsSeen, ShelfMatchesVariants
<1>2. StockInv /\ [StockNext]_stockVars => StockInv'
  <2> SUFFICES ASSUME StockInv, [StockNext]_stockVars PROVE StockInv'
      OBVIOUS
  <2>r. \A w \in Keeper : KeeperRow(keeper[w])
      BY DEF StockInv
  <2>1. ASSUME NEW w \in Keeper, NEW vs, NEW units, MoveStock(w, vs, units) PROVE StockInv'
      <3>1. PICK change : keeper' = [keeper EXCEPT ![w] =
                [NoStockWork EXCEPT !.pc = "open", !.change = change]]
          BY <2>1 DEF MoveStock
      <3>2. PICK q : q = Changed(NoStockWork, change)
          OBVIOUS
      <3>3. KeeperRow(q) /\ q.pc = "open" /\ ~q.form
          BY <1>0, <3>2, KeeperGoes
      <3>4. keeper' = [keeper EXCEPT ![w] = q]
          BY <3>1, <3>2 DEF Changed
      <3> QED
          BY <2>1, <3>3, <3>4, WorkStep DEF MoveStock
  <2>2. ASSUME NEW w \in Keeper, OpenForm(w) PROVE StockInv'
      <3>1. PICK q : q = [NoStockWork EXCEPT !.pc = "form", !.form = TRUE]
          OBVIOUS
      <3>2. KeeperRow(q) /\ q.pc = "form" /\ ~q.late
          BY <3>1 DEF NoStockWork, KeeperRow
      <3>3. keeper' = [keeper EXCEPT ![w] = q]
          BY <2>2, <3>1 DEF OpenForm
      <3> QED
          BY <2>2, <3>2, <3>3, WorkStep DEF OpenForm
  <2>3. ASSUME NEW w \in Keeper, NEW kept, NEW units, WriteVariants(w, kept, units)
        PROVE  StockInv'
      <3>1. PICK change : keeper' = [keeper EXCEPT ![w].pc = "open", ![w].change = change]
          BY <2>3 DEF WriteVariants
      <3>2. PICK q : q = Changed(keeper[w], change)
          OBVIOUS
      <3>3. /\ KeeperRow(q) /\ q.pc = "open"
            /\ q.form = keeper[w].form /\ q.late = keeper[w].late
          BY <2>r, <3>2, KeeperGoes
      <3>5. q.form => ~q.late /\ keeper[w].form
          BY <3>3 DEF StockInv, ShelfMatchesVariants
      <3>4. keeper' = [keeper EXCEPT ![w] = q]
          BY <3>1, <3>2 DEF StockInv, Changed
      <3> QED
          BY <2>3, <3>3, <3>4, <3>5, WorkStep DEF WriteVariants
  <2>4. ASSUME NEW w \in Keeper, SumVariants(w) PROVE StockInv'
      <3>1. PICK sum : sum = ActiveSum(SeenShelf(w))
          OBVIOUS
      <3>2. PICK q : q = Summed(keeper[w], sum)
          OBVIOUS
      <3>3. /\ KeeperRow(q) /\ q.sum = sum /\ q.change = keeper[w].change
            /\ q.form = keeper[w].form /\ q.late = keeper[w].late /\ q.pc = "summed"
          BY <2>r, <3>2, KeeperGoes
      <3>8. q.form => ~q.late /\ keeper[w].form
          BY <3>3 DEF StockInv, ShelfMatchesVariants
      <3>7. keeper' = [keeper EXCEPT ![w] = q]
          BY <2>4, <3>1, <3>2 DEF SumVariants, StockInv, Summed
      <3>4. keeper'[w].change = keeper[w].change /\ shelf' = shelf
          BY <2>4, <3>3, <3>7 DEF StockInv, SumVariants
      <3>5. SeenShelf(w)' = SeenShelf(w)
          BY <3>4 DEF SeenShelf
      <3>6. sum = ActiveSum(SeenShelf(w))'
          BY <3>1, <3>5
      <3> QED
          BY <2>4, <3>3, <3>6, <3>7, <3>8, WorkStep DEF SumVariants
  <2>5. ASSUME NEW w \in Keeper, SyncProduct(w) PROVE StockInv'
      <3>1. /\ shelf' = SeenShelf(w) /\ product'.stock = keeper[w].sum
            /\ stale' = keeper[w].late /\ keeper[w].pc = "summed"
            /\ keeper' = Overtaken(w) /\ ProductIsFree(w)
          BY <2>5 DEF SyncProduct
      <3>2. ~stale' => product'.stock = ActiveSum(shelf)'
          BY <3>1 DEF StockInv, SumIsSeen
      <3> QED
          BY <3>1, <3>2, OthersAreOvertaken DEF StockInv, ShelfMatchesVariants
  <2>9. ASSUME NEW w \in Keeper, CommitUnmoved(w) PROVE StockInv'
      <3>1. /\ shelf' = SeenShelf(w) /\ product'.stock = product.stock
            /\ stale' = (stale \/ ActiveSum(SeenShelf(w)) # ActiveSum(shelf))
            /\ keeper' = Overtaken(w) /\ keeper[w].form
          BY <2>9 DEF CommitUnmoved, StockInv
      <3>2. ~stale' => product'.stock = ActiveSum(shelf)'
          BY <3>1 DEF StockInv, ShelfMatchesVariants
      <3> QED
          BY <3>1, <3>2, OthersAreOvertaken DEF StockInv, ShelfMatchesVariants
  <2>10. ASSUME NEW w \in Keeper, NEW v, NEW units, ImportVariant(w, v, units) PROVE StockInv'
      <3>1. PICK pc : pc = IF units = shelf[v].available THEN "unmoved" ELSE "open"
          OBVIOUS
      <3>2. PICK change : change = [x \in {v} |-> [available |-> units, active |-> TRUE]]
          OBVIOUS
      <3>3. PICK q : q = [NoStockWork EXCEPT !.pc = pc, !.form = TRUE, !.change = change]
          OBVIOUS
      <3>4. KeeperRow(q) /\ q.pc = pc /\ q.form /\ ~q.late
          BY <3>3 DEF NoStockWork, KeeperRow
      <3>5. /\ keeper' = [keeper EXCEPT ![w] = q]
            /\ ProductIsFree(w) /\ UNCHANGED <<shelf, product, stale>>
          BY <2>10, <3>1, <3>2, <3>3 DEF ImportVariant
      <3>6. pc # "summed"
          BY <3>1
      <3> QED
          BY <3>4, <3>5, <3>6, WorkStep
  <2>6. ASSUME NEW w \in Keeper, AbortStockWork(w) PROVE StockInv'
      BY <2>6, <1>0, WorkStep DEF AbortStockWork
  <2>7. ASSUME NEW status, SetProductStatus(status) PROVE StockInv'
      <3>1. /\ shelf' = shelf /\ keeper' = keeper /\ stale' = stale
            /\ product' = [product EXCEPT !.status = status]
          BY <2>7 DEF SetProductStatus
      <3>2. product'.stock = product.stock
          BY <3>1
      <3> QED
          BY <3>1, <3>2 DEF StockInv, SumIsSeen, SeenShelf, ShelfMatchesVariants, KeeperRow
  <2>8. CASE UNCHANGED stockVars
      BY <2>8 DEF stockVars, StockInv, SumIsSeen, SeenShelf, ShelfMatchesVariants, KeeperRow
  <2> QED
      BY <2>1, <2>2, <2>3, <2>4, <2>5, <2>6, <2>7, <2>8, <2>9, <2>10 DEF StockNext
<1> QED
    BY <1>1, <1>2, PTL DEF StockSpec

-----------------------------------------------------------------------------
(* Composed property *)

\* The counters of reviews, votes and answers are what they count, unless the last recount was
\* overtaken (modules/reviews/service.js); the stock of a product is the sum over its active
\* variants unless the last sum was overtaken or an import left it out
\* (services/productVariants.js, modules/imports/worker.js), and the sum of a transaction that
\* locked the product first never is overtaken; for any number of customers, moderators,
\* variants and transactions.
THEOREM AggregatesMatchRowsHolds == ReviewSpec /\ StockSpec => []AggregatesMatchRows
<1>1. ReviewInv /\ StockInv => AggregatesMatchRows
    BY DEF ReviewInv, StockInv, AggregatesMatchRows
<1> QED
    BY <1>1, ReviewInductive, StockInductive, PTL
=============================================================================
