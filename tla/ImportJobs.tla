------------------------------ MODULE ImportJobs ------------------------------
(***************************************************************************)
(* One import job of a catalogue file (modules/imports): the administrator *)
(* previews, queues, retries and cancels it (service.js); the workers      *)
(* claim the job, then its rows one by one, and write each row's change in *)
(* a transaction of its own (worker.js).                                   *)
(*                                                                         *)
(* A claim of a job is never taken over: when its worker stops, the job    *)
(* stays processing until an administrator cancels it.  What a row changes *)
(* in the catalogue is counted, not modelled.                              *)
(***************************************************************************)
EXTENDS Naturals

CONSTANTS
    ImportRow,        \* rows of the file without a validation error
    Importer,         \* worker processes
    NoImportRow,      \* a worker that holds no row
    RowAttempts,      \* attempts of a row (5 in the code)
    MaxImportFaults   \* bound: lost acknowledgements, database errors and crashes

ASSUME ImportAssumption ==
    /\ NoImportRow \notin ImportRow
    /\ RowAttempts \in Nat \ {0}
    /\ MaxImportFaults \in Nat

VARIABLES
    job,           \* import_jobs.status
    rows,          \* import_job_rows: status, attempts
    importers,     \* what each worker holds
    applied,       \* how often the change of each row was committed (history)
    importFaults   \* faults so far

importVars == <<job, rows, importers, applied, importFaults>>

JobStatuses == {"previewed", "queued", "processing", "completed", "completed_with_errors",
                "cancelled"}
RowStatuses == {"pending", "processing", "succeeded", "error", "cancelled"}

\* pc: "picking" between rows of the claimed job, "applying" a claimed row, "failing" in
\* the catch of processClaimedRow, "finishing" when no row is left.
ImporterStates ==
    [pc : {"idle", "picking", "applying", "failing", "finishing"},
     row : ImportRow \cup {NoImportRow}]

Importing(w, pc, r) == importers' = [importers EXCEPT ![w] = [pc |-> pc, row |-> r]]

Unfinished(r) == rows[r].st \in {"pending", "processing"}

-----------------------------------------------------------------------------
(* service.js: administrators *)

\* queueJob: only what was previewed; the preview and the file still match.
QueueJob ==
    /\ job = "previewed"
    /\ job' = "queued"
    /\ UNCHANGED <<rows, importers, applied, importFaults>>

\* retryJob: the rows in error that have an attempt left.
RetryJob ==
    LET again == {r \in ImportRow : rows[r].st = "error" /\ rows[r].attempts < RowAttempts}
    IN /\ job = "completed_with_errors"
       /\ again # {}
       /\ rows' = [r \in ImportRow |->
             IF r \in again THEN [rows[r] EXCEPT !.st = "pending"] ELSE rows[r]]
       /\ job' = "queued"
       /\ UNCHANGED <<importers, applied, importFaults>>

\* cancelJob: rows a worker holds are left to it.
CancelJob ==
    /\ job \in {"previewed", "queued", "processing"}
    /\ job' = "cancelled"
    /\ rows' = [r \in ImportRow |->
          IF rows[r].st = "pending" THEN [rows[r] EXCEPT !.st = "cancelled"] ELSE rows[r]]
    /\ UNCHANGED <<importers, applied, importFaults>>

-----------------------------------------------------------------------------
(* worker.js *)

\* claimJob, with SKIP LOCKED.
ClaimJob(w) ==
    /\ importers[w].pc = "idle"
    /\ job = "queued"
    /\ job' = "processing"
    /\ Importing(w, "picking", NoImportRow)
    /\ UNCHANGED <<rows, applied, importFaults>>

\* claimRow: a row whose lock is older than ten minutes, and whose worker is gone, is
\* pending again; then some pending row with an attempt left is taken.
ClaimRow(w) ==
    LET stale == {r \in ImportRow :
                    /\ rows[r].st = "processing" /\ rows[r].attempts < RowAttempts
                    /\ \A v \in Importer : importers[v].row # r}
        free == {r \in ImportRow : rows[r].st = "pending"} \cup stale
        due == {r \in free : rows[r].attempts < RowAttempts}
        reset == [r \in ImportRow |->
                    IF r \in stale THEN [rows[r] EXCEPT !.st = "pending"] ELSE rows[r]]
    IN /\ importers[w].pc = "picking"
       /\ IF job = "cancelled" \/ due = {}
          THEN /\ Importing(w, "finishing", NoImportRow)
               /\ rows' = IF job = "cancelled" THEN rows ELSE reset
          ELSE \E r \in due :
                  /\ rows' = [reset EXCEPT ![r] = [st |-> "processing", attempts |-> @.attempts + 1]]
                  /\ Importing(w, "applying", r)
       /\ UNCHANGED <<job, applied, importFaults>>

\* processClaimedRow, committed: the change and the row's success are one transaction, and
\* only a row that still says processing is applied.
ApplyRow(w) ==
    LET r == importers[w].row
    IN /\ importers[w].pc = "applying"
       /\ IF rows[r].st = "processing"
          THEN /\ rows' = [rows EXCEPT ![r].st = "succeeded"]
               /\ applied' = [applied EXCEPT ![r] = @ + 1]
          ELSE UNCHANGED <<rows, applied>>
       /\ Importing(w, "picking", NoImportRow)
       /\ UNCHANGED <<job, importFaults>>

\* ... rolled back: the row cannot be applied (unknown category, plan limit, image ...).
RejectRow(w) ==
    /\ importers[w].pc = "applying"
    /\ Importing(w, "failing", importers[w].row)
    /\ UNCHANGED <<job, rows, applied, importFaults>>

\* ... committed, but the acknowledgement is lost.
ApplyUnacknowledged(w) ==
    LET r == importers[w].row
    IN /\ importFaults < MaxImportFaults
       /\ importers[w].pc = "applying"
       /\ rows[r].st = "processing"
       /\ rows' = [rows EXCEPT ![r].st = "succeeded"]
       /\ applied' = [applied EXCEPT ![r] = @ + 1]
       /\ Importing(w, "failing", r)
       /\ importFaults' = importFaults + 1
       /\ UNCHANGED <<job>>

\* Mutant of RecordRowError: the row's own status is not asked.
RecordRowErrorAnyway(w) ==
    /\ importers[w].pc = "failing"
    /\ rows' = [rows EXCEPT ![importers[w].row].st = "error"]
    /\ Importing(w, "picking", NoImportRow)
    /\ UNCHANGED <<job, applied, importFaults>>

\* The catch of processClaimedRow, where the row still says processing.
RecordRowError(w) ==
    LET r == importers[w].row
    IN /\ importers[w].pc = "failing"
       /\ rows' = IF rows[r].st = "processing" THEN [rows EXCEPT ![r].st = "error"] ELSE rows
       /\ Importing(w, "picking", NoImportRow)
       /\ UNCHANGED <<job, applied, importFaults>>

\* finalizeJob: a cancelled job stays so; with rows left it is queued again.
FinalizeJob(w) ==
    /\ importers[w].pc = "finishing"
    /\ job' = IF job = "cancelled" THEN "cancelled"
              ELSE IF \E r \in ImportRow : Unfinished(r) THEN "queued"
              ELSE IF \E r \in ImportRow : rows[r].st = "error" THEN "completed_with_errors"
              ELSE "completed"
    /\ Importing(w, "idle", NoImportRow)
    /\ UNCHANGED <<rows, applied, importFaults>>

\* The process stops, or a statement outside the row's own transaction fails: the loop is
\* left and nobody else claims the job.
ImporterStops(w) ==
    /\ importFaults < MaxImportFaults
    /\ importers[w].pc # "idle"
    /\ Importing(w, "idle", NoImportRow)
    /\ importFaults' = importFaults + 1
    /\ UNCHANGED <<job, rows, applied>>

-----------------------------------------------------------------------------
ImportInit ==
    /\ job = "previewed"
    /\ rows = [r \in ImportRow |-> [st |-> "pending", attempts |-> 0]]
    /\ importers = [w \in Importer |-> [pc |-> "idle", row |-> NoImportRow]]
    /\ applied = [r \in ImportRow |-> 0]
    /\ importFaults = 0

ImporterStep(w) ==
    \/ ClaimRow(w) \/ ApplyRow(w) \/ RejectRow(w) \/ RecordRowError(w) \/ FinalizeJob(w)

ImportNext ==
    \/ QueueJob \/ RetryJob \/ CancelJob
    \/ \E w \in Importer :
         ClaimJob(w) \/ ImporterStep(w) \/ ApplyUnacknowledged(w) \/ ImporterStops(w)

ImportSpec == ImportInit /\ [][ImportNext]_importVars

-----------------------------------------------------------------------------
(* Properties *)

\* Job, rows and workers hold values the tables and the code know.
ImportTypeOK ==
    /\ job \in JobStatuses
    /\ rows \in [ImportRow -> [st : RowStatuses, attempts : 0..RowAttempts]]
    /\ importers \in [Importer -> ImporterStates]
    /\ applied \in [ImportRow -> Nat]
    /\ importFaults \in 0..MaxImportFaults

\* A row changes the catalogue at most once, and only if it says so, through retries of the
\* job, cancellations, crashes and commits whose acknowledgement is lost.
RowAppliedOnce ==
    \A r \in ImportRow : applied[r] = IF rows[r].st = "succeeded" THEN 1 ELSE 0
=============================================================================
