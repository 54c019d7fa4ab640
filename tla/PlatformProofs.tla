----------------------------- MODULE PlatformProofs -----------------------------
(***************************************************************************)
(* Theorems about the services between a store and the platform, for any   *)
(* number of workers, requests, rows and limits.                           *)
(*                                                                         *)
(* Each rests on an invariant of its own.  ImportJobs: a row that was      *)
(* applied says so and is not offered again.  Migrations: what a process   *)
(* listed stays so while it holds the lock.  ApiRequests: who runs holds   *)
(* the key, and the key has no row yet.  ApiKeys: who found room, and who  *)
(* rotates, holds the lock under which that is still so.  CustomDomains: a *)
(* hostname has one row that is not released, whose challenge is younger   *)
(* than its tenure.  Subscriptions: a publication holds its draft, and a   *)
(* grant resolved what was published.  StoreTeam: who joins holds the seat *)
(* it counted, and the invite it accepts stays open.                       *)
(***************************************************************************)
EXTENDS PlatformServices, FiniteSetTheorems, SequenceTheorems, TLAPS

-----------------------------------------------------------------------------
(* ImportJobs *)

\* A worker that applies a row, or records its failure, has one.
HasItsRow ==
    \A w \in Importer :
        importers[w].pc \in {"applying", "failing"} => importers[w].row \in ImportRow

\* The inductive invariant of ImportJobs.
ImportInv == ImportTypeOK /\ HasItsRow /\ RowAppliedOnce

\* What import_rows may hold.
RowState == [st : RowStatuses, attempts : 0..RowAttempts]

\* A row that keeps its attempts and takes another status.
LEMMA RowGoes == ASSUME NEW row \in RowState, NEW st \in RowStatuses
                 PROVE  [row EXCEPT !.st = st] \in RowState /\ [row EXCEPT !.st = st].st = st
    BY DEF RowState

\* The invariant of ImportJobs holds throughout.
LEMMA ImportInductive == ImportSpec => []ImportInv
<1> USE ImportAssumption
<1>1. ImportInit => ImportInv
    BY DEF ImportInit, ImportInv, ImportTypeOK, HasItsRow, RowAppliedOnce, JobStatuses, RowStatuses,
           ImporterStates
<1>2. ImportInv /\ [ImportNext]_importVars => ImportInv'
  <2> SUFFICES ASSUME ImportInv, [ImportNext]_importVars PROVE ImportInv'
      OBVIOUS
  <2> USE DEF ImportInv
  <2>t. /\ rows \in [ImportRow -> RowState] /\ importers \in [Importer -> ImporterStates]
        /\ applied \in [ImportRow -> Nat] /\ importFaults \in 0..MaxImportFaults
        /\ \A w \in Importer : importers[w] \in ImporterStates
        /\ \A r \in ImportRow : rows[r] \in RowState
      BY DEF ImportTypeOK, RowState
  <2>s. RowStatuses = {"pending", "processing", "succeeded", "error", "cancelled"}
      BY DEF RowStatuses
  \* Rows that were not applied, and are not afterwards.
  <2>r. ASSUME rows' \in [ImportRow -> RowState], applied' = applied,
               \A r \in ImportRow : rows'[r].st = "succeeded" <=> rows[r].st = "succeeded"
        PROVE  RowAppliedOnce'
      BY <2>r DEF RowAppliedOnce
  \* A worker goes on to something else.
  <2>w. ASSUME NEW w \in Importer,
               NEW pc \in {"idle", "picking", "applying", "failing", "finishing"},
               NEW r \in ImportRow \cup {NoImportRow},
               pc \in {"applying", "failing"} => r \in ImportRow,
               Importing(w, pc, r)
        PROVE  importers' \in [Importer -> ImporterStates] /\ HasItsRow'
    <3>1. importers' = [importers EXCEPT ![w] = [pc |-> pc, row |-> r]]
        BY <2>w DEF Importing
    <3>2. [pc |-> pc, row |-> r] \in ImporterStates
        BY DEF ImporterStates
    <3> QED
        BY <2>t, <2>w, <3>1, <3>2 DEF HasItsRow
  \* A row that says processing is applied.
  <2>a. ASSUME NEW r \in ImportRow, rows[r].st = "processing",
               rows' = [rows EXCEPT ![r].st = "succeeded"],
               applied' = [applied EXCEPT ![r] = @ + 1]
        PROVE  /\ rows' \in [ImportRow -> RowState] /\ applied' \in [ImportRow -> Nat]
               /\ RowAppliedOnce'
    <3>1. /\ [rows[r] EXCEPT !.st = "succeeded"] \in RowState
          /\ [rows[r] EXCEPT !.st = "succeeded"].st = "succeeded"
        BY <2>s, <2>t, RowGoes
    <3>2. /\ rows' \in [ImportRow -> RowState] /\ rows'[r].st = "succeeded"
          /\ \A s \in ImportRow \ {r} : rows'[s] = rows[s]
        BY <2>a, <2>t, <3>1
    <3>3. /\ applied' \in [ImportRow -> Nat] /\ applied'[r] = applied[r] + 1
          /\ \A s \in ImportRow \ {r} : applied'[s] = applied[s]
        BY <2>a, <2>t
    <3> QED
        BY <2>a, <3>2, <3>3 DEF RowAppliedOnce
  <2>1. CASE QueueJob
      BY <2>1 DEF QueueJob, ImportTypeOK, HasItsRow, RowAppliedOnce, JobStatuses
  <2>2. CASE RetryJob
    <3>1. /\ rows' \in [ImportRow -> RowState]
          /\ \A r \in ImportRow : rows'[r].st = "succeeded" <=> rows[r].st = "succeeded"
        BY <2>2, <2>s, <2>t, RowGoes DEF RetryJob
    <3> QED
        BY <2>2, <2>r, <3>1 DEF RetryJob, ImportTypeOK, HasItsRow, JobStatuses, RowState
  <2>3. CASE CancelJob
    <3>1. /\ rows' \in [ImportRow -> RowState]
          /\ \A r \in ImportRow : rows'[r].st = "succeeded" <=> rows[r].st = "succeeded"
        BY <2>3, <2>s, <2>t, RowGoes DEF CancelJob
    <3> QED
        BY <2>3, <2>r, <3>1 DEF CancelJob, ImportTypeOK, HasItsRow, JobStatuses, RowState
  <2>4. ASSUME NEW w \in Importer, ClaimJob(w) PROVE ImportInv'
    <3>1. importers' \in [Importer -> ImporterStates] /\ HasItsRow'
        BY <2>4, <2>w DEF ClaimJob
    <3> QED
        BY <2>4, <3>1 DEF ClaimJob, ImportTypeOK, RowAppliedOnce, JobStatuses
  <2>5. ASSUME NEW w \in Importer, ClaimRow(w) PROVE ImportInv'
    <3> DEFINE stale == {r \in ImportRow :
                    /\ rows[r].st = "processing" /\ rows[r].attempts < RowAttempts
                    /\ \A v \in Importer : importers[v].row # r}
               free == {r \in ImportRow : rows[r].st = "pending"} \cup stale
               due == {r \in free : rows[r].attempts < RowAttempts}
               reset == [r \in ImportRow |->
                    IF r \in stale THEN [rows[r] EXCEPT !.st = "pending"] ELSE rows[r]]
    <3>1. /\ reset \in [ImportRow -> RowState]
          /\ \A r \in ImportRow : reset[r].st = "succeeded" <=> rows[r].st = "succeeded"
          /\ \A r \in ImportRow : reset[r].attempts = rows[r].attempts
      <4>1. \A r \in ImportRow : /\ reset[r] \in RowState
                                 /\ reset[r].st = "succeeded" <=> rows[r].st = "succeeded"
                                 /\ reset[r].attempts = rows[r].attempts
        <5> SUFFICES ASSUME NEW r \in ImportRow
                     PROVE  /\ reset[r] \in RowState
                            /\ reset[r].st = "succeeded" <=> rows[r].st = "succeeded"
                            /\ reset[r].attempts = rows[r].attempts
            OBVIOUS
        <5>1. [rows[r] EXCEPT !.st = "pending"].attempts = rows[r].attempts
            BY <2>t DEF RowState
        <5>2. CASE r \in stale
            BY <2>s, <2>t, <5>1, <5>2, RowGoes
        <5>3. CASE r \notin stale
            BY <2>t, <5>3
        <5> QED
            BY <5>2, <5>3
      <4> QED
          BY <4>1
    <3>2. UNCHANGED <<job, applied, importFaults>>
        BY <2>5 DEF ClaimRow
    <3>3. CASE job = "cancelled" \/ due = {}
      <4>1. Importing(w, "finishing", NoImportRow) /\ rows' \in {rows, reset}
          BY <2>5, <3>3 DEF ClaimRow
      <4>2. importers' \in [Importer -> ImporterStates] /\ HasItsRow'
          BY <2>w, <4>1
      <4> HIDE DEF reset
      <4>3. rows' \in [ImportRow -> RowState] /\ RowAppliedOnce'
          BY <2>r, <2>t, <3>1, <3>2, <4>1
      <4> QED
          BY <3>2, <4>2, <4>3 DEF ImportTypeOK, RowState
    <3>4. CASE ~(job = "cancelled" \/ due = {})
      <4>1. PICK r \in due :
               /\ rows' = [reset EXCEPT ![r] =
                    [st |-> "processing", attempts |-> reset[r].attempts + 1]]
               /\ Importing(w, "applying", r)
          BY <2>5, <3>4 DEF ClaimRow
      <4>2. r \in ImportRow /\ rows[r].attempts < RowAttempts /\ rows[r].st # "succeeded"
          OBVIOUS
      <4> HIDE DEF reset, due
      <4>3. [st |-> "processing", attempts |-> reset[r].attempts + 1] \in RowState
          BY <2>s, <2>t, <3>1, <4>2 DEF RowState
      <4>4. /\ rows' \in [ImportRow -> RowState]
            /\ \A s \in ImportRow : rows'[s].st = "succeeded" <=> rows[s].st = "succeeded"
          BY <3>1, <4>1, <4>2, <4>3
      <4>5. importers' \in [Importer -> ImporterStates] /\ HasItsRow'
          BY <2>w, <4>1, <4>2
      <4> QED
          BY <2>r, <3>2, <4>4, <4>5 DEF ImportTypeOK, RowState
    <3> QED
        BY <3>3, <3>4
  <2>6. ASSUME NEW w \in Importer, ApplyRow(w) \/ ApplyUnacknowledged(w) PROVE ImportInv'
    <3> DEFINE r == importers[w].row
    <3>1. /\ r \in ImportRow
          /\ Importing(w, "picking", NoImportRow) \/ Importing(w, "failing", r)
          /\ job' = job /\ importFaults' \in 0..MaxImportFaults
        BY <2>6, <2>t DEF ApplyRow, ApplyUnacknowledged, HasItsRow
    <3>2. importers' \in [Importer -> ImporterStates] /\ HasItsRow'
        BY <2>w, <3>1
    <3>3. /\ rows' \in [ImportRow -> RowState] /\ applied' \in [ImportRow -> Nat] /\ RowAppliedOnce'
      <4>1. CASE rows[r].st = "processing"
          BY <2>6, <2>a, <3>1, <4>1 DEF ApplyRow, ApplyUnacknowledged
      <4>2. CASE rows[r].st # "processing"
          BY <2>6, <2>t, <4>2 DEF ApplyRow, ApplyUnacknowledged, RowAppliedOnce
      <4> QED
          BY <4>1, <4>2
    <3> QED
        BY <3>1, <3>2, <3>3 DEF ImportTypeOK, RowState
  <2>7. ASSUME NEW w \in Importer, RejectRow(w) PROVE ImportInv'
    <3>1. importers' \in [Importer -> ImporterStates] /\ HasItsRow'
        BY <2>7, <2>w DEF RejectRow, HasItsRow
    <3> QED
        BY <2>7, <3>1 DEF RejectRow, ImportTypeOK, RowAppliedOnce
  <2>8. ASSUME NEW w \in Importer, RecordRowError(w) PROVE ImportInv'
    <3> DEFINE r == importers[w].row
    <3>1. /\ r \in ImportRow /\ Importing(w, "picking", NoImportRow)
          /\ UNCHANGED <<job, applied, importFaults>>
          /\ rows' = IF rows[r].st = "processing" THEN [rows EXCEPT ![r].st = "error"] ELSE rows
        BY <2>8 DEF RecordRowError, HasItsRow
    <3>2. importers' \in [Importer -> ImporterStates] /\ HasItsRow'
        BY <2>w, <3>1
    <3>3. /\ rows' \in [ImportRow -> RowState]
          /\ \A s \in ImportRow : rows'[s].st = "succeeded" <=> rows[s].st = "succeeded"
      <4>1. /\ [rows[r] EXCEPT !.st = "error"] \in RowState
            /\ [rows[r] EXCEPT !.st = "error"].st = "error"
          BY <2>s, <2>t, <3>1, RowGoes
      <4> QED
          BY <2>t, <3>1, <4>1
    <3> QED
        BY <2>r, <3>1, <3>2, <3>3 DEF ImportTypeOK, RowState
  <2>9. ASSUME NEW w \in Importer, FinalizeJob(w) PROVE ImportInv'
    <3>1. importers' \in [Importer -> ImporterStates] /\ HasItsRow'
        BY <2>9, <2>w DEF FinalizeJob
    <3> QED
        BY <2>9, <3>1 DEF FinalizeJob, ImportTypeOK, RowAppliedOnce, JobStatuses
  <2>10. ASSUME NEW w \in Importer, ImporterStops(w) PROVE ImportInv'
    <3>1. importers' \in [Importer -> ImporterStates] /\ HasItsRow'
        BY <2>10, <2>w DEF ImporterStops
    <3>2. importFaults' \in 0..MaxImportFaults
        BY <2>10, <2>t DEF ImporterStops
    <3> QED
        BY <2>10, <3>1, <3>2 DEF ImporterStops, ImportTypeOK, RowAppliedOnce
  <2>11. CASE UNCHANGED importVars
      BY <2>11 DEF importVars, ImportTypeOK, HasItsRow, RowAppliedOnce
  <2> QED
      BY <2>1, <2>2, <2>3, <2>4, <2>5, <2>6, <2>7, <2>8, <2>9, <2>10, <2>11
      DEF ImportNext, ImporterStep
<1> QED
    BY <1>1, <1>2, PTL DEF ImportSpec

-----------------------------------------------------------------------------
(* Migrations *)

\* A process between the lock and the end of its session holds the lock; what it listed is
\* still so for the files it has not come to.
SessionIsAlone ==
    \A w \in Migrator :
        /\ migrators[w].pc \in {"locked", "listed", "undo"} => migrationLock = w
        /\ migrators[w].pc = "listed" =>
             \A f \in File : f >= migrators[w].next => migrators[w].applied[f] = checksums[f]

\* The inductive invariant of Migrations.
MigrationInv == MigrationTypeOK /\ SessionIsAlone /\ MigratedOnce

\* The invariant of Migrations holds throughout.
LEMMA MigrationInductive == MigrationSpec => []MigrationInv
<1> USE MigrationAssumption, NobodyAssumption
<1>0. NoFiles \in [File -> 0..MaxContent] /\ Stopped \in MigratorStates /\ Stopped.pc = "idle"
    BY DEF NoFiles, Stopped, MigratorStates
<1>1. MigrationInit => MigrationInv
    BY <1>0 DEF MigrationInit, MigrationInv, MigrationTypeOK, SessionIsAlone, MigratedOnce, NoFiles
<1>2. MigrationInv /\ [MigrationNext]_migrationVars => MigrationInv'
  <2> SUFFICES ASSUME MigrationInv, [MigrationNext]_migrationVars PROVE MigrationInv'
      OBVIOUS
  <2> USE DEF MigrationInv
  <2>t. /\ files \in [File -> 0..MaxContent] /\ checksums \in [File -> 0..MaxContent]
        /\ inEffect \in [File -> Nat] /\ migrationLock \in Migrator \cup {Nobody}
        /\ migrators \in [Migrator -> MigratorStates]
        /\ \A w \in Migrator : migrators[w] \in MigratorStates
        /\ MaxFiles \in Nat /\ MaxContent \in Nat \ {0} /\ \A f \in File : f \in Nat
      BY DEF MigrationTypeOK, File
  \* One process goes on, within its session.
  <2>g. ASSUME NEW w \in Migrator, NEW q \in MigratorStates,
               migrators' = [migrators EXCEPT ![w] = q],
               migrationLock' \in Migrator \cup {Nobody},
               \/ migrationLock' = migrationLock
               \/ migrationLock = Nobody /\ migrationLock' = w
               \/ migrationLock = w /\ migrationLock' = Nobody,
               q.pc \in {"locked", "listed", "undo"} => migrationLock' = w,
               q.pc = "listed" => \A f \in File : f >= q.next => q.applied[f] = checksums'[f],
               checksums' = checksums \/ migrationLock = w
        PROVE  migrators' \in [Migrator -> MigratorStates] /\ SessionIsAlone'
    <3>1. /\ migrators' \in [Migrator -> MigratorStates] /\ migrators'[w] = q
          /\ \A v \in Migrator \ {w} : migrators'[v] = migrators[v]
        BY <2>g, <2>t
    <3>2. ASSUME NEW v \in Migrator \ {w}, migrators[v].pc \in {"locked", "listed", "undo"}
          PROVE  migrationLock' = v /\ checksums' = checksums
        BY <2>g, <3>2 DEF SessionIsAlone
    <3> QED
        BY <2>g, <3>1, <3>2 DEF SessionIsAlone
  <2>1. ASSUME NEW w \in Migrator, NEW pc \in {"upgrade", "rollback"}, StartMigrator(w, pc)
        PROVE  MigrationInv'
    <3> DEFINE q == [migrators[w] EXCEPT !.pc = pc, !.image = files]
    <3>1. q \in MigratorStates /\ q.pc = pc
        BY <2>t DEF MigratorStates
    <3>2. migrators' = [migrators EXCEPT ![w] = q]
        BY <2>1 DEF StartMigrator
    <3> HIDE DEF q
    <3>3. UNCHANGED <<files, checksums, inEffect, migrationLock>>
        BY <2>1 DEF StartMigrator
    <3>4. migrators' \in [Migrator -> MigratorStates] /\ SessionIsAlone'
        BY <2>t, <2>g, <3>1, <3>2, <3>3
    <3> QED
        BY <3>3, <3>4 DEF MigrationTypeOK, MigratedOnce
  <2>2. ASSUME NEW w \in Migrator, AcquireLock(w) PROVE MigrationInv'
    <3> DEFINE q == [migrators[w] EXCEPT !.pc = LockedPc(w)]
    <3>1. q \in MigratorStates /\ q.pc \in {"locked", "undo"}
        BY <2>t DEF MigratorStates, LockedPc
    <3>2. migrators' = [migrators EXCEPT ![w] = q]
        BY <2>2 DEF AcquireLock
    <3> HIDE DEF q
    <3>3. /\ UNCHANGED <<files, checksums, inEffect>> /\ migrationLock = Nobody
          /\ migrationLock' = w
        BY <2>2 DEF AcquireLock
    <3>4. migrators' \in [Migrator -> MigratorStates] /\ SessionIsAlone'
        BY <2>g, <3>1, <3>2, <3>3
    <3> QED
        BY <3>3, <3>4 DEF MigrationTypeOK, MigratedOnce
  <2>3. ASSUME NEW w \in Migrator, ListApplied(w) PROVE MigrationInv'
    <3> DEFINE q == [migrators[w] EXCEPT !.pc = "listed", !.applied = checksums]
    <3>1. q \in MigratorStates /\ q.pc = "listed" /\ q.applied = checksums
        BY <2>t DEF MigratorStates
    <3>2. migrators' = [migrators EXCEPT ![w] = q]
        BY <2>3 DEF ListApplied
    <3> HIDE DEF q
    <3>3. UNCHANGED <<files, checksums, inEffect, migrationLock>> /\ migrationLock = w
        BY <2>3 DEF ListApplied, SessionIsAlone
    <3>4. migrators' \in [Migrator -> MigratorStates] /\ SessionIsAlone'
        BY <2>t, <2>g, <3>1, <3>2, <3>3
    <3> QED
        BY <3>3, <3>4 DEF MigrationTypeOK, MigratedOnce
  <2>4. ASSUME NEW w \in Migrator, ApplyMigration(w) \/ PassOver(w) PROVE MigrationInv'
    <3> DEFINE f == migrators[w].next
               q == [migrators[w] EXCEPT !.next = f + 1]
    <3>1. f \in File /\ migrators[w].pc = "listed" /\ migrationLock = w
        BY <2>4 DEF ApplyMigration, PassOver, SessionIsAlone
    <3>2. /\ q \in MigratorStates /\ q.pc = "listed" /\ q.applied = migrators[w].applied
          /\ q.next = f + 1
      <4>1. f + 1 \in 1..(MaxFiles + 1)
          BY <2>t, <3>1 DEF File
      <4> QED
          BY <2>t, <3>1, <4>1 DEF MigratorStates
    <3>3. migrators' = [migrators EXCEPT ![w] = q] /\ UNCHANGED <<files, migrationLock>>
        BY <2>4 DEF ApplyMigration, PassOver
    <3>4. \/ UNCHANGED <<checksums, inEffect>>
          \/ /\ checksums[f] = 0 /\ migrators[w].image[f] \in 1..MaxContent
             /\ inEffect' = [inEffect EXCEPT ![f] = @ + 1]
             /\ checksums' = [checksums EXCEPT ![f] = migrators[w].image[f]]
        BY <2>4, <2>t, <3>1 DEF ApplyMigration, PassOver, SessionIsAlone, MigratorStates
    <3>5. /\ checksums' \in [File -> 0..MaxContent] /\ inEffect' \in [File -> Nat]
          /\ \A g \in File \ {f} : checksums'[g] = checksums[g]
          /\ MigratedOnce'
        BY <2>t, <3>1, <3>4 DEF MigratedOnce
    <3> HIDE DEF q
    <3>6. \A g \in File : g >= q.next => q.applied[g] = checksums'[g]
        BY <2>t, <3>1, <3>2, <3>5 DEF SessionIsAlone
    <3>7. migrators' \in [Migrator -> MigratorStates] /\ SessionIsAlone'
        BY <2>t, <2>g, <3>1, <3>2, <3>3, <3>6
    <3> QED
        BY <3>3, <3>5, <3>7 DEF MigrationTypeOK
  <2>5. ASSUME NEW w \in Migrator, EndSession(w) \/ \E f \in File : RollBackFile(w, f)
        PROVE  MigrationInv'
    <3>1. /\ Ends(w) /\ files' = files
          /\ \/ UNCHANGED <<checksums, inEffect>>
             \/ \E f \in File : /\ migrationLock = w /\ inEffect' = [inEffect EXCEPT ![f] = 0]
                                /\ checksums' = [checksums EXCEPT ![f] = 0]
        BY <2>5 DEF EndSession, RollBackFile, SessionIsAlone
    <3>2. /\ checksums' \in [File -> 0..MaxContent] /\ inEffect' \in [File -> Nat]
          /\ MigratedOnce'
        BY <2>t, <3>1 DEF MigratedOnce
    <3>3. migrators' \in [Migrator -> MigratorStates] /\ SessionIsAlone'
        BY <1>0, <2>t, <2>g, <3>1 DEF Ends
    <3> QED
        BY <2>t, <3>1, <3>2, <3>3 DEF MigrationTypeOK, Ends
  <2>6. ASSUME NEW f \in File, DeployFile(f) PROVE MigrationInv'
    <3>1. files' \in [File -> 0..MaxContent]
        BY <2>6, <2>t DEF DeployFile
    <3> QED
        BY <2>6, <3>1 DEF DeployFile, MigrationTypeOK, SessionIsAlone, MigratedOnce
  <2>7. CASE UNCHANGED migrationVars
      BY <2>7 DEF migrationVars, MigrationTypeOK, SessionIsAlone, MigratedOnce
  <2> QED
      BY <2>1, <2>2, <2>3, <2>4, <2>5, <2>6, <2>7 DEF MigrationNext
<1> QED
    BY <1>1, <1>2, PTL DEF MigrationSpec

-----------------------------------------------------------------------------
(* ApiRequests *)

\* Requests, the key's row and its holder hold values of their kind.
CallRows ==
    /\ calls \in [Call -> CallStates]
    /\ keyRow = NoRow \/ \E c \in Call : keyRow = [status |-> "completed", of |-> c]
    /\ keyHolder \in Call \cup {NoCall}

\* A request that runs holds the key, which has no row yet; the one whose run is committed is
\* over, and its row says so.
HolderRuns ==
    /\ \A c \in Call : calls[c].pc \in {"claimed", "mutated", "answered"} => keyHolder = c
    /\ keyHolder # NoCall => keyRow = NoRow
    /\ keyRow = NoRow => effects = {}
    /\ keyRow # NoRow => effects = {keyRow.of} /\ calls[keyRow.of].pc = "done"

\* A replay repeats the run that is committed, for the same body.
ReplayIsSame ==
    \A c \in Call :
        calls[c].answer.kind = "replay" =>
            /\ calls[c].pc = "done" /\ keyRow # NoRow /\ calls[c].answer.of = keyRow.of
            /\ calls[keyRow.of].body = calls[c].body

\* The inductive invariant of ApiRequests.
CallInv == CallRows /\ HolderRuns /\ ReplayIsSame

\* What is told to a request that does not run.
LEMMA AnswerKinds ==
    /\ NoRow.status = "none"
    /\ \A kind \in {"none", "limited", "conflict", "in_progress", "error", "timeout"} :
          Refuse(kind) \in Answers /\ Refuse(kind).kind # "replay"
    /\ \A c \in Call : [kind |-> "ok", of |-> c] \in Answers
                       /\ [kind |-> "replay", of |-> c] \in Answers
    BY DEF NoRow, Refuse, Answers

\* A step that writes no row and answers with no replay.
LEMMA CallGoes ==
    ASSUME CallInv, NEW c \in Call, NEW q \in CallStates, calls' = [calls EXCEPT ![c] = q],
           q.answer.kind # "replay", keyHolder' \in Call \cup {NoCall},
           \/ keyHolder' = keyHolder
           \/ keyHolder = NoCall /\ keyHolder' = c /\ keyRow = NoRow
           \/ keyHolder = c /\ keyHolder' = NoCall,
           q.pc \in {"claimed", "mutated", "answered"} => keyHolder' = c,
           calls[c].pc # "done", calls[c].pc # "idle" => q.body = calls[c].body,
           UNCHANGED <<keyRow, effects>>
    PROVE  CallInv'
<1>1. calls'[c] = q /\ \A d \in Call \ {c} : calls'[d] = calls[d]
    BY DEF CallInv, CallRows
<1>2. CallRows'
    BY DEF CallInv, CallRows
<1>3. keyRow # NoRow => keyRow.of \in Call \ {c}
    BY DEF CallInv, CallRows, HolderRuns
<1>4. HolderRuns'
    BY <1>1, <1>3, ApiAssumption DEF CallInv, HolderRuns
<1>5. ReplayIsSame'
    BY <1>1, <1>3 DEF CallInv, ReplayIsSame
<1> QED
    BY <1>2, <1>4, <1>5 DEF CallInv

\* The invariant of ApiRequests holds throughout.
LEMMA CallInductive == ApiSpec => []CallInv
<1> USE ApiAssumption
<1>1. ApiInit => CallInv
  <2> SUFFICES ASSUME ApiInit PROVE CallInv
      OBVIOUS
  <2>1. \A c \in Call :
            calls[c] \in CallStates /\ calls[c].pc = "idle" /\ calls[c].answer.kind = "none"
    <3>1. \A b \in Body : [pc |-> "idle", body |-> b, answer |-> Refuse("none"), closed |-> FALSE]
                            \in CallStates
        BY AnswerKinds DEF CallStates
    <3>2. Refuse("none").kind = "none"
        BY DEF Refuse
    <3> QED
        BY <3>1, <3>2 DEF ApiInit
  <2> QED
      BY <2>1 DEF ApiInit, CallInv, CallRows, HolderRuns, ReplayIsSame
<1>2. CallInv /\ [ApiNext]_callVars => CallInv'
  <2> SUFFICES ASSUME CallInv, [ApiNext]_callVars PROVE CallInv'
      OBVIOUS
  <2>t. /\ \A c \in Call : calls[c] \in CallStates /\ calls[c].answer \in Answers
        /\ keyHolder \in Call \cup {NoCall}
        /\ \A c \in Call : calls[c].answer.kind = "replay" => calls[c].pc = "done"
      BY DEF CallInv, CallRows, ReplayIsSame, CallStates
  <2>1. ASSUME NEW c \in Call, SendCall(c) PROVE CallInv'
    <3>1. PICK b \in Body : calls' = [calls EXCEPT ![c].pc = "sent", ![c].body = b]
        BY <2>1 DEF SendCall
    <3> DEFINE q == [calls[c] EXCEPT !.pc = "sent", !.body = b]
    <3>2. q \in CallStates /\ q.pc = "sent" /\ q.answer = calls[c].answer
        BY <2>t DEF CallStates
    <3>3. calls' = [calls EXCEPT ![c] = q]
        BY <3>1
    <3> HIDE DEF q
    <3> QED
        BY <2>1, <2>t, <3>2, <3>3, CallGoes DEF SendCall
  \* The steps that go to another place, with or without an answer.
  <2>g. ASSUME NEW c \in Call, calls[c].pc # "done", calls[c].pc # "idle",
               NEW pc \in {"counted", "claimed", "mutated", "done"}, Goto(c, pc),
               keyHolder' \in Call \cup {NoCall},
               \/ keyHolder' = keyHolder
               \/ keyHolder = NoCall /\ keyHolder' = c /\ keyRow = NoRow
               \/ keyHolder = c /\ keyHolder' = NoCall,
               pc \in {"claimed", "mutated"} => keyHolder' = c,
               UNCHANGED <<keyRow, effects>>
        PROVE  CallInv'
    <3> DEFINE q == [calls[c] EXCEPT !.pc = pc]
    <3>1. q \in CallStates /\ q.pc = pc /\ q.answer = calls[c].answer /\ q.body = calls[c].body
        BY <2>t DEF CallStates
    <3>2. calls' = [calls EXCEPT ![c] = q]
        BY <2>g DEF Goto
    <3> HIDE DEF q
    <3> QED
        BY <2>g, <2>t, <3>1, <3>2, CallGoes
  <2>a. ASSUME NEW c \in Call, calls[c].pc # "done", calls[c].pc # "idle",
               NEW pc \in {"answered", "done"}, NEW answer \in Answers, Reply(c, pc, answer)
        PROVE  \E q \in CallStates : /\ calls' = [calls EXCEPT ![c] = q] /\ q.pc = pc
                                     /\ q.answer = answer /\ q.body = calls[c].body
    <3> DEFINE q == [calls[c] EXCEPT !.pc = pc, !.answer = answer]
    <3>1. q \in CallStates /\ q.pc = pc /\ q.answer = answer /\ q.body = calls[c].body
        BY <2>t DEF CallStates
    <3>2. calls' = [calls EXCEPT ![c] = q]
        BY <2>a DEF Reply
    <3> HIDE DEF q
    <3> QED
        BY <3>1, <3>2
  <2>2. ASSUME NEW c \in Call, EnforceMonthlyQuota(c) PROVE CallInv'
    <3>1. UNCHANGED <<keyRow, keyHolder, effects>> /\ calls[c].pc = "sent"
        BY <2>2 DEF EnforceMonthlyQuota
    <3>2. CASE Goto(c, "counted")
        BY <2>g, <2>t, <3>1, <3>2
    <3>3. CASE Reply(c, "done", Refuse("limited"))
      <4>1. Refuse("limited") \in Answers /\ Refuse("limited").kind # "replay"
          BY AnswerKinds
      <4> QED
          BY <2>a, <2>t, <3>1, <3>3, <4>1, CallGoes
    <3> QED
        BY <2>2, <3>2, <3>3 DEF EnforceMonthlyQuota
  <2>3. ASSUME NEW c \in Call, ClaimIdempotency(c) PROVE CallInv'
    <3>1. UNCHANGED <<keyRow, effects>> /\ calls[c].pc = "counted" /\ keyHolder = NoCall
        BY <2>3 DEF ClaimIdempotency
    <3>2. CASE keyRow = NoRow
      <4>1. keyHolder' = c /\ Goto(c, "claimed")
          BY <2>3, <3>2 DEF ClaimIdempotency
      <4> QED
          BY <2>g, <3>1, <3>2, <4>1
    <3>3. CASE keyRow # NoRow
      <4>1. Reply(c, "done", Existing(c)) /\ keyHolder' = keyHolder
          BY <2>3, <3>3 DEF ClaimIdempotency
      <4>2. PICK d \in Call : keyRow = [status |-> "completed", of |-> d]
          BY <3>3 DEF CallInv, CallRows
      <4>3. CASE calls[d].body # calls[c].body
        <5>1. Existing(c) = Refuse("conflict")
            BY <4>2, <4>3 DEF Existing
        <5>2. Existing(c) \in Answers /\ Existing(c).kind # "replay"
            BY <5>1, AnswerKinds
        <5> QED
            BY <2>a, <2>t, <3>1, <4>1, <5>2, CallGoes
      <4>4. CASE calls[d].body = calls[c].body
        <5>1. Existing(c) = [kind |-> "replay", of |-> d]
            BY <4>2, <4>4 DEF Existing
        <5>2. Existing(c) \in Answers /\ Existing(c).of = d
          <6>1. [kind |-> "replay", of |-> d] \in Answers
              BY AnswerKinds
          <6> QED
              BY <5>1, <6>1
        <5>3. PICK q \in CallStates : /\ calls' = [calls EXCEPT ![c] = q] /\ q.pc = "done"
                                      /\ q.answer = Existing(c) /\ q.body = calls[c].body
            BY <2>a, <3>1, <4>1, <5>2
        <5>4. calls'[c] = q /\ \A e \in Call \ {c} : calls'[e] = calls[e]
            BY <5>3 DEF CallInv, CallRows
        <5>5. CallRows' /\ d # c /\ keyRow' = keyRow /\ keyRow.of = d
            BY <3>1, <3>3, <4>1, <4>2, <5>3 DEF CallInv, CallRows, HolderRuns
        <5>6. HolderRuns'
            BY <3>1, <3>3, <4>1, <5>3, <5>4, <5>5 DEF CallInv, HolderRuns
        <5>7. ReplayIsSame'
            BY <3>1, <3>3, <4>4, <5>2, <5>3, <5>4, <5>5 DEF CallInv, ReplayIsSame
        <5> QED
            BY <5>5, <5>6, <5>7 DEF CallInv
      <4> QED
          BY <4>3, <4>4
    <3> QED
        BY <3>2, <3>3
  <2>4. ASSUME NEW c \in Call, RunOperation(c) PROVE CallInv'
    <3>1. UNCHANGED <<keyRow, effects>> /\ calls[c].pc = "claimed" /\ keyHolder = c
        BY <2>4 DEF RunOperation, CallInv, HolderRuns
    <3>2. CASE Goto(c, "mutated") /\ keyHolder' = keyHolder
        BY <2>g, <3>1, <3>2
    <3>3. CASE Reply(c, "done", Refuse("error")) /\ keyHolder' = NoCall
      <4>1. Refuse("error") \in Answers /\ Refuse("error").kind # "replay"
          BY AnswerKinds
      <4> QED
          BY <2>a, <3>1, <3>3, <4>1, CallGoes
    <3> QED
        BY <2>4, <3>2, <3>3 DEF RunOperation
  <2>5. ASSUME NEW c \in Call, AnswerCall(c) PROVE CallInv'
    <3>1. /\ UNCHANGED <<keyRow, effects, keyHolder>> /\ calls[c].pc = "mutated" /\ keyHolder = c
          /\ Reply(c, "answered", [kind |-> "ok", of |-> c])
        BY <2>5 DEF AnswerCall, CallInv, HolderRuns
    <3>2. [kind |-> "ok", of |-> c] \in Answers /\ [kind |-> "ok", of |-> c].kind # "replay"
        BY AnswerKinds
    <3> QED
        BY <2>a, <3>1, <3>2, CallGoes
  <2>6. ASSUME NEW c \in Call, CommitCall(c) PROVE CallInv'
    <3>1. /\ keyRow' = [status |-> "completed", of |-> c] /\ keyHolder' = NoCall
          /\ effects' = effects \cup {c} /\ calls[c].pc = "answered" /\ keyHolder = c
          /\ calls' = [calls EXCEPT ![c] = [calls[c] EXCEPT !.pc = "done"]]
        BY <2>6 DEF CommitCall, CallInv, HolderRuns, Goto
    <3>2. keyRow = NoRow /\ effects = {} /\ \A d \in Call : calls[d].answer.kind # "replay"
        BY <3>1 DEF CallInv, HolderRuns, ReplayIsSame
    <3> DEFINE q == [calls[c] EXCEPT !.pc = "done"]
    <3>3. q \in CallStates /\ q.pc = "done" /\ q.answer = calls[c].answer
        BY <2>t DEF CallStates
    <3>4. calls' = [calls EXCEPT ![c] = q]
        BY <3>1
    <3> HIDE DEF q
    <3>5. calls'[c] = q /\ \A e \in Call \ {c} : calls'[e] = calls[e]
        BY <3>4 DEF CallInv, CallRows
    <3>6. keyRow' # NoRow /\ keyRow'.of = c
        BY <3>1 DEF NoRow
    <3>7. CallRows'
        BY <3>1, <3>3, <3>4 DEF CallInv, CallRows
    <3>8. \A d \in Call : calls'[d].pc \notin {"claimed", "mutated", "answered"}
        BY <3>1, <3>3, <3>5 DEF CallInv, HolderRuns
    <3>9. HolderRuns'
        BY <3>1, <3>2, <3>3, <3>5, <3>6, <3>8 DEF HolderRuns
    <3>10. ReplayIsSame'
        BY <3>2, <3>3, <3>5 DEF ReplayIsSame
    <3> QED
        BY <3>7, <3>9, <3>10 DEF CallInv
  <2>7. ASSUME NEW c \in Call, CommitFails(c) PROVE CallInv'
    <3>1. /\ UNCHANGED <<keyRow, effects>> /\ calls[c].pc = "answered" /\ keyHolder = c
          /\ keyHolder' = NoCall /\ Goto(c, "done")
        BY <2>7 DEF CommitFails, CallInv, HolderRuns
    <3> QED
        BY <2>g, <3>1
  <2>8. ASSUME NEW c \in Call, AbandonCall(c) PROVE CallInv'
    <3>1. /\ UNCHANGED <<keyRow, effects>> /\ calls[c].pc \in {"claimed", "mutated"}
          /\ keyHolder = c /\ keyHolder' = NoCall
        BY <2>8 DEF AbandonCall, CallInv, HolderRuns
    <3>2. PICK closed \in BOOLEAN, kind \in {"none", "timeout"} :
             calls' = [calls EXCEPT ![c] = [calls[c] EXCEPT !.pc = "orphan", !.closed = closed,
                                                            !.answer = Refuse(kind)]]
        BY <2>8 DEF AbandonCall
    <3> DEFINE q == [calls[c] EXCEPT !.pc = "orphan", !.closed = closed, !.answer = Refuse(kind)]
    <3>3. Refuse(kind) \in Answers /\ Refuse(kind).kind # "replay"
        BY AnswerKinds
    <3>4. q \in CallStates /\ q.pc = "orphan" /\ q.answer = Refuse(kind) /\ q.body = calls[c].body
        BY <2>t, <3>3 DEF CallStates
    <3>5. calls' = [calls EXCEPT ![c] = q]
        BY <3>2
    <3> HIDE DEF q
    <3> QED
        BY <3>1, <3>3, <3>4, <3>5, CallGoes
  <2>9. ASSUME NEW c \in Call, OrphanEnds(c) PROVE CallInv'
    <3>1. /\ UNCHANGED <<keyRow, effects, keyHolder>> /\ calls[c].pc = "orphan" /\ Goto(c, "done")
        BY <2>9 DEF OrphanEnds
    <3> QED
        BY <2>g, <2>t, <3>1
  <2>10. CASE UNCHANGED callVars
      BY <2>10 DEF callVars, CallInv, CallRows, HolderRuns, ReplayIsSame
  <2> QED
      BY <2>1, <2>2, <2>3, <2>4, <2>5, <2>6, <2>7, <2>8, <2>9, <2>10 DEF ApiNext
<1> QED
    BY <1>1, <1>2, PTL DEF ApiSpec

\* An idempotency key lets at most one of its requests run, however many arrive together, and
\* every answer from the store repeats that run, for the same body (public API idempotency).
THEOREM KeyRunsOnceHolds == ApiSpec => []KeyRunsOnce
<1>1. ASSUME CallInv PROVE KeyRunsOnce
  <2>1. Cardinality(effects) <= 1
    <3>1. effects = {} \/ effects = {keyRow.of}
        BY <1>1 DEF CallInv, HolderRuns
    <3>2. Cardinality({}) = 0 /\ Cardinality({keyRow.of}) = 1
        BY FS_EmptySet, FS_Singleton
    <3> QED
        BY <3>1, <3>2
  <2> QED
      BY <1>1, <2>1 DEF CallInv, HolderRuns, ReplayIsSame, KeyRunsOnce
<1> QED
    BY <1>1, CallInductive, PTL

-----------------------------------------------------------------------------
(* ApiKeys *)

\* Active keys that somebody created.
Created == {k \in Active : keys[k].from = NoKey}

\* A rotation group is the first key of it, and exists.
GroupsExist ==
    \A k \in Key : IF keys[k].st = "none" THEN keys[k] = Unused
                   ELSE keys[k].group \in Key /\ keys[keys[k].group].st # "none"

\* A rotation has its group's lock, and nobody but its key is current in the group.
RotationIsAlone(a) ==
    /\ keyAdmins[a].pc \in {"loaded", "reread"} =>
         keyAdmins[a].key \in Key /\ keys[keyAdmins[a].key].st # "none"
    /\ keyAdmins[a].pc = "reread" =>
         /\ rotationLock[keys[keyAdmins[a].key].group] = a
         /\ \A k \in Active :
              keys[k].group = keys[keyAdmins[a].key].group /\ keys[k].overlap = "none" =>
                  k = keyAdmins[a].key

\* The limit a creation read was in force once; if it found room it has the lock, and there is
\* room for one more created key until its own is inserted.
RoomIsKept(a) ==
    /\ keyAdmins[a].pc \in {"limit", "room"} =>
         Unlimited(peakLimit) \/ (keyAdmins[a].seen # 0 /\ keyAdmins[a].seen <= peakLimit)
    /\ keyAdmins[a].pc = "room" /\ keyAdmins[a].seen # 0 =>
         /\ capacityLock = a
         /\ Unlimited(peakLimit) \/ Cardinality(Created) + 1 <= keyAdmins[a].seen

\* The limit in force is at most the largest there was.
PeakIsReached ==
    IsFiniteSet(Active) /\ (Unlimited(peakLimit) \/ (planLimit # 0 /\ planLimit <= peakLimit))

\* The inductive invariant of ApiKeys.
KeyInv ==
    /\ KeyTypeOK /\ GroupsExist /\ OneCurrentKey /\ PeakIsReached /\ CreatedWithinPlan
    /\ \A a \in KeyAdmin : RotationIsAlone(a) /\ RoomIsKept(a)

\* Rows and requests, one by one.
LEMMA KeyTyped ==
    ASSUME KeyTypeOK
    PROVE  /\ \A k \in Key : keys[k] \in KeyStates /\ keys[k].st \in {"none", "active", "revoked"}
           /\ \A a \in KeyAdmin : keyAdmins[a] \in KeyAdminStates /\ keyAdmins[a].seen \in Nat
           /\ Unused \in KeyStates /\ Unused.st = "none"
           /\ peakLimit \in Nat /\ planLimit \in Nat /\ Limit \subseteq Nat
    BY KeyAssumption DEF KeyTypeOK, KeyStates, KeyAdminStates, Unused

\* No key is there yet.
LEMMA KeyInitially == KeyInit => KeyInv
<1> SUFFICES ASSUME KeyInit PROVE KeyInv
    OBVIOUS
<1> USE KeyAssumption
<1>1. KeyTypeOK
    BY DEF KeyInit, KeyTypeOK, KeyStates, KeyAdminStates, Unused
<1>2. Active = {} /\ Created = {} /\ \A k \in Key : keys[k] = Unused
    BY DEF KeyInit, Active, Unused, Created
<1>3. OneCurrentKey /\ GroupsExist /\ \A a \in KeyAdmin : RotationIsAlone(a) /\ RoomIsKept(a)
    BY <1>2 DEF KeyInit, OneCurrentKey, GroupsExist, RotationIsAlone, RoomIsKept, Unused
<1>4. PeakIsReached /\ CreatedWithinPlan
  <2>1. IsFiniteSet({}) /\ Cardinality({}) = 0
      BY FS_EmptySet
  <2> QED
      BY <1>1, <1>2, <2>1, KeyTyped
      DEF KeyInit, PeakIsReached, CreatedWithinPlan, Unlimited, Created
<1> QED
    BY <1>1, <1>3, <1>4 DEF KeyInv

\* A request that goes on, and may take a free lock, leaves the others what they have.
LEMMA KeyAdminGoes ==
    ASSUME KeyInv, NEW a \in KeyAdmin, NEW q \in KeyAdminStates,
           keyAdmins' = [keyAdmins EXCEPT ![a] = q], UNCHANGED <<keys, planLimit, peakLimit>>,
           \/ rotationLock' = rotationLock
           \/ \E g \in Key : /\ rotationLock[g] = NoAdmin
                             /\ rotationLock' = [rotationLock EXCEPT ![g] = a],
           \/ capacityLock' = capacityLock
           \/ capacityLock = NoAdmin /\ capacityLock' = a,
           RotationIsAlone(a)', RoomIsKept(a)'
    PROVE  KeyInv'
<1>1. \A b \in KeyAdmin \ {a} : keyAdmins'[b] = keyAdmins[b]
    BY DEF KeyInv, KeyTypeOK
<1>2. /\ Active' = Active /\ Created' = Created /\ GroupsExist' /\ OneCurrentKey'
      /\ CreatedWithinPlan' /\ PeakIsReached'
    BY DEF KeyInv, Active, Created, GroupsExist, OneCurrentKey, CreatedWithinPlan, PeakIsReached
<1>3. KeyTypeOK'
    BY DEF KeyInv, KeyTypeOK
<1>4. ASSUME NEW b \in KeyAdmin \ {a} PROVE RotationIsAlone(b)' /\ RoomIsKept(b)'
  <2>1. RotationIsAlone(b) /\ RoomIsKept(b) /\ b # NoAdmin
      BY AdminAssumption DEF KeyInv
  <2>2. \A g \in Key : rotationLock[g] = b => rotationLock'[g] = b
      BY <2>1 DEF KeyInv, KeyTypeOK
  <2>3. keyAdmins[b].pc = "reread" => keys[keyAdmins[b].key].group \in Key
      BY <2>1 DEF RotationIsAlone, KeyInv, GroupsExist
  <2>4. RotationIsAlone(b)'
      BY <1>1, <1>2, <2>1, <2>2, <2>3 DEF RotationIsAlone
  <2>5. RoomIsKept(b)'
      BY <1>1, <1>2, <2>1 DEF RoomIsKept
  <2> QED
      BY <2>4, <2>5
<1> QED
    BY <1>2, <1>3, <1>4 DEF KeyInv

\* The requests that only read, count and lock.
LEMMA KeyRequestSteps ==
    ASSUME KeyInv, NEW a \in KeyAdmin,
           \/ ReadLimit(a) \/ AssertCapacity(a) \/ LockAndReread(a)
           \/ \E k \in Key : LoadKey(a, k)
    PROVE  KeyInv'
<1> USE KeyAssumption, AdminAssumption
<1>t. /\ keyAdmins[a] \in KeyAdminStates /\ keyAdmins[a].seen \in Nat /\ planLimit \in Nat
      /\ peakLimit \in Nat /\ keyAdmins \in [KeyAdmin -> KeyAdminStates]
      /\ RotationIsAlone(a) /\ RoomIsKept(a)
    BY KeyTyped DEF KeyInv, KeyTypeOK
\* A step to another place.
<1>g. ASSUME NEW pc \in {"room", "done", "reread"}, Step(a, pc)
      PROVE  \E q \in KeyAdminStates :
                /\ keyAdmins' = [keyAdmins EXCEPT ![a] = q] /\ keyAdmins'[a] = q
                /\ q.pc = pc /\ q.key = keyAdmins[a].key /\ q.seen = keyAdmins[a].seen
  <2> DEFINE q == [keyAdmins[a] EXCEPT !.pc = pc]
  <2>1. q \in KeyAdminStates /\ q.pc = pc /\ q.key = keyAdmins[a].key /\ q.seen = keyAdmins[a].seen
      BY <1>t DEF KeyAdminStates
  <2>2. keyAdmins' = [keyAdmins EXCEPT ![a] = q]
      BY <1>g DEF Step
  <2> HIDE DEF q
  <2> QED
      BY <1>t, <2>1, <2>2
<1>1. CASE ReadLimit(a)
  <2> DEFINE q == [keyAdmins[a] EXCEPT !.pc = "limit", !.seen = planLimit]
  <2>1. q \in KeyAdminStates /\ q.pc = "limit" /\ q.seen = planLimit
      BY <1>t DEF KeyAdminStates
  <2>2. keyAdmins' = [keyAdmins EXCEPT ![a] = q] /\ UNCHANGED <<keys, planLimit, peakLimit>>
        /\ UNCHANGED <<capacityLock, rotationLock>>
      BY <1>1 DEF ReadLimit
  <2> HIDE DEF q
  <2>3. keyAdmins'[a] = q
      BY <1>t, <2>2
  <2>4. RotationIsAlone(a)' /\ RoomIsKept(a)'
      BY <2>1, <2>2, <2>3 DEF RotationIsAlone, RoomIsKept, KeyInv, PeakIsReached
  <2> QED
      BY <2>1, <2>2, <2>4, KeyAdminGoes
<1>2. CASE AssertCapacity(a)
  <2>1. UNCHANGED <<keys, planLimit, peakLimit, rotationLock>> /\ keyAdmins[a].pc = "limit"
      BY <1>2 DEF AssertCapacity
  <2>2. PICK pc \in {"room", "done"}, q \in KeyAdminStates :
          /\ keyAdmins' = [keyAdmins EXCEPT ![a] = q] /\ keyAdmins'[a] = q
          /\ q.pc = pc /\ q.seen = keyAdmins[a].seen
      BY <1>2, <1>g DEF AssertCapacity
  <2>3. capacityLock' = capacityLock \/ (capacityLock = NoAdmin /\ capacityLock' = a)
      BY <1>2 DEF AssertCapacity
  <2>4. ASSUME q.pc = "room", q.seen # 0
        PROVE  capacityLock' = a /\ Cardinality(Active) + 1 <= keyAdmins[a].seen
    <3>1. keyAdmins'[a].pc = "room" /\ ~Unlimited(keyAdmins[a].seen)
        BY <2>2, <2>4 DEF Unlimited
    <3>2. ~Step(a, "done")
      <4> SUFFICES ASSUME Step(a, "done") PROVE FALSE
          OBVIOUS
      <4> QED
          BY <1>g, <3>1
    <3> QED
        BY <1>2, <2>2, <3>1, <3>2 DEF AssertCapacity
  <2>5. Cardinality(Created) <= Cardinality(Active) /\ Cardinality(Created) \in Nat
        /\ Cardinality(Active) \in Nat /\ Created' = Created
    <3>1. Created \subseteq Active /\ IsFiniteSet(Active)
        BY DEF Created, KeyInv, PeakIsReached
    <3>2. Created' = Created
        BY <2>1 DEF Created, Active
    <3> QED
        BY <3>1, <3>2, FS_Subset, FS_CardinalityType
  <2>6. RoomIsKept(a)'
      BY <1>t, <2>1, <2>2, <2>4, <2>5 DEF RoomIsKept
  <2>7. RotationIsAlone(a)'
      BY <2>2 DEF RotationIsAlone
  <2> QED
      BY <2>1, <2>2, <2>3, <2>6, <2>7, KeyAdminGoes
<1>3. CASE LockAndReread(a)
  <2> DEFINE k == keyAdmins[a].key
  <2>1. /\ UNCHANGED <<keys, planLimit, peakLimit, capacityLock>> /\ keyAdmins[a].pc = "loaded"
        /\ rotationLock[keys[k].group] = NoAdmin /\ k \in Key /\ keys[k].st # "none"
        /\ keys[k].group \in Key
      BY <1>3, <1>t DEF LockAndReread, RotationIsAlone, KeyInv, GroupsExist
  <2>2. CASE Step(a, "done") /\ UNCHANGED rotationLock
    <3>1. PICK q \in KeyAdminStates :
            keyAdmins' = [keyAdmins EXCEPT ![a] = q] /\ keyAdmins'[a] = q /\ q.pc = "done"
        BY <1>g, <2>2
    <3>2. RoomIsKept(a)' /\ RotationIsAlone(a)'
        BY <3>1 DEF RoomIsKept, RotationIsAlone
    <3> QED
        BY <2>1, <2>2, <3>1, <3>2, KeyAdminGoes
  <2>3. CASE /\ ~(keys[k].overlap # "none" \/ keys[k].st # "active")
             /\ Step(a, "reread") /\ rotationLock' = [rotationLock EXCEPT ![keys[k].group] = a]
    <3>1. PICK q \in KeyAdminStates :
            keyAdmins' = [keyAdmins EXCEPT ![a] = q] /\ keyAdmins'[a] = q /\ q.pc = "reread"
            /\ q.key = k
        BY <1>g, <2>3
    <3>2. \A other \in Active :
             keys[other].group = keys[k].group /\ keys[other].overlap = "none" => other = k
        BY <2>1, <2>3 DEF KeyInv, OneCurrentKey, Active
    <3>3. rotationLock'[keys[k].group] = a
        BY <2>1, <2>3 DEF KeyInv, KeyTypeOK
    <3>4. RotationIsAlone(a)' /\ RoomIsKept(a)'
        BY <2>1, <3>1, <3>2, <3>3 DEF RotationIsAlone, RoomIsKept, Active
    <3> QED
        BY <2>1, <2>3, <3>1, <3>4, KeyAdminGoes
  <2> QED
      BY <1>3, <2>2, <2>3 DEF LockAndReread
<1>4. ASSUME NEW k \in Key, LoadKey(a, k) PROVE KeyInv'
  <2> DEFINE q == [keyAdmins[a] EXCEPT !.pc = "loaded", !.key = k]
  <2>1. q \in KeyAdminStates /\ q.pc = "loaded" /\ q.key = k
      BY <1>t DEF KeyAdminStates
  <2>2. keyAdmins' = [keyAdmins EXCEPT ![a] = q] /\ UNCHANGED <<keys, planLimit, peakLimit>>
        /\ UNCHANGED <<capacityLock, rotationLock>> /\ keys[k].st = "active"
      BY <1>4 DEF LoadKey
  <2> HIDE DEF q
  <2>3. keyAdmins'[a] = q
      BY <1>t, <2>2
  <2>4. RotationIsAlone(a)' /\ RoomIsKept(a)'
      BY <2>1, <2>2, <2>3 DEF RotationIsAlone, RoomIsKept
  <2> QED
      BY <2>1, <2>2, <2>4, KeyAdminGoes
<1> QED
    BY <1>1, <1>2, <1>3, <1>4

\* What a transaction of a changes: rows of keys, of which new may become active, and the
\* locks it gives back.  A key is current only if it was, or nobody else in its group is.
KeyRowsChange(new, a) ==
    /\ UNCHANGED <<planLimit, peakLimit>>
    /\ keys' \in [Key -> KeyStates]
    /\ Active' \subseteq Active \cup {new}
    /\ \A k \in Key :
          keys[k].st # "none" => keys'[k].st # "none" /\ keys'[k].group = keys[k].group
    /\ \A k \in Key :
          IF keys'[k].st = "none" THEN keys'[k] = Unused
          ELSE keys'[k].group \in Key /\ keys'[keys'[k].group].st # "none"
    /\ \A k \in Active' : keys'[k].overlap = "none" =>
          \/ k \in Active /\ keys[k].overlap = "none"
          \/ /\ \A other \in Active' : other # k /\ keys'[other].overlap = "none" =>
                    keys'[other].group # keys'[k].group
             /\ \A b \in KeyAdmin \ {a} : keyAdmins[b].pc = "reread" =>
                    keys[keyAdmins[b].key].group # keys'[k].group
    /\ \/ Created' \subseteq Created
       \/ /\ a \in KeyAdmin /\ Created' \subseteq Created \cup {new}
          /\ keyAdmins[a].pc = "room"
\* What a transaction of a gives back at its end: its locks, and nothing of the others.
LocksGoBack(a) ==
    /\ capacityLock' = capacityLock \/ (capacityLock = a /\ capacityLock' = NoAdmin)
    /\ rotationLock' \in [Key -> KeyAdmin \cup {NoAdmin}]
    /\ \A g \in Key : \/ rotationLock'[g] = rotationLock[g]
                      \/ rotationLock[g] = a /\ rotationLock'[g] = NoAdmin
    /\ keyAdmins' \in [KeyAdmin -> KeyAdminStates]
    /\ \A b \in KeyAdmin \ {a} : keyAdmins'[b] = keyAdmins[b]
    /\ a \in KeyAdmin => keyAdmins'[a].pc = "done"

\* One more element adds at most one.
LEMMA OneMore ==
    ASSUME NEW S, IsFiniteSet(S), NEW x
    PROVE  Cardinality(S \cup {x}) <= Cardinality(S) + 1
<1>1. Cardinality(S) \in Nat
    BY FS_CardinalityType
<1>2. CASE x \in S
  <2>1. S \cup {x} = S
      BY <1>2
  <2> QED
      BY <1>1, <2>1
<1>3. CASE x \notin S
  <2>1. Cardinality(S \cup {x}) = Cardinality(S) + 1
      BY <1>3, FS_AddElement
  <2> QED
      BY <1>1, <2>1
<1> QED
    BY <1>2, <1>3

\* What a transaction that changes keys must show: the rest follows.
LEMMA KeysChange ==
    ASSUME KeyInv, NEW new, NEW a \in KeyAdmin \cup {NoAdmin}, KeyRowsChange(new, a), LocksGoBack(a)
    PROVE  KeyInv'
<1> USE KeyAssumption, AdminAssumption DEF KeyRowsChange, LocksGoBack
<1>1. KeyTypeOK'
    BY DEF KeyInv, KeyTypeOK
<1>2. GroupsExist'
    BY DEF GroupsExist
<1>3. OneCurrentKey'
  <2> SUFFICES ASSUME NEW k \in Active', NEW other \in Active', k # other,
                      keys'[k].group = keys'[other].group,
                      keys'[k].overlap = "none", keys'[other].overlap = "none"
               PROVE  FALSE
      BY DEF OneCurrentKey
  <2>1. k \in Active /\ keys[k].overlap = "none" /\ other \in Active /\ keys[other].overlap = "none"
      OBVIOUS
  <2>2. keys'[k].group = keys[k].group /\ keys'[other].group = keys[other].group
      BY <2>1 DEF Active
  <2>3. OneCurrentKey
      BY DEF KeyInv
  <2>4. keys[k].group = keys[other].group
      BY <2>2
  <2> QED
      BY <2>1, <2>3, <2>4 DEF OneCurrentKey
<1>4. /\ IsFiniteSet(Active) /\ IsFiniteSet(Active') /\ IsFiniteSet(Created)
      /\ IsFiniteSet(Created \cup {new}) /\ IsFiniteSet(Created')
  <2>1. IsFiniteSet(Active) /\ Created \subseteq Active /\ Created' \subseteq Created \cup {new}
      BY DEF KeyInv, PeakIsReached, Created
  <2>2. IsFiniteSet(Active \cup {new}) /\ IsFiniteSet(Created)
      BY <2>1, FS_AddElement, FS_Subset
  <2>3. IsFiniteSet(Created \cup {new})
      BY <2>2, FS_AddElement
  <2> QED
      BY <2>1, <2>2, <2>3, FS_Subset
<1>5. /\ Cardinality(Created) \in Nat /\ Cardinality(Created') \in Nat
      /\ Created' \subseteq Created => Cardinality(Created') <= Cardinality(Created)
      /\ Created' \subseteq Created \cup {new} => Cardinality(Created') <= Cardinality(Created) + 1
  <2>1. Cardinality(Created \cup {new}) <= Cardinality(Created) + 1
      BY <1>4, OneMore
  <2>2. Cardinality(Created \cup {new}) \in Nat
      BY <1>4, FS_CardinalityType
  <2>3. Cardinality(Created) \in Nat /\ Cardinality(Created') \in Nat
      BY <1>4, FS_CardinalityType
  <2>4. Created' \subseteq Created => Cardinality(Created') <= Cardinality(Created)
      BY <1>4, FS_Subset
  <2>5. Created' \subseteq Created \cup {new} =>
            Cardinality(Created') <= Cardinality(Created \cup {new})
      BY <1>4, FS_Subset
  <2> QED
      BY <2>1, <2>2, <2>3, <2>4, <2>5
<1>6. peakLimit \in Nat /\ \A b \in KeyAdmin : keyAdmins[b].seen \in Nat
    BY KeyTyped DEF KeyInv
\* Who adds a created key had room, and nobody else has the capacity lock.
<1>7. \/ Created' \subseteq Created
      \/ Unlimited(peakLimit)
      \/ /\ Created' \subseteq Created \cup {new} /\ a \in KeyAdmin /\ capacityLock = a
         /\ Cardinality(Created) + 1 <= peakLimit
  <2> SUFFICES ASSUME ~(Created' \subseteq Created), ~Unlimited(peakLimit)
               PROVE  /\ Created' \subseteq Created \cup {new} /\ a \in KeyAdmin
                      /\ capacityLock = a /\ Cardinality(Created) + 1 <= peakLimit
      OBVIOUS
  <2>1. a \in KeyAdmin /\ keyAdmins[a].pc = "room" /\ RoomIsKept(a)
      BY DEF KeyInv
  <2> QED
      BY <1>5, <1>6, <2>1 DEF RoomIsKept
<1>8. PeakIsReached' /\ CreatedWithinPlan'
  <2>1. Unlimited(peakLimit) \/ Cardinality(Created) <= peakLimit
      BY DEF KeyInv, CreatedWithinPlan, Created
  <2>2. Unlimited(peakLimit) \/ Cardinality(Created') <= peakLimit
      BY <1>5, <1>6, <1>7, <2>1
  <2>3. peakLimit' = peakLimit
      OBVIOUS
  <2> QED
      BY <1>4, <2>2, <2>3 DEF KeyInv, PeakIsReached, CreatedWithinPlan, Unlimited, Created
<1>9. ASSUME NEW b \in KeyAdmin PROVE RotationIsAlone(b)' /\ RoomIsKept(b)'
  <2>1. CASE b = a
      BY <2>1 DEF RotationIsAlone, RoomIsKept
  <2>2. CASE b # a
    <3>1. RotationIsAlone(b) /\ RoomIsKept(b) /\ keyAdmins'[b] = keyAdmins[b] /\ b # NoAdmin
        BY <2>2 DEF KeyInv
    <3>2. RotationIsAlone(b)'
      <4>1. keyAdmins[b].pc = "reread" => keys[keyAdmins[b].key].group \in Key
          BY <3>1 DEF RotationIsAlone, KeyInv, GroupsExist
      <4>2. ASSUME keyAdmins[b].pc = "reread", NEW k \in Active', keys'[k].overlap = "none",
                   keys'[k].group = keys'[keyAdmins[b].key].group
            PROVE  k = keyAdmins[b].key
        <5>1. keys'[keyAdmins[b].key].group = keys[keyAdmins[b].key].group
            BY <3>1, <4>2 DEF RotationIsAlone
        <5>2. k \in Active /\ keys[k].overlap = "none"
            BY <2>2, <4>2, <5>1
        <5>3. keys'[k].group = keys[k].group
            BY <5>2 DEF Active
        <5> QED
            BY <3>1, <4>2, <5>1, <5>2, <5>3 DEF RotationIsAlone
      <4> QED
          BY <2>2, <3>1, <4>1, <4>2 DEF RotationIsAlone
    <3>3. RoomIsKept(b)'
      <4>1. keyAdmins[b].pc = "room" /\ keyAdmins[b].seen # 0 =>
               /\ capacityLock' = b
               /\ Unlimited(peakLimit) \/ Cardinality(Created') + 1 <= keyAdmins[b].seen
          BY <1>5, <1>6, <1>7, <2>2, <3>1 DEF RoomIsKept
      <4> QED
          BY <3>1, <4>1 DEF RoomIsKept
    <3> QED
        BY <3>2, <3>3
  <2> QED
      BY <2>1, <2>2
<1> QED
    BY <1>1, <1>2, <1>3, <1>8, <1>9 DEF KeyInv

\* The steps that add, replace and end keys.
LEMMA KeyChangeSteps ==
    ASSUME KeyInv,
           \/ \E a \in KeyAdmin : \/ InsertKey(a) \/ RotateKey(a)
                                  \/ \E k \in Key : RevokeKey(a, k)
           \/ \E k \in Key : OverlapEnds(k)
    PROVE  KeyInv'
<1> USE KeyAssumption, AdminAssumption
<1>t. /\ keys \in [Key -> KeyStates] /\ \A k \in Key : keys[k] \in KeyStates
      /\ keyAdmins \in [KeyAdmin -> KeyAdminStates]
      /\ rotationLock \in [Key -> KeyAdmin \cup {NoAdmin}]
      /\ capacityLock \in KeyAdmin \cup {NoAdmin}
      /\ \A k \in Key : keys[k].st # "none" =>
             keys[k].group \in Key /\ keys[keys[k].group].st # "none"
      /\ \A k \in Key : keys[k].st = "none" => keys[k] = Unused
      /\ Unused.st = "none"
    BY KeyTyped DEF KeyInv, KeyTypeOK, GroupsExist
<1>d. ASSUME NEW a \in KeyAdmin, Step(a, "done")
      PROVE  /\ keyAdmins' \in [KeyAdmin -> KeyAdminStates] /\ keyAdmins'[a].pc = "done"
             /\ \A b \in KeyAdmin \ {a} : keyAdmins'[b] = keyAdmins[b]
  <2> DEFINE q == [keyAdmins[a] EXCEPT !.pc = "done"]
  <2>1. q \in KeyAdminStates /\ q.pc = "done"
      BY <1>t DEF KeyAdminStates
  <2>2. keyAdmins' = [keyAdmins EXCEPT ![a] = q]
      BY <1>d DEF Step
  <2> HIDE DEF q
  <2> QED
      BY <1>t, <2>1, <2>2
<1>1. ASSUME NEW a \in KeyAdmin, InsertKey(a) PROVE KeyInv'
  <2>1. PICK k \in Key :
          /\ keys[k] = Unused
          /\ keys' = [keys EXCEPT ![k] =
               [st |-> "active", overlap |-> "none", from |-> NoKey, group |-> k]]
      BY <1>1 DEF InsertKey
  <2> DEFINE row == [st |-> "active", overlap |-> "none", from |-> NoKey, group |-> k]
  <2>2. /\ row \in KeyStates /\ row.st = "active" /\ row.overlap = "none" /\ row.group = k
        /\ row.from = NoKey /\ keys' = [keys EXCEPT ![k] = row]
      BY <2>1 DEF KeyStates
  <2> HIDE DEF row
  <2>3. /\ keys' \in [Key -> KeyStates] /\ keys'[k] = row /\ keys[k].st = "none"
        /\ \A other \in Key \ {k} : keys'[other] = keys[other]
      BY <1>t, <2>1, <2>2
  <2>4. /\ keyAdmins[a].pc = "room" /\ UNCHANGED <<planLimit, peakLimit, rotationLock>>
        /\ capacityLock' = capacityLock \/ (capacityLock = a /\ capacityLock' = NoAdmin)
      BY <1>1 DEF InsertKey
  <2>5. Active' \subseteq Active \cup {k} /\ Created' \subseteq Created \cup {k}
      BY <2>3 DEF Active, Created
  <2>6. \A other \in Key : other # k => keys'[other].st = "none" \/ keys'[other].group # k
      BY <1>t, <2>3
  <2>7. \A b \in KeyAdmin : keyAdmins[b].pc = "reread" => keys[keyAdmins[b].key].group # k
      BY <1>t, <2>3 DEF KeyInv, RotationIsAlone
  <2>8. \A o \in Active' : keys'[o].overlap = "none" =>
               \/ o \in Active /\ keys[o].overlap = "none"
               \/ /\ \A other \in Active' : other # o /\ keys'[other].overlap = "none" =>
                         keys'[other].group # keys'[o].group
                  /\ \A b \in KeyAdmin \ {a} : keyAdmins[b].pc = "reread" =>
                         keys[keyAdmins[b].key].group # keys'[o].group
    <3> SUFFICES ASSUME NEW o \in Active'
                 PROVE  \/ o \in Active /\ keys[o].overlap = keys'[o].overlap
                        \/ /\ \A other \in Active' :
                                  other # o => keys'[other].group # keys'[o].group
                           /\ \A b \in KeyAdmin \ {a} : keyAdmins[b].pc = "reread" =>
                                 keys[keyAdmins[b].key].group # keys'[o].group
        OBVIOUS
    <3>1. CASE o = k
        BY <2>2, <2>3, <2>6, <2>7, <3>1 DEF Active
    <3>2. CASE o # k
        BY <2>3, <3>2 DEF Active
    <3> QED
        BY <3>1, <3>2
  <2>9. \A o \in Key : keys[o].st # "none" => keys'[o].st # "none" /\ keys'[o].group = keys[o].group
      BY <2>3
  <2>10. \A o \in Key : IF keys'[o].st = "none" THEN keys'[o] = Unused
                        ELSE keys'[o].group \in Key /\ keys'[keys'[o].group].st # "none"
      BY <1>t, <2>2, <2>3
  <2>11. /\ keyAdmins' \in [KeyAdmin -> KeyAdminStates] /\ keyAdmins'[a].pc = "done"
         /\ \A b \in KeyAdmin \ {a} : keyAdmins'[b] = keyAdmins[b]
      BY <1>1, <1>d DEF InsertKey
  <2>12. /\ rotationLock' \in [Key -> KeyAdmin \cup {NoAdmin}]
         /\ \A g \in Key : rotationLock'[g] = rotationLock[g]
      BY <1>t, <2>4
  <2>13. KeyRowsChange(k, a)
      BY <2>3, <2>4, <2>5, <2>8, <2>9, <2>10 DEF KeyRowsChange
  <2>14. LocksGoBack(a)
      BY <2>4, <2>11, <2>12 DEF LocksGoBack
  <2> QED
      BY <2>13, <2>14, KeysChange
<1>2. ASSUME NEW a \in KeyAdmin, RotateKey(a) PROVE KeyInv'
  <2> DEFINE k == keyAdmins[a].key
  <2>1. /\ k \in Key /\ keys[k].st # "none" /\ keys[k].group \in Key
        /\ rotationLock[keys[k].group] = a /\ keyAdmins[a].pc = "reread"
        /\ \A o \in Active :
              keys[o].group = keys[k].group /\ keys[o].overlap = "none" => o = k
      BY <1>2, <1>t DEF RotateKey, KeyInv, RotationIsAlone
  <2>2. /\ UNCHANGED <<planLimit, peakLimit, capacityLock>> /\ Step(a, "done")
        /\ rotationLock' = [rotationLock EXCEPT ![keys[k].group] = NoAdmin]
      BY <1>2 DEF RotateKey
  <2>3. /\ rotationLock' \in [Key -> KeyAdmin \cup {NoAdmin}]
        /\ \A g \in Key : rotationLock'[g] = rotationLock[g]
                            \/ (rotationLock[g] = a /\ rotationLock'[g] = NoAdmin)
      BY <1>t, <2>1, <2>2
  <2>6. /\ keyAdmins' \in [KeyAdmin -> KeyAdminStates] /\ keyAdmins'[a].pc = "done"
        /\ \A b \in KeyAdmin \ {a} : keyAdmins'[b] = keyAdmins[b]
      BY <1>d, <2>2
  <2>7. LocksGoBack(a)
      BY <2>2, <2>3, <2>6 DEF LocksGoBack
  <2>4. CASE keys' = keys
    <3>1. Active' = Active /\ Created' = Created
        BY <2>4 DEF Active, Created
    <3>2. \A o \in Active' : keys'[o].overlap = "none" => o \in Active /\ keys[o].overlap = "none"
        BY <2>4, <3>1
    <3>3. Active' \subseteq Active \cup {NoKey} /\ Created' \subseteq Created
        BY <3>1
    <3>4. \A o \in Key : keys[o].st # "none" =>
                keys'[o].st # "none" /\ keys'[o].group = keys[o].group
        BY <2>4
    <3>5. \A o \in Key : IF keys'[o].st = "none" THEN keys'[o] = Unused
                         ELSE keys'[o].group \in Key /\ keys'[keys'[o].group].st # "none"
        BY <1>t, <2>4
    <3>6. keys' \in [Key -> KeyStates]
        BY <1>t, <2>4
    <3> QED
        BY <2>2, <2>7, <3>2, <3>3, <3>4, <3>5, <3>6, KeysChange DEF KeyRowsChange
  <2>5. CASE keys' # keys
    <3>1. PICK new \in Key, overlap \in {"open", "ended"} :
            /\ keys[new] = Unused
            /\ keys' = [keys EXCEPT
                 ![new] = [st |-> "active", overlap |-> "none", from |-> k,
                           group |-> keys[k].group],
                 ![k].overlap = overlap]
        BY <1>2, <2>5 DEF RotateKey
    <3> DEFINE row == [st |-> "active", overlap |-> "none", from |-> k, group |-> keys[k].group]
               old == [keys[k] EXCEPT !.overlap = overlap]
    <3>2. /\ row \in KeyStates /\ row.st = "active" /\ row.group = keys[k].group
          /\ row.overlap = "none" /\ row.from = k /\ k # NoKey
        BY <2>1 DEF KeyStates
    <3>3. /\ old \in KeyStates /\ old.st = keys[k].st /\ old.group = keys[k].group
          /\ old.overlap # "none" /\ old.from = keys[k].from
        BY <1>t, <2>1 DEF KeyStates
    <3>4. new # k /\ keys[new].st = "none"
        BY <1>t, <2>1, <3>1
    <3>5. /\ keys' \in [Key -> KeyStates] /\ keys'[new] = row /\ keys'[k] = old
          /\ \A o \in Key \ {new, k} : keys'[o] = keys[o]
        BY <1>t, <2>1, <3>1, <3>2, <3>3, <3>4
    <3> HIDE DEF row, old
    <3>6. Active' \subseteq Active \cup {new} /\ Created' \subseteq Created
        BY <3>2, <3>3, <3>4, <3>5 DEF Active, Created
    <3>7. \A o \in Key : keys[o].st # "none" => /\ keys'[o].st # "none"
                                                /\ keys'[o].group = keys[o].group
        BY <3>3, <3>4, <3>5
    <3>8. \A o \in Key : IF keys'[o].st = "none" THEN keys'[o] = Unused
                         ELSE keys'[o].group \in Key /\ keys'[keys'[o].group].st # "none"
      <4> SUFFICES ASSUME NEW o \in Key
                   PROVE  IF keys'[o].st = "none" THEN keys'[o] = Unused
                          ELSE keys'[o].group \in Key /\ keys'[keys'[o].group].st # "none"
          OBVIOUS
      <4>1. keys[keys[k].group].st # "none" /\ keys'[keys[k].group].st # "none"
          BY <1>t, <2>1, <3>7
      <4>2. CASE o \in {new, k}
          BY <2>1, <3>2, <3>3, <3>5, <4>1, <4>2
      <4>3. CASE o \notin {new, k}
          BY <1>t, <3>5, <3>7, <4>3
      <4> QED
          BY <4>2, <4>3
    <3>9. ASSUME NEW b \in KeyAdmin \ {a}, keyAdmins[b].pc = "reread"
          PROVE  keys[keyAdmins[b].key].group # keys[k].group
        BY <2>1, <3>9 DEF KeyInv, RotationIsAlone
    <3>10. ASSUME NEW o \in Active', o # new, keys'[o].overlap = "none"
           PROVE  o \in Active /\ keys[o].overlap = "none" /\ keys'[o].group # keys[k].group
      <4>1. o # k
          BY <3>3, <3>5, <3>10
      <4>2. keys'[o] = keys[o] /\ o \in Active
          BY <3>5, <3>10, <4>1 DEF Active
      <4> QED
          BY <2>1, <3>10, <4>1, <4>2
    <3>11. \A o \in Active' : keys'[o].overlap = "none" =>
               \/ o \in Active /\ keys[o].overlap = "none"
               \/ /\ \A other \in Active' : other # o /\ keys'[other].overlap = "none" =>
                         keys'[other].group # keys'[o].group
                  /\ \A b \in KeyAdmin \ {a} : keyAdmins[b].pc = "reread" =>
                         keys[keyAdmins[b].key].group # keys'[o].group
        BY <3>2, <3>5, <3>9, <3>10
    <3> QED
        BY <2>2, <2>7, <3>5, <3>6, <3>7, <3>8, <3>11, KeysChange DEF KeyRowsChange
  <2> QED
      BY <2>4, <2>5
\* Of one key the status or the overlap changes, and it is no more current than before.
<1>3. ASSUME NEW k \in Key, keys[k].st # "none", NEW row \in KeyStates, row.st # "none",
             keys' = [keys EXCEPT ![k] = row], row.group = keys[k].group,
             row.from = keys[k].from, row.st = "active" => keys[k].st = "active",
             row.st = "active" => row.overlap # "none",
             NEW a \in KeyAdmin \cup {NoAdmin},
             \/ a = NoAdmin /\ keyAdmins' = keyAdmins
             \/ a \in KeyAdmin /\ Step(a, "done"),
             UNCHANGED <<planLimit, peakLimit, capacityLock, rotationLock>>
      PROVE  KeyInv'
  <2>1. /\ keys' \in [Key -> KeyStates] /\ keys'[k] = row
        /\ \A other \in Key \ {k} : keys'[other] = keys[other]
      BY <1>3, <1>t
  <2>2. Active' \subseteq Active /\ Created' \subseteq Created
      BY <1>3, <2>1 DEF Active, Created
  <2>3. \A o \in Active' : keys'[o].overlap = "none" => o \in Active /\ keys[o].overlap = "none"
      BY <1>3, <2>1, <2>2 DEF Active
  <2>4. \A o \in Key : keys[o].st # "none" => keys'[o].st # "none" /\ keys'[o].group = keys[o].group
      BY <1>3, <2>1
  <2>5. \A o \in Key : IF keys'[o].st = "none" THEN keys'[o] = Unused
                       ELSE keys'[o].group \in Key /\ keys'[keys'[o].group].st # "none"
      BY <1>3, <1>t, <2>1
  <2>6. /\ keyAdmins' \in [KeyAdmin -> KeyAdminStates]
        /\ a \in KeyAdmin => keyAdmins'[a].pc = "done"
        /\ \A b \in KeyAdmin \ {a} : keyAdmins'[b] = keyAdmins[b]
      BY <1>3, <1>t, <1>d
  <2>7. /\ rotationLock' \in [Key -> KeyAdmin \cup {NoAdmin}]
        /\ \A g \in Key : rotationLock'[g] = rotationLock[g]
      BY <1>3, <1>t
  <2>8. Active' \subseteq Active \cup {k}
      BY <2>2
  <2>9. KeyRowsChange(k, a)
      BY <1>3, <2>1, <2>2, <2>3, <2>4, <2>5, <2>8 DEF KeyRowsChange
  <2>10. LocksGoBack(a)
      BY <1>3, <2>6, <2>7 DEF LocksGoBack
  <2> QED
      BY <2>9, <2>10, KeysChange
<1>4. ASSUME NEW a \in KeyAdmin, NEW k \in Key, RevokeKey(a, k) PROVE KeyInv'
  <2> DEFINE row == [keys[k] EXCEPT !.st = "revoked", !.overlap = "none"]
  <2>1. row \in KeyStates /\ row.st = "revoked" /\ row.group = keys[k].group
        /\ row.from = keys[k].from
      BY <1>t DEF KeyStates
  <2>2. keys' = [keys EXCEPT ![k] = row] /\ Step(a, "done") /\ keys[k].st = "active"
        /\ UNCHANGED <<planLimit, peakLimit, capacityLock, rotationLock>>
      BY <1>4 DEF RevokeKey
  <2> HIDE DEF row
  <2> QED
      BY <1>3, <2>1, <2>2
<1>5. ASSUME NEW k \in Key, OverlapEnds(k) PROVE KeyInv'
  <2> DEFINE row == [keys[k] EXCEPT !.overlap = "ended"]
  <2>1. row \in KeyStates /\ row.st = keys[k].st /\ row.group = keys[k].group
        /\ row.from = keys[k].from /\ row.overlap = "ended"
      BY <1>t DEF KeyStates
  <2>2. keys' = [keys EXCEPT ![k] = row] /\ keys[k].overlap = "open"
        /\ UNCHANGED <<planLimit, peakLimit, capacityLock, rotationLock, keyAdmins>>
      BY <1>5 DEF OverlapEnds
  <2>3. keys[k].st # "none"
      BY <1>t, <2>2 DEF Unused
  <2> HIDE DEF row
  <2> QED
      BY <1>3, <2>1, <2>2, <2>3
<1> QED
    BY <1>1, <1>2, <1>4, <1>5

\* The invariant of ApiKeys holds throughout.
LEMMA KeyInductive == KeySpec => []KeyInv
<1>1. KeyInv /\ [KeyNext]_keyVars => KeyInv'
  <2> SUFFICES ASSUME KeyInv, [KeyNext]_keyVars PROVE KeyInv'
      OBVIOUS
  <2>1. ASSUME NEW l \in Limit, ChangeLimit(l) PROVE KeyInv'
    <3>1. planLimit' = l /\ peakLimit' = Higher(l)
          /\ UNCHANGED <<keys, capacityLock, rotationLock, keyAdmins>>
        BY <2>1 DEF ChangeLimit
    <3>2. peakLimit \in Nat /\ l \in Nat /\ \A a \in KeyAdmin : keyAdmins[a].seen \in Nat
        BY KeyTyped DEF KeyInv
    <3>3. peakLimit' \in Nat
          /\ (Unlimited(peakLimit') \/ (~Unlimited(peakLimit) /\ l # 0 /\ l <= peakLimit'
                                         /\ peakLimit <= peakLimit'))
        BY <3>1, <3>2 DEF Higher, Unlimited
    <3>4. Active' = Active /\ Created' = Created
        BY <3>1 DEF Active, Created
    <3>5. KeyTypeOK' /\ GroupsExist' /\ OneCurrentKey'
        BY <3>1, <3>3, <3>4 DEF KeyInv, KeyTypeOK, GroupsExist, OneCurrentKey
    <3>6. PeakIsReached'
        BY <3>1, <3>3, <3>4 DEF KeyInv, PeakIsReached, Unlimited
    <3>7. IsFiniteSet(Created)
        BY FS_Subset DEF KeyInv, PeakIsReached, Created
    <3>8. Cardinality(Created) \in Nat
        BY <3>7, FS_CardinalityType
    <3>9. CreatedWithinPlan'
      <4>1. Unlimited(peakLimit) \/ Cardinality(Created) <= peakLimit
          BY DEF KeyInv, CreatedWithinPlan, Created
      <4>2. Unlimited(peakLimit') \/ Cardinality(Created) <= peakLimit'
          BY <3>2, <3>3, <3>8, <4>1
      <4> QED
          BY <3>4, <4>2 DEF CreatedWithinPlan, Unlimited, Created
    <3>10. ASSUME NEW a \in KeyAdmin PROVE RotationIsAlone(a)' /\ RoomIsKept(a)'
      <4>1. RotationIsAlone(a) /\ RoomIsKept(a)
          BY DEF KeyInv
      <4>2. RotationIsAlone(a)'
          BY <3>1, <3>4, <4>1 DEF RotationIsAlone
      <4>3. RoomIsKept(a)'
          BY <3>1, <3>2, <3>3, <3>4, <3>8, <4>1 DEF RoomIsKept, Unlimited
      <4> QED
          BY <4>2, <4>3
    <3> QED
        BY <3>5, <3>6, <3>9, <3>10 DEF KeyInv
  <2>2. CASE UNCHANGED keyVars
      BY <2>2 DEF keyVars, KeyInv, KeyTypeOK, GroupsExist, OneCurrentKey, PeakIsReached,
                  CreatedWithinPlan, RotationIsAlone, RoomIsKept, Active, Created
  <2> QED
      BY <2>1, <2>2, KeyRequestSteps, KeyChangeSteps DEF KeyNext
<1> QED
    BY <1>1, KeyInitially, PTL DEF KeySpec

\* Of the active keys of a rotation group one at most is not on its way out, for any number of
\* administrators that create, rotate and revoke at the same time.
THEOREM OneCurrentKeyHolds == KeySpec => []OneCurrentKey
<1>1. KeyInv => OneCurrentKey
    BY DEF KeyInv
<1> QED
    BY <1>1, KeyInductive, PTL

-----------------------------------------------------------------------------
(* CustomDomains *)

\* The rows custom_domains may hold.
DomainRows == [st : DomainStatuses, token : 0..MaxChallenges, expired : BOOLEAN,
               proof : 0..MaxChallenges]

\* A hostname has at most one row that is not released, and the history names its owner.
OneHolder ==
    \A o \in Org, h \in Host : Holds(o, h) =>
        holder[h].org = o /\ \A p \in Org \ {o} : ~Holds(p, h)

\* A row that is released has no challenge; one that is held has none, or one that was issued
\* since the hostname changed hands, and its proof is as recent once it is verified.
ProofIsRecent ==
    \A o \in Org, h \in Host :
        LET row == domains[o][h]
        IN /\ ~Holds(o, h) => row.token = 0
           /\ Holds(o, h) /\ row.token # 0 => row.token > holder[h].since
           /\ row.st \in {"verified", "active"} => row.proof > holder[h].since

\* No hostname changed hands after the latest challenge.
SinceAChallenge == \A h \in Host : holder[h].since <= challenges

\* The inductive invariant of CustomDomains.
DomainInv == DomainTypeOK /\ SinceAChallenge /\ OneHolder /\ ProofIsRecent /\ HandOverIsProven

\* A row that changes status, challenge, term or proof is still a row.
LEMMA RowFields ==
    ASSUME NEW q \in DomainRows, NEW st \in DomainStatuses, NEW n \in 0..MaxChallenges
    PROVE  /\ [q EXCEPT !.st = st] \in DomainRows
           /\ [q EXCEPT !.expired = TRUE] \in DomainRows
           /\ [q EXCEPT !.st = st, !.token = n] \in DomainRows
           /\ [q EXCEPT !.st = st, !.proof = n] \in DomainRows
           /\ [q EXCEPT !.st = st, !.token = n, !.expired = FALSE] \in DomainRows
    BY DEF DomainRows

\* What an operation owes the row it writes.
RowIsOwed(o, h, row) ==
    /\ row \in DomainRows /\ row.st # "none"
    /\ row.st = "released" => row.token = 0
    /\ row.st # "released" /\ row.token # 0 =>
          row.token > challenges \/ (Holds(o, h) /\ row.token > holder[h].since)
    /\ row.st \in {"verified", "active"} => Holds(o, h) /\ row.proof > holder[h].since
    /\ row.st # "active" => canonical'[o] # h

\* Writing such a row keeps the invariant.
LEMMA WriteKeeps ==
    ASSUME DomainInv, NEW o \in Org, NEW h \in Host, NEW row, Write(o, h, row),
           RowIsOwed(o, h, row), challenges' \in challenges..MaxChallenges,
           dns' = dns, canonical' \in {canonical, Uncanonical(o, h)}
    PROVE  DomainInv'
<1> USE DomainAssumption
<1>1. /\ domains \in [Org -> [Host -> DomainRows]]
      /\ canonical \in [Org -> Host \cup {NoHost}]
      /\ challenges \in 0..MaxChallenges
      /\ holder \in [Host -> [org : Org \cup {NoHost}, since : 0..MaxChallenges]]
    BY DEF DomainInv, DomainTypeOK, DomainRows
<1>2. /\ domains' \in [Org -> [Host -> DomainRows]]
      /\ domains'[o][h] = row
      /\ \A p \in Org, g \in Host : <<p, g>> # <<o, h>> => domains'[p][g] = domains[p][g]
    BY <1>1 DEF Write, RowIsOwed
<1>3. /\ canonical' \in [Org -> Host \cup {NoHost}]
      /\ \A p \in Org, g \in Host : canonical'[p] = g => canonical[p] = g
      /\ row.st # "active" => canonical'[o] # h
    BY <1>1 DEF Uncanonical, RowIsOwed
<1>4. /\ holder' \in [Host -> [org : Org \cup {NoHost}, since : 0..MaxChallenges]]
      /\ \A g \in Host : g # h => holder'[g] = holder[g]
      /\ row.st = "released" => holder' = holder
      /\ row.st # "released" =>
           /\ holder'[h].org = o
           /\ holder'[h] = holder[h] \/ (holder[h].org # o /\ holder'[h].since = challenges)
    BY <1>1 DEF Write
<1>13. SinceAChallenge'
  <2>1. challenges' >= challenges
      BY <1>1
  <2> QED
      BY <1>1, <1>4, <2>1 DEF SinceAChallenge, DomainInv
<1>5. DomainTypeOK'
    BY <1>2, <1>3, <1>4 DEF DomainInv, DomainTypeOK, DomainRows
<1>6. row.st # "released" => \A p \in Org \ {o} : ~Holds(p, h)
    BY DEF Write
<1>7. Holds(o, h) => holder[h].org = o /\ \A p \in Org \ {o} : ~Holds(p, h)
    BY DEF DomainInv, OneHolder
<1>8. /\ Holds(o, h)' = (row.st # "released")
      /\ \A p \in Org, g \in Host : <<p, g>> # <<o, h>> => Holds(p, g)' = Holds(p, g)
    BY <1>2 DEF Holds, RowIsOwed
<1>9. OneHolder'
  <2> SUFFICES ASSUME NEW p \in Org, NEW g \in Host, Holds(p, g)'
               PROVE  /\ holder'[g].org = p
                      /\ \A q \in Org \ {p} : ~Holds(q, g)'
      BY DEF OneHolder
  <2>1. CASE g # h
    <3>1. Holds(p, g) /\ holder'[g] = holder[g]
        BY <1>4, <1>8, <2>1
    <3>2. holder[g].org = p /\ \A q \in Org \ {p} : ~Holds(q, g)
        BY <3>1 DEF DomainInv, OneHolder
    <3> QED
        BY <1>8, <2>1, <3>1, <3>2
  <2>2. CASE g = h /\ p = o
      BY <1>4, <1>6, <1>8, <2>2
  <2>3. CASE g = h /\ p # o
    <3>1. Holds(p, h) /\ row.st = "released" /\ holder' = holder
        BY <1>4, <1>6, <1>8, <2>3
    <3>2. holder[h].org = p /\ \A q \in Org \ {p} : ~Holds(q, h)
        BY <2>3, <3>1 DEF DomainInv, OneHolder
    <3> QED
        BY <1>8, <2>3, <3>1, <3>2
  <2> QED
      BY <2>1, <2>2, <2>3
\* Who held the hostname before keeps its tenure.
<1>10. Holds(o, h) /\ row.st # "released" => holder'[h] = holder[h]
    BY <1>4, <1>7
<1>11. ProofIsRecent'
  <2> SUFFICES ASSUME NEW p \in Org, NEW g \in Host
               PROVE  LET new == domains'[p][g]
                      IN /\ ~Holds(p, g)' => new.token = 0
                         /\ Holds(p, g)' /\ new.token # 0 => new.token > holder'[g].since
                         /\ new.st \in {"verified", "active"} => new.proof > holder'[g].since
      BY DEF ProofIsRecent
  <2>1. CASE <<p, g>> = <<o, h>>
    <3>1. ~Holds(o, h)' => row.token = 0
        BY <1>8 DEF RowIsOwed
    <3>2. Holds(o, h)' /\ row.token # 0 => row.token > holder'[h].since
      <4> SUFFICES ASSUME Holds(o, h)', row.token # 0
                   PROVE  row.token > holder'[h].since
          OBVIOUS
      <4>1. row.st # "released"
          BY <1>8
      <4>4. /\ row.token \in Nat /\ challenges \in Nat
            /\ holder'[h].since \in Nat /\ holder[h].since \in Nat
          BY <1>1, <1>4 DEF RowIsOwed, DomainRows
      <4>5. holder[h].since <= challenges
          BY DEF DomainInv, SinceAChallenge
      <4>2. CASE Holds(o, h) /\ row.token > holder[h].since
          BY <1>10, <4>1, <4>2
      <4>3. CASE row.token > challenges
        <5>1. CASE holder'[h].since = challenges
            BY <4>3, <4>4, <5>1
        <5>2. CASE holder'[h] = holder[h]
          <6>1. holder'[h].since = holder[h].since
              BY <5>2
          <6> QED
              BY <4>3, <4>4, <4>5, <6>1
        <5> QED
            BY <5>1, <5>2, <4>1, <1>4
      <4> QED
          BY <4>1, <4>2, <4>3 DEF RowIsOwed
    <3>3. row.st \in {"verified", "active"} => row.proof > holder'[h].since
        BY <1>10 DEF RowIsOwed
    <3> QED
        BY <1>2, <2>1, <3>1, <3>2, <3>3
  <2>2. CASE <<p, g>> # <<o, h>>
    <3>1. domains'[p][g] = domains[p][g] /\ Holds(p, g)' = Holds(p, g)
        BY <1>2, <1>8, <2>2
    <3>2. Holds(p, g) => holder'[g] = holder[g]
        BY <1>4, <1>6, <2>2
    <3>3. domains[p][g].st \in {"verified", "active"} => Holds(p, g)
        BY DEF Holds
    <3> QED
        BY <3>1, <3>2, <3>3 DEF DomainInv, ProofIsRecent
  <2> QED
      BY <2>1, <2>2
<1>12. HandOverIsProven'
  <2> SUFFICES ASSUME NEW p \in Org, NEW g \in Host
               PROVE  /\ domains'[p][g].st = "active" =>
                           holder'[g].org = p /\ domains'[p][g].proof > holder'[g].since
                      /\ canonical'[p] = g => domains'[p][g].st = "active"
      BY DEF HandOverIsProven
  <2>1. domains'[p][g].st = "active" =>
            holder'[g].org = p /\ domains'[p][g].proof > holder'[g].since
      BY <1>9, <1>11 DEF OneHolder, ProofIsRecent, Holds
  <2>2. canonical'[p] = g => domains'[p][g].st = "active"
      BY <1>2, <1>3 DEF DomainInv, HandOverIsProven
  <2> QED
      BY <2>1, <2>2
<1> QED
    BY <1>5, <1>9, <1>11, <1>12, <1>13 DEF DomainInv

\* A new challenge is a row that is owed.
LEMMA ChallengeKeeps ==
    ASSUME DomainInv, NEW o \in Org, NEW h \in Host, Challenged(o, h), dns' = dns,
           canonical' \in {canonical, Uncanonical(o, h)}, canonical'[o] # h
    PROVE  DomainInv'
<1> DEFINE row == [domains[o][h] EXCEPT !.st = "pending_verification", !.token = challenges',
                                        !.expired = FALSE]
<1>1. Write(o, h, row) /\ challenges' \in challenges..MaxChallenges
    BY DomainAssumption DEF Challenged, DomainInv, DomainTypeOK
<1>2. domains[o][h] \in DomainRows /\ challenges' \in 0..MaxChallenges /\ challenges' > challenges
    BY DomainAssumption DEF DomainRows, Challenged, DomainInv, DomainTypeOK
<1>3. row \in DomainRows
    BY <1>2, RowFields DEF DomainStatuses
<1>4. RowIsOwed(o, h, row)
    BY <1>2, <1>3 DEF RowIsOwed, DomainRows
<1> HIDE DEF row
<1> QED
    BY <1>1, <1>4, WriteKeeps

\* The invariant of CustomDomains holds throughout.
LEMMA DomainInductive == DomainSpec => []DomainInv
<1> USE DomainAssumption
<1>1. DomainInit => DomainInv
    BY DEF DomainInit, DomainInv, DomainTypeOK, SinceAChallenge, OneHolder, ProofIsRecent,
           HandOverIsProven, Absent, Holds, DomainStatuses
<1>2. DomainInv /\ [DomainNext]_domainVars => DomainInv'
  <2> SUFFICES ASSUME DomainInv, [DomainNext]_domainVars PROVE DomainInv'
      OBVIOUS
  <2>0. /\ 0 \in 0..MaxChallenges
        /\ \A o \in Org, h \in Host : domains[o][h].token \in 0..MaxChallenges
      BY DEF DomainInv, DomainTypeOK
  <2>1. ASSUME UNCHANGED domainVars PROVE DomainInv'
      BY <2>1 DEF domainVars, DomainInv, DomainTypeOK, SinceAChallenge, OneHolder, ProofIsRecent,
                  HandOverIsProven, Holds
  <2>2. ASSUME NEW h \in Host, RemoveRecords(h) PROVE DomainInv'
      BY <2>2 DEF RemoveRecords, DomainInv, DomainTypeOK, SinceAChallenge, OneHolder, ProofIsRecent,
                  HandOverIsProven, Holds
  <2>3. ASSUME NEW h \in Host, NEW o \in Org PROVE
          /\ domains[o][h] \in DomainRows
          /\ canonical \in [Org -> Host \cup {NoHost}]
          /\ Uncanonical(o, h)[o] # h
          /\ challenges \in challenges..MaxChallenges
      BY DEF DomainInv, DomainTypeOK, DomainRows, Uncanonical
  <2>4. ASSUME NEW h \in Host, NEW o \in Org PROVE
          /\ ~Holds(o, h) => domains[o][h].token = 0
          /\ Holds(o, h) /\ domains[o][h].token # 0 => domains[o][h].token > holder[h].since
          /\ domains[o][h].st \in {"verified", "active"} => domains[o][h].proof > holder[h].since
          /\ canonical[o] = h => domains[o][h].st = "active"
      BY DEF DomainInv, ProofIsRecent, HandOverIsProven
  <2>5. ASSUME NEW h \in Host, NEW o \in Org, AddDomain(o, h) PROVE DomainInv'
      BY <2>3, <2>5, ChallengeKeeps DEF AddDomain
  <2>6. ASSUME NEW h \in Host, NEW o \in Org, ReissueChallenge(o, h) PROVE DomainInv'
    <3>1. canonical'[o] # h
        BY <2>4, <2>6 DEF ReissueChallenge
    <3> QED
        BY <2>6, <3>1, ChallengeKeeps DEF ReissueChallenge
  <2>7. ASSUME NEW h \in Host, NEW o \in Org, VerifyDomain(o, h) PROVE DomainInv'
    <3> DEFINE row == [domains[o][h] EXCEPT !.st = "verified", !.proof = domains[o][h].token]
    <3>1. Write(o, h, row) /\ UNCHANGED <<canonical, dns, challenges>>
        BY <2>7 DEF VerifyDomain
    <3>2. Holds(o, h) /\ canonical[o] # h /\ domains[o][h].token # 0
        BY <2>4, <2>7 DEF VerifyDomain
    <3>3. row \in DomainRows
        BY <2>3, <2>0, RowFields DEF DomainStatuses
    <3>4. RowIsOwed(o, h, row)
        BY <2>3, <2>4, <3>1, <3>2, <3>3 DEF RowIsOwed, DomainRows
    <3> HIDE DEF row
    <3> QED
        BY <2>3, <3>1, <3>4, WriteKeeps
  <2>8. ASSUME NEW h \in Host, NEW o \in Org, ActivateDomain(o, h) PROVE DomainInv'
    <3> DEFINE row == [domains[o][h] EXCEPT !.st = "active"]
    <3>1. Write(o, h, row) /\ UNCHANGED <<canonical, dns, challenges>>
        BY <2>8 DEF ActivateDomain
    <3>2. domains[o][h].st = "verified" /\ Holds(o, h)
        BY <2>8 DEF ActivateDomain, Holds
    <3>3. row \in DomainRows
        BY <2>3, <2>0, RowFields DEF DomainStatuses
    <3>4. RowIsOwed(o, h, row)
        BY <2>3, <2>4, <3>1, <3>2, <3>3 DEF RowIsOwed, DomainRows
    <3> HIDE DEF row
    <3> QED
        BY <2>3, <3>1, <3>4, WriteKeeps
  <2>9. ASSUME NEW h \in Host, NEW o \in Org, SetCanonical(o, h) PROVE DomainInv'
      BY <2>9 DEF SetCanonical, DomainInv, DomainTypeOK, SinceAChallenge, OneHolder, ProofIsRecent,
                  HandOverIsProven, Holds
  <2>10. ASSUME NEW h \in Host, NEW o \in Org, DisableDomain(o, h) PROVE DomainInv'
    <3> DEFINE row == [domains[o][h] EXCEPT !.st = "disabled"]
    <3>1. Write(o, h, row) /\ UNCHANGED <<dns, challenges>> /\ canonical' = Uncanonical(o, h)
        BY <2>10 DEF DisableDomain
    <3>2. row \in DomainRows
        BY <2>3, <2>0, RowFields DEF DomainStatuses
    <3>3. RowIsOwed(o, h, row)
        BY <2>3, <2>4, <3>1, <3>2 DEF RowIsOwed, DomainRows
    <3> HIDE DEF row
    <3> QED
        BY <2>3, <3>1, <3>3, WriteKeeps
  <2>11. ASSUME NEW h \in Host, NEW o \in Org, ReleaseDomain(o, h) PROVE DomainInv'
    <3> DEFINE row == [domains[o][h] EXCEPT !.st = "released", !.token = 0]
    <3>1. Write(o, h, row) /\ UNCHANGED <<dns, challenges>> /\ canonical' = Uncanonical(o, h)
        BY <2>11 DEF ReleaseDomain
    <3>2. row \in DomainRows
        BY <2>3, <2>0, RowFields DEF DomainStatuses
    <3>3. RowIsOwed(o, h, row)
        BY <2>3, <2>4, <3>1, <3>2 DEF RowIsOwed, DomainRows
    <3> HIDE DEF row
    <3> QED
        BY <2>3, <3>1, <3>3, WriteKeeps
  <2>12. ASSUME NEW h \in Host, NEW o \in Org, PublishRecord(o, h) PROVE DomainInv'
    <3>1. domains[o][h].token \in 1..MaxChallenges
        BY <2>3, <2>12 DEF PublishRecord, DomainRows
    <3>2. DomainTypeOK'
        BY <2>12, <3>1 DEF PublishRecord, DomainInv, DomainTypeOK
    <3> QED
        BY <2>12, <3>2 DEF PublishRecord, DomainInv, SinceAChallenge, OneHolder, ProofIsRecent,
                           HandOverIsProven, Holds
  <2>13. ASSUME NEW h \in Host, NEW o \in Org, ExpireChallenge(o, h) PROVE DomainInv'
    <3>1. /\ domains \in [Org -> [Host -> DomainRows]]
          /\ domains' = [domains EXCEPT ![o][h].expired = TRUE]
        BY <2>13 DEF ExpireChallenge, DomainInv, DomainTypeOK, DomainRows
    <3>2. /\ domains' \in [Org -> [Host -> DomainRows]]
          /\ \A p \in Org, g \in Host : /\ domains'[p][g].st = domains[p][g].st
                                        /\ domains'[p][g].token = domains[p][g].token
                                        /\ domains'[p][g].proof = domains[p][g].proof
      <4> DEFINE row == [domains[o][h] EXCEPT !.expired = TRUE]
      <4>1. row \in DomainRows
          BY <2>3 DEF DomainRows
      <4>3. domains' = [domains EXCEPT ![o] = [domains[o] EXCEPT ![h] = row]]
          BY <3>1, Zenon
      <4>2. /\ row.st = domains[o][h].st /\ row.token = domains[o][h].token
            /\ row.proof = domains[o][h].proof
          BY <2>3 DEF DomainRows
      <4> HIDE DEF row
      <4>4. /\ domains' \in [Org -> [Host -> DomainRows]] /\ domains'[o][h] = row
            /\ \A p \in Org, g \in Host :
                  domains'[p][g] = domains[p][g] \/ (p = o /\ g = h)
        <5>1. domains \in [Org -> [Host -> DomainRows]]
            BY <3>1
        <5> QED
            BY <4>1, <4>3, <5>1
      <4> QED
          BY <4>2, <4>4
    <3>3. UNCHANGED <<canonical, dns, challenges, holder>>
        BY <2>13 DEF ExpireChallenge
    <3>4. DomainTypeOK'
        BY <3>2, <3>3 DEF DomainInv, DomainTypeOK, DomainRows
    <3>5. \A p \in Org, g \in Host : Holds(p, g)' = Holds(p, g)
        BY <3>2 DEF Holds
    <3>6. OneHolder' /\ SinceAChallenge'
        BY <3>3, <3>5 DEF DomainInv, OneHolder, SinceAChallenge
    <3>7. ProofIsRecent'
        BY <3>2, <3>3, <3>5 DEF DomainInv, ProofIsRecent
    <3>8. HandOverIsProven'
        BY <3>2, <3>3 DEF DomainInv, HandOverIsProven
    <3> QED
        BY <3>4, <3>6, <3>7, <3>8 DEF DomainInv
  <2> QED
      BY <2>1, <2>2, <2>5, <2>6, <2>7, <2>8, <2>9, <2>10, <2>11, <2>12, <2>13 DEF DomainNext
<1> QED
    BY <1>1, <1>2, PTL DEF DomainSpec

\* For any number of organizations, hostnames and challenges, a hostname resolves to the one
\* organization that proved it since it last changed hands (services/customDomains.js).
THEOREM HandOverIsProvenHolds == DomainSpec => []HandOverIsProven
<1>1. DomainInv => HandOverIsProven
    BY DEF DomainInv
<1> QED
    BY <1>1, DomainInductive, PTL

-----------------------------------------------------------------------------
(* Subscriptions *)

\* What the rows of plan_versions and subscriptions and the requests may hold.
VersionStates == {"draft", "active", "retired"}
Limits == {"none", "running", "over"}
SubRow == [st : SubStates, plan : Plan, pin : Plan \X Nat, end : Limits, grace : Limits,
           ending : BOOLEAN]
GrantRows == [pc : {"idle", "waiting", "locked", "resolved"}, row : Nat, plan : Plan,
              version : Nat, trial : BOOLEAN]
PublicationRows ==
    [pc : {"idle", "locked", "found", "retired"}, plan : Plan, draft : Nat, old : Nat]

\* Rows, versions and requests are of their kind.
RowsTyped ==
    /\ contracts \in Seq(SubRow)
    /\ current \in Nat
    /\ versions \in [Plan -> Seq(VersionStates)]
    /\ granter \in [Granter -> GrantRows]
    /\ publisher \in [Publisher -> PublicationRows]

\* Nobody is pinned to a version that was never published.
Published(pin) ==
    pin[2] # 0 => /\ pin[2] \in DOMAIN versions[pin[1]]
                  /\ versions[pin[1]][pin[2]] # "draft"

\* Every plan has one version on sale.
OneOnSale == \A p \in Plan : \E a \in Nat : ActiveVersions(p) = {a}

\* What a store is pinned to was published.
PinsArePublished == \A s \in DOMAIN contracts : Published(contracts[s].pin)

\* A grant that has resolved its version resolved one that was published.
GrantsArePublished ==
    \A g \in Granter :
        granter[g].pc = "resolved" => Published(<<granter[g].plan, granter[g].version>>)

\* A publication under way has a draft that no other publication has.
Publishing(u) == publisher[u].pc # "idle"
DraftsAreHeld ==
    /\ \A u \in Publisher : Publishing(u) =>
          /\ publisher[u].draft \in DOMAIN versions[publisher[u].plan]
          /\ versions[publisher[u].plan][publisher[u].draft] = "draft"
    /\ \A u, w \in Publisher :
          Publishing(u) /\ Publishing(w) /\ publisher[u].plan = publisher[w].plan
             /\ publisher[u].draft = publisher[w].draft => u = w

\* The inductive invariant of Subscriptions.
SubInv == RowsTyped /\ OneOnSale /\ PinsArePublished /\ GrantsArePublished /\ DraftsAreHeld

\* A function with the domain of a sequence is one.
LEMMA SameLength ==
    ASSUME NEW S, NEW c \in Seq(S), NEW d \in [DOMAIN c -> S]
    PROVE  d \in Seq(S)
<1>1. Len(c) \in Nat /\ DOMAIN c = 1..Len(c)
    BY LenProperties
<1>2. d \in [1..Len(c) -> S]
    BY <1>1
<1> QED
    BY <1>1, <1>2, SeqDef

\* What a version's status shows of a plan on sale.
LEMMA OnSaleIsPublished ==
    ASSUME SubInv, NEW p \in Plan, NEW v \in ActiveVersions(p)
    PROVE  v \in Nat /\ Published(<<p, v>>)
<1>1. \A pin : pin = <<p, v>> => pin[1] = p /\ pin[2] = v
    OBVIOUS
<1>2. versions[p] \in Seq(VersionStates)
    BY DEF SubInv, RowsTyped
<1>3. DOMAIN versions[p] \subseteq Nat
    BY <1>2, LenProperties
<1> QED
    BY <1>1, <1>3 DEF ActiveVersions, Published

\* A step that changes no version keeps the invariant when what it writes is published.
LEMMA SubRowsChange ==
    ASSUME SubInv, versions' = versions, RowsTyped',
           \A s \in DOMAIN contracts' : Published(contracts'[s].pin),
           \A g \in Granter : granter'[g].pc = "resolved" =>
               Published(<<granter'[g].plan, granter'[g].version>>),
           publisher' = publisher
    PROVE  SubInv'
<1>1. \A pin : Published(pin) => (pin[2] # 0 => /\ pin[2] \in DOMAIN versions'[pin[1]]
                                                /\ versions'[pin[1]][pin[2]] # "draft")
    BY DEF Published
<1>2. PinsArePublished' /\ GrantsArePublished'
    BY <1>1 DEF PinsArePublished, GrantsArePublished, Published
<1>3. OneOnSale' /\ DraftsAreHeld'
    BY DEF SubInv, OneOnSale, DraftsAreHeld, ActiveVersions, Publishing
<1> QED
    BY <1>2, <1>3 DEF SubInv

\* A step that changes rows, and leaves their pins or moves them to published versions.
LEMMA ContractsChange ==
    ASSUME SubInv, contracts' \in [DOMAIN contracts -> SubRow], current' \in Nat,
           \A t \in DOMAIN contracts :
               contracts'[t].pin = contracts[t].pin \/ Published(contracts'[t].pin),
           UNCHANGED <<versions, granter, publisher>>
    PROVE  SubInv'
<1>1. contracts \in Seq(SubRow) /\ DOMAIN contracts' = DOMAIN contracts
    BY DEF SubInv, RowsTyped
<1>2. RowsTyped'
    BY <1>1, SameLength DEF SubInv, RowsTyped
<1>3. \A t \in DOMAIN contracts : Published(contracts[t].pin)
    BY DEF SubInv, PinsArePublished
<1>4. \A t \in DOMAIN contracts' : Published(contracts'[t].pin)
    BY <1>1, <1>3
<1> QED
    BY <1>2, <1>4, SubRowsChange DEF SubInv, GrantsArePublished

\* A step of a publication that changes no version.
LEMMA PublicationsChange ==
    ASSUME SubInv, UNCHANGED <<contracts, current, versions, granter>>,
           publisher' \in [Publisher -> PublicationRows], DraftsAreHeld'
    PROVE  SubInv'
<1>1. RowsTyped' /\ OneOnSale' /\ PinsArePublished' /\ GrantsArePublished'
    BY DEF SubInv, RowsTyped, OneOnSale, PinsArePublished, GrantsArePublished, ActiveVersions,
           Published
<1> QED
    BY <1>1 DEF SubInv

\* A step that changes versions, and no version from published to draft.
LEMMA VersionsChange ==
    ASSUME SubInv, UNCHANGED <<contracts, current, granter>>,
           versions' \in [Plan -> Seq(VersionStates)],
           publisher' \in [Publisher -> PublicationRows],
           \A p \in Plan : \A v \in DOMAIN versions[p] :
               v \in DOMAIN versions'[p] /\ (versions[p][v] # "draft" => versions'[p][v] # "draft"),
           OneOnSale', DraftsAreHeld'
    PROVE  SubInv'
<1>1. RowsTyped'
    BY DEF SubInv, RowsTyped
<1>2. ASSUME NEW pin \in Plan \X Nat, Published(pin) PROVE Published(pin)'
    BY <1>2 DEF Published
<1>3. \A s \in DOMAIN contracts : contracts[s].pin \in Plan \X Nat
  <2>1. \A s \in DOMAIN contracts : contracts[s] \in SubRow
      BY LenProperties DEF SubInv, RowsTyped
  <2> QED
      BY <2>1 DEF SubRow
<1>4. \A g \in Granter : <<granter[g].plan, granter[g].version>> \in Plan \X Nat
    BY DEF SubInv, RowsTyped, GrantRows
<1>5. PinsArePublished'
    BY <1>2, <1>3 DEF SubInv, PinsArePublished
<1>6. GrantsArePublished'
    BY <1>2, <1>4 DEF SubInv, GrantsArePublished
<1> QED
    BY <1>1, <1>5, <1>6 DEF SubInv

\* The invariant of Subscriptions holds throughout.
LEMMA SubInductive == SubSpec => []SubInv
<1> USE SubscriptionAssumption
<1>1. SubInit => SubInv
  <2> SUFFICES ASSUME SubInit PROVE SubInv
      OBVIOUS
  <2>1. PICK p \in Plan : contracts \in {<<Row("trialing", p, 0, "none")>>,
                                         <<Row("trialing", p, 1, "running")>>}
      BY DEF SubInit
  <2>2. \A n \in {0, 1}, end \in {"none", "running"} :
            Row("trialing", p, n, end) \in SubRow /\ Row("trialing", p, n, end).pin = <<p, n>>
      BY DEF Row, SubRow, SubStates, Limits
  <2>3. PICK r \in SubRow : contracts = <<r>> /\ r.pin \in {<<p, 0>>, <<p, 1>>}
      BY <2>1, <2>2
  <2>4. versions = [q \in Plan |-> <<"active">>]
      BY DEF SubInit
  <2>5. versions \in [Plan -> Seq(VersionStates)] /\ contracts \in Seq(SubRow)
      BY <2>3, <2>4 DEF VersionStates
  <2>6. \A q \in Plan : DOMAIN versions[q] = {1} /\ versions[q][1] = "active"
      BY <2>4
  <2>7. (CHOOSE q \in Plan : TRUE) \in Plan
      OBVIOUS
  <2>8. RowsTyped
      BY <2>5, <2>7 DEF SubInit, RowsTyped, GrantRows, PublicationRows, NoGrant, NoPublication
  <2>9. OneOnSale
      BY <2>6 DEF OneOnSale, ActiveVersions
  <2>10. PinsArePublished
    <3>1. DOMAIN contracts = {1} /\ contracts[1] = r
        BY <2>3
    <3> QED
        BY <2>3, <2>6, <3>1 DEF PinsArePublished, Published
  <2>11. GrantsArePublished /\ DraftsAreHeld
      BY DEF SubInit, GrantsArePublished, DraftsAreHeld, Publishing, NoGrant, NoPublication
  <2> QED
      BY <2>8, <2>9, <2>10, <2>11 DEF SubInv
<1>2. SubInv /\ [SubNext]_subVars => SubInv'
  <2> SUFFICES ASSUME SubInv, [SubNext]_subVars PROVE SubInv'
      OBVIOUS
  <2>1. RowsTyped
      BY DEF SubInv
  <2>2. contracts \in [DOMAIN contracts -> SubRow] /\ DOMAIN contracts \subseteq Nat
      BY <2>1, LenProperties DEF RowsTyped
  <2>3. ASSUME UNCHANGED subVars PROVE SubInv'
      BY <2>3 DEF subVars, SubInv, RowsTyped, OneOnSale, PinsArePublished, GrantsArePublished,
                  DraftsAreHeld, Published, Publishing, ActiveVersions
  <2>4. ASSUME NEW s, NEW to \in SubStates, NEW grace \in Limits, Transition(s, to, grace)
        PROVE  /\ contracts' \in [DOMAIN contracts -> SubRow] /\ current' \in Nat
               /\ \A t \in DOMAIN contracts : contracts'[t].pin = contracts[t].pin
    <3>1. /\ s \in DOMAIN contracts /\ current' = s
          /\ contracts' = [contracts EXCEPT ![s].st = to,
                              ![s].grace = IF to = "suspended" THEN @
                                           ELSE IF to = "grace_period" THEN grace ELSE "none"]
        BY <2>4 DEF Transition, Fresh
    <3>2. "none" \in Limits
        BY DEF Limits
    <3> QED
        BY <2>2, <2>4, <3>1, <3>2 DEF SubRow
  <2>5. ASSUME NEW to \in SubStates, AdminTransition(to) PROVE SubInv'
    <3>1. PICK grace \in {"none", "running"} : Transition(current, to, grace)
        BY <2>5 DEF AdminTransition
    <3>2. UNCHANGED <<versions, granter, publisher>> /\ grace \in Limits
        BY <2>5 DEF AdminTransition, Limits
    <3> QED
        BY <2>4, <3>1, <3>2, ContractsChange
  <2>6. ASSUME NEW s \in DOMAIN contracts,
               ExpireDueTrial(s) \/ EscalatePastDue(s) \/ SuspendExpiredGrace(s)
        PROVE  SubInv'
    <3>1. PICK to \in SubStates, grace \in Limits : Transition(s, to, grace)
        BY <2>6 DEF ExpireDueTrial, EscalatePastDue, SuspendExpiredGrace, SubStates, Limits
    <3>2. UNCHANGED <<versions, granter, publisher>>
        BY <2>6 DEF ExpireDueTrial, EscalatePastDue, SuspendExpiredGrace
    <3> QED
        BY <2>4, <3>1, <3>2, ContractsChange
  <2>7. ASSUME NEW s \in DOMAIN contracts, DeadlinePasses(s) PROVE SubInv'
    <3>1. /\ UNCHANGED <<current, versions, granter, publisher>>
          /\ \/ contracts' = [contracts EXCEPT ![s].end = "over"]
             \/ contracts' = [contracts EXCEPT ![s].grace = "over"]
        BY <2>7 DEF DeadlinePasses
    <3>2. "over" \in Limits
        BY DEF Limits
    <3>3. CASE contracts' = [contracts EXCEPT ![s].end = "over"]
      <4>1. /\ contracts' \in [DOMAIN contracts -> SubRow]
            /\ \A t \in DOMAIN contracts : contracts'[t].pin = contracts[t].pin
          BY <2>2, <3>2, <3>3 DEF SubRow
      <4> QED
          BY <2>1, <3>1, <4>1, ContractsChange DEF RowsTyped
    <3>4. CASE contracts' = [contracts EXCEPT ![s].grace = "over"]
      <4>1. /\ contracts' \in [DOMAIN contracts -> SubRow]
            /\ \A t \in DOMAIN contracts : contracts'[t].pin = contracts[t].pin
          BY <2>2, <3>2, <3>4 DEF SubRow
      <4> QED
          BY <2>1, <3>1, <4>1, ContractsChange DEF RowsTyped
    <3> QED
        BY <3>1, <3>3, <3>4
  \* Grants
  <2>8. ASSUME UNCHANGED <<contracts, current, versions, publisher>>,
               granter' \in [Granter -> GrantRows], GrantsArePublished'
        PROVE  SubInv'
      BY <2>8 DEF SubInv, RowsTyped, OneOnSale, PinsArePublished, DraftsAreHeld, Published,
                  Publishing, ActiveVersions
  <2>9. NoGrant \in GrantRows /\ NoGrant.pc = "idle"
      BY DEF NoGrant, GrantRows
  <2>10. granter \in [Granter -> GrantRows] /\ GrantsArePublished
      BY DEF SubInv, RowsTyped
  <2>11. ASSUME NEW g \in Granter, NEW q \in GrantRows, q.pc # "resolved",
                granter' = [granter EXCEPT ![g] = q],
                UNCHANGED <<contracts, current, versions, publisher>>
         PROVE  SubInv'
    <3>1. granter' \in [Granter -> GrantRows] /\ granter'[g] = q
          /\ \A h \in Granter : h # g => granter'[h] = granter[h]
        BY <2>10, <2>11
    <3>2. GrantsArePublished'
        BY <2>10, <2>11, <3>1 DEF GrantsArePublished, Published
    <3> QED
        BY <2>8, <2>11, <3>1, <3>2
  <2>12. ASSUME NEW g \in Granter, NEW p \in Plan, NEW trial \in BOOLEAN, GrantBegin(g, p, trial)
         PROVE  SubInv'
    <3> DEFINE q == [NoGrant EXCEPT !.pc = "waiting", !.row = current, !.plan = p, !.trial = trial]
    <3>1. q \in GrantRows /\ q.pc # "resolved"
        BY <2>1, <2>9 DEF GrantRows, RowsTyped
    <3> HIDE DEF q
    <3> QED
        BY <2>11, <2>12, <3>1 DEF GrantBegin, q
  <2>13. ASSUME NEW g \in Granter, GrantLock(g) PROVE SubInv'
    <3>1. PICK q \in {NoGrant, [granter[g] EXCEPT !.pc = "locked"]} :
              granter' = [granter EXCEPT ![g] = q]
        BY <2>13 DEF GrantLock
    <3>2. granter[g] \in GrantRows
        BY <2>10
    <3>3. q \in GrantRows /\ q.pc # "resolved"
        BY <2>9, <3>1, <3>2 DEF GrantRows
    <3> QED
        BY <2>11, <2>13, <3>1, <3>3 DEF GrantLock
  <2>14. ASSUME NEW g \in Granter, GrantResolve(g) PROVE SubInv'
    <3>1. UNCHANGED <<contracts, current, versions, publisher>>
        BY <2>14 DEF GrantResolve
    <3>2. CASE granter' = [granter EXCEPT ![g] = NoGrant]
        BY <2>9, <2>11, <3>1, <3>2
    <3>3. CASE \E v \in ActiveVersions(granter[g].plan) :
                  granter' = [granter EXCEPT ![g].pc = "resolved", ![g].version = v]
      <4>1. granter[g] \in GrantRows
          BY <2>10
      <4>2. granter[g].plan \in Plan
          BY <4>1 DEF GrantRows
      <4>3. PICK v \in ActiveVersions(granter[g].plan) :
                granter' = [granter EXCEPT ![g].pc = "resolved", ![g].version = v]
          BY <3>3
      <4>4. v \in Nat /\ Published(<<granter[g].plan, v>>)
          BY <4>2, OnSaleIsPublished
      <4>5. /\ granter' \in [Granter -> GrantRows]
            /\ granter'[g].plan = granter[g].plan /\ granter'[g].version = v
            /\ \A h \in Granter : h # g => granter'[h] = granter[h]
          BY <2>10, <4>1, <4>3, <4>4 DEF GrantRows
      <4>6. GrantsArePublished'
          BY <2>10, <3>1, <4>4, <4>5 DEF GrantsArePublished, Published
      <4> QED
          BY <2>8, <3>1, <4>5, <4>6
    <3> QED
        BY <2>14, <3>2, <3>3 DEF GrantResolve
  <2>15. ASSUME NEW g \in Granter, GrantCommit(g) PROVE SubInv'
    <3>1. /\ granter[g].pc = "resolved" /\ granter[g] \in GrantRows
          /\ granter' = [granter EXCEPT ![g] = NoGrant]
          /\ UNCHANGED <<versions, publisher>>
        BY <2>10, <2>15 DEF GrantCommit
    <3>2. /\ granter' \in [Granter -> GrantRows]
          /\ \A h \in Granter : granter'[h].pc = "resolved" => granter'[h] = granter[h]
        BY <2>9, <2>10, <3>1
    <3>3. CASE UNCHANGED <<contracts, current>>
        BY <2>9, <2>11, <3>1, <3>3
    <3>4. CASE ~UNCHANGED <<contracts, current>>
      <4> DEFINE r == Row(IF granter[g].trial THEN "trialing" ELSE "active", granter[g].plan,
                          granter[g].version, IF granter[g].trial THEN "running" ELSE "none")
      <4>1. /\ contracts' = Append(contracts, r)
            /\ current' \in {Len(contracts) + 1, current}
          BY <2>15, <3>4 DEF GrantCommit
      <4>2. r \in SubRow /\ r.pin = <<granter[g].plan, granter[g].version>>
          BY <3>1 DEF Row, SubRow, SubStates, Limits, GrantRows
      <4>3. Published(r.pin)
          BY <2>10, <3>1, <4>2 DEF GrantsArePublished
      <4> HIDE DEF r
      <4>4. contracts \in Seq(SubRow) /\ Len(contracts) \in Nat
          BY <2>1, LenProperties DEF RowsTyped
      <4>5. /\ contracts' \in Seq(SubRow) /\ Len(contracts') = Len(contracts) + 1
            /\ \A i \in 1..Len(contracts) : contracts'[i] = contracts[i]
            /\ contracts'[Len(contracts) + 1] = r
          BY <4>1, <4>2, <4>4, AppendProperties
      <4>6. \A t \in DOMAIN contracts' : Published(contracts'[t].pin)
        <5>1. DOMAIN contracts' = 1..(Len(contracts) + 1) /\ DOMAIN contracts = 1..Len(contracts)
            BY <4>4, <4>5, LenProperties
        <5>2. \A t \in DOMAIN contracts : Published(contracts[t].pin)
            BY DEF SubInv, PinsArePublished
        <5>3. \A t \in 1..(Len(contracts) + 1) : t \in 1..Len(contracts) \/ t = Len(contracts) + 1
            BY <4>4
        <5> QED
            BY <4>3, <4>5, <5>1, <5>2, <5>3
      <4>7. RowsTyped'
          BY <2>1, <3>1, <3>2, <4>1, <4>4, <4>5 DEF RowsTyped
      <4> QED
          BY <2>10, <3>1, <3>2, <4>6, <4>7, SubRowsChange DEF GrantsArePublished
    <3> QED
        BY <3>3, <3>4
  \* Changes by administrators
  <2>16. ASSUME NEW p \in Plan, RequestPlanChange(p) PROVE SubInv'
    <3>1. /\ current \in DOMAIN contracts /\ UNCHANGED <<current, versions, granter, publisher>>
          /\ \E v \in ActiveVersions(p) :
                contracts' = [contracts EXCEPT ![current].plan = p, ![current].pin = <<p, v>>]
        BY <2>16 DEF RequestPlanChange, Fresh
    <3>2. PICK v \in ActiveVersions(p) :
              contracts' = [contracts EXCEPT ![current].plan = p, ![current].pin = <<p, v>>]
        BY <3>1
    <3>3. v \in Nat /\ Published(<<p, v>>)
        BY OnSaleIsPublished
    <3>4. /\ contracts' \in [DOMAIN contracts -> SubRow]
          /\ contracts'[current].pin = <<p, v>>
          /\ \A t \in DOMAIN contracts : t # current => contracts'[t] = contracts[t]
        BY <2>2, <3>1, <3>2, <3>3 DEF SubRow
    <3> QED
        BY <2>1, <3>1, <3>3, <3>4, ContractsChange DEF RowsTyped
  <2>17. ASSUME NEW p \in Plan, PlatformPlanChange(p) PROVE SubInv'
    <3> DEFINE live == {s \in DOMAIN contracts :
                          contracts[s].st \in {"trialing", "active", "past_due"}}
    <3>1. /\ contracts' = [s \in DOMAIN contracts |->
                          IF s \in live THEN [contracts[s] EXCEPT !.plan = p] ELSE contracts[s]]
          /\ current' \in IF live = {} THEN {current} ELSE live
          /\ UNCHANGED <<versions, granter, publisher>>
        BY <2>17 DEF PlatformPlanChange
    <3>2. current' \in Nat
        BY <2>1, <2>2, <3>1 DEF RowsTyped
    <3> HIDE DEF live
    <3>3. /\ contracts' \in [DOMAIN contracts -> SubRow]
          /\ \A t \in DOMAIN contracts : contracts'[t].pin = contracts[t].pin
        BY <2>2, <3>1 DEF SubRow
    <3> QED
        BY <3>1, <3>2, <3>3, ContractsChange
  <2>18. ASSUME NEW ending \in BOOLEAN, ScheduleCancel(ending) PROVE SubInv'
    <3>1. /\ UNCHANGED <<current, versions, granter, publisher>>
          /\ contracts' = [contracts EXCEPT ![current].ending = ending]
        BY <2>18 DEF ScheduleCancel
    <3>2. /\ contracts' \in [DOMAIN contracts -> SubRow]
          /\ \A t \in DOMAIN contracts : contracts'[t].pin = contracts[t].pin
        BY <2>2, <3>1 DEF SubRow
    <3> QED
        BY <2>1, <3>1, <3>2, ContractsChange DEF RowsTyped
  \* Versions
  <2>19. ASSUME NEW p \in Plan, CreateDraftVersion(p) PROVE SubInv'
    <3>1. /\ UNCHANGED <<contracts, current, granter, publisher>>
          /\ versions' = [versions EXCEPT ![p] = Append(versions[p], "draft")]
        BY <2>19 DEF CreateDraftVersion
    <3>2. versions \in [Plan -> Seq(VersionStates)] /\ versions[p] \in Seq(VersionStates)
          /\ "draft" \in VersionStates
        BY <2>1 DEF RowsTyped, VersionStates
    <3> DEFINE table == Append(versions[p], "draft")
               n == Len(versions[p])
    <3>3. /\ n \in Nat /\ DOMAIN versions[p] = 1..n
          /\ table \in Seq(VersionStates) /\ Len(table) = n + 1
          /\ \A v \in 1..n : table[v] = versions[p][v]
          /\ table[n + 1] = "draft"
        BY <3>2, AppendProperties, LenProperties
    <3>4. DOMAIN table = 1..(n + 1)
        BY <3>3, LenProperties
    <3>5. versions' = [versions EXCEPT ![p] = table]
        BY <3>1
    <3> HIDE DEF table, n
    <3>6. /\ versions' \in [Plan -> Seq(VersionStates)] /\ versions'[p] = table
          /\ \A q \in Plan : q # p => versions'[q] = versions[q]
        BY <3>2, <3>3, <3>5
    <3>7. \A v \in DOMAIN versions[p] : v \in DOMAIN table /\ table[v] = versions[p][v]
        BY <3>3, <3>4
    <3>8. \A v \in DOMAIN table : v \in DOMAIN versions[p] \/ table[v] = "draft"
      <4>1. \A v \in 1..(n + 1) : v \in 1..n \/ v = n + 1
          BY <3>3
      <4> QED
          BY <3>3, <3>4, <4>1
    <3>9. \A q \in Plan : ActiveVersions(q)' = ActiveVersions(q)
        BY <3>6, <3>7, <3>8 DEF ActiveVersions
    <3>10. OneOnSale'
        BY <3>9 DEF SubInv, OneOnSale
    <3>11. \A q \in Plan : \A v \in DOMAIN versions[q] :
               v \in DOMAIN versions'[q] /\ versions'[q][v] = versions[q][v]
        BY <3>6, <3>7
    <3>12. \A u \in Publisher : publisher[u].plan \in Plan
        BY <2>1 DEF RowsTyped, PublicationRows
    <3>13. DraftsAreHeld'
        BY <3>1, <3>11, <3>12 DEF SubInv, DraftsAreHeld, Publishing
    <3> QED
        BY <2>1, <3>1, <3>6, <3>10, <3>11, <3>13, VersionsChange DEF RowsTyped
  <2>20. publisher \in [Publisher -> PublicationRows] /\ DraftsAreHeld
      BY DEF SubInv, RowsTyped
  <2>21. NoPublication \in PublicationRows /\ NoPublication.pc = "idle"
      BY DEF NoPublication, PublicationRows
  <2>22. ASSUME NEW u \in Publisher, NEW p \in Plan, NEW v \in 1..MaxDrafts + 1,
                PublishLock(u, p, v)
         PROVE  SubInv'
    <3> DEFINE q == [NoPublication EXCEPT !.pc = "locked", !.plan = p, !.draft = v]
    <3>1. /\ UNCHANGED <<contracts, current, versions, granter>>
          /\ publisher' = [publisher EXCEPT ![u] = q]
          /\ v \in DOMAIN versions[p] /\ versions[p][v] = "draft"
          /\ \A w \in Publisher :
               ~(publisher[w].pc # "idle" /\ publisher[w].plan = p /\ publisher[w].draft = v)
        BY <2>22 DEF PublishLock
    <3>2. q \in PublicationRows /\ q.plan = p /\ q.draft = v
      <4>1. v \in Nat
          OBVIOUS
      <4>2. /\ [NoPublication EXCEPT !.pc = "locked", !.plan = p, !.draft = v] \in PublicationRows
            /\ [NoPublication EXCEPT !.pc = "locked", !.plan = p, !.draft = v].plan = p
            /\ [NoPublication EXCEPT !.pc = "locked", !.plan = p, !.draft = v].draft = v
        <5> DEFINE r == NoPublication
        <5>1. r \in PublicationRows
            BY <2>21
        <5> HIDE DEF r
        <5>2. /\ [r EXCEPT !.pc = "locked", !.plan = p, !.draft = v] \in PublicationRows
              /\ [r EXCEPT !.pc = "locked", !.plan = p, !.draft = v].plan = p
              /\ [r EXCEPT !.pc = "locked", !.plan = p, !.draft = v].draft = v
            BY <4>1, <5>1 DEF PublicationRows
        <5> QED
            BY <5>2 DEF r
      <4> QED
          BY <4>2
    <3> HIDE DEF q
    <3>3. /\ publisher' \in [Publisher -> PublicationRows] /\ publisher'[u] = q
          /\ \A w \in Publisher : w # u => publisher'[w] = publisher[w]
        BY <2>20, <3>1, <3>2
    <3>4. DraftsAreHeld'
        BY <2>20, <3>1, <3>2, <3>3 DEF DraftsAreHeld, Publishing
    <3> QED
        BY <3>1, <3>3, <3>4, PublicationsChange
  <2>23. ASSUME NEW u \in Publisher, PublishFind(u) \/ PublishRetire(u) PROVE SubInv'
    <3>1. publisher[u] \in PublicationRows
        BY <2>20
    <3>2. publisher[u].plan \in Plan /\ publisher[u].old \in Nat
        BY <3>1 DEF PublicationRows
    <3>3. \A v \in ActiveVersions(publisher[u].plan) : v \in Nat
        BY <3>2, OnSaleIsPublished
    <3>4. /\ UNCHANGED <<contracts, current, versions, granter>> /\ publisher[u].pc # "idle"
          /\ \E pc \in {"found", "retired"}, old \in Nat :
                publisher' = [publisher EXCEPT ![u].pc = pc, ![u].old = old]
      <4>1. CASE PublishFind(u)
          BY <3>3, <4>1 DEF PublishFind
      <4>2. CASE PublishRetire(u)
        <5> DEFINE old == IF publisher[u].old \in ActiveVersions(publisher[u].plan)
                          THEN publisher[u].old ELSE 0
        <5>1. publisher' = [publisher EXCEPT ![u].pc = "retired", ![u].old = old]
            BY <4>2 DEF PublishRetire
        <5>2. old \in Nat
            BY <3>2
        <5> HIDE DEF old
        <5> QED
            BY <4>2, <5>1, <5>2 DEF PublishRetire
      <4> QED
          BY <2>23, <4>1, <4>2
    <3>5. PICK pc \in {"found", "retired"}, old \in Nat :
              publisher' = [publisher EXCEPT ![u].pc = pc, ![u].old = old]
        BY <3>4
    <3>6. /\ publisher' \in [Publisher -> PublicationRows]
          /\ publisher'[u].plan = publisher[u].plan /\ publisher'[u].draft = publisher[u].draft
          /\ \A w \in Publisher : w # u => publisher'[w] = publisher[w]
        BY <2>20, <3>1, <3>5 DEF PublicationRows
    <3>7. DraftsAreHeld'
        BY <2>20, <3>4, <3>6 DEF DraftsAreHeld, Publishing
    <3> QED
        BY <3>4, <3>6, <3>7, PublicationsChange
  <2>24. ASSUME NEW u \in Publisher, PublishCommit(u) PROVE SubInv'
    <3> DEFINE p == publisher[u].plan
               d == publisher[u].draft
               old == publisher[u].old
               table == [v \in DOMAIN versions[p] |->
                            IF v = d THEN "active"
                            ELSE IF v = old THEN "retired" ELSE versions[p][v]]
    <3>1. /\ publisher[u].pc = "retired" /\ UNCHANGED <<contracts, current, granter>>
          /\ publisher' = [publisher EXCEPT ![u] = NoPublication]
          /\ versions' = IF ActiveVersions(p) \subseteq {old}
                         THEN [versions EXCEPT ![p] = table] ELSE versions
        BY <2>24 DEF PublishCommit
    <3>2. /\ publisher' \in [Publisher -> PublicationRows]
          /\ \A w \in Publisher : w # u => publisher'[w] = publisher[w]
          /\ publisher'[u].pc = "idle"
        BY <2>20, <2>21, <3>1
    <3>3. p \in Plan /\ d \in DOMAIN versions[p] /\ versions[p][d] = "draft"
      <4>1. publisher[u] \in PublicationRows
          BY <2>20
      <4> QED
          BY <2>20, <3>1, <4>1 DEF PublicationRows, DraftsAreHeld, Publishing
    <3>4. CASE versions' = versions
      <4>1. DraftsAreHeld'
          BY <2>20, <3>2, <3>4 DEF DraftsAreHeld, Publishing
      <4> QED
          BY <3>1, <3>2, <3>4, <4>1, PublicationsChange
    <3>5. CASE ActiveVersions(p) \subseteq {old} /\ versions' = [versions EXCEPT ![p] = table]
      <4>1. versions \in [Plan -> Seq(VersionStates)] /\ versions[p] \in Seq(VersionStates)
          BY <2>1, <3>3 DEF RowsTyped
      <4>2. \A v \in DOMAIN versions[p] : versions[p][v] \in VersionStates
          BY <4>1, LenProperties
      <4>3. table \in [DOMAIN versions[p] -> VersionStates]
          BY <4>2 DEF VersionStates
      <4>4. /\ DOMAIN table = DOMAIN versions[p] /\ table[d] = "active"
            /\ old # d /\ old \in DOMAIN table => table[old] = "retired"
            /\ \A v \in DOMAIN table : v \notin {d, old} => table[v] = versions[p][v]
          BY <3>3
      <4> HIDE DEF table, p, d, old
      <4>5. table \in Seq(VersionStates)
          BY <4>1, <4>3, SameLength
      <4>6. /\ versions' \in [Plan -> Seq(VersionStates)] /\ versions'[p] = table
            /\ \A q \in Plan : q # p => versions'[q] = versions[q]
          BY <3>3, <3>5, <4>1, <4>5
      <4>7. old \in DOMAIN versions[p] /\ versions[p][old] = "active" /\ old # d
        <5>1. PICK a \in Nat : ActiveVersions(p) = {a}
            BY <3>3 DEF SubInv, OneOnSale
        <5>2. a = old
            BY <3>5, <5>1
        <5> QED
            BY <3>3, <5>1, <5>2 DEF ActiveVersions
      <4>8. OneOnSale'
        <5>1. \A v \in DOMAIN versions[p] : versions[p][v] = "active" => v = old
            BY <3>5 DEF ActiveVersions
        <5>2. {v \in DOMAIN versions'[p] : versions'[p][v] = "active"} = {d}
            BY <3>3, <4>4, <4>6, <4>7, <5>1
        <5>3. d \in Nat
            BY <3>3, <4>1, LenProperties
        <5>4. \A q \in Plan : q # p => ActiveVersions(q)' = ActiveVersions(q)
            BY <4>6 DEF ActiveVersions
        <5>5. ASSUME NEW q \in Plan PROVE \E a \in Nat : ActiveVersions(q)' = {a}
          <6>1. CASE q = p
              BY <5>2, <5>3, <6>1 DEF ActiveVersions
          <6>2. CASE q # p
              BY <5>4, <6>2 DEF SubInv, OneOnSale
          <6> QED
              BY <6>1, <6>2
        <5> QED
            BY <5>5 DEF OneOnSale
      <4>9. \A q \in Plan : \A v \in DOMAIN versions[q] :
                v \in DOMAIN versions'[q] /\ (versions[q][v] # "draft" => versions'[q][v] # "draft")
          BY <4>4, <4>6
      <4>10. DraftsAreHeld'
        <5> SUFFICES ASSUME NEW w \in Publisher, w # u, Publishing(w)
                     PROVE  /\ publisher[w].draft \in DOMAIN versions'[publisher[w].plan]
                            /\ versions'[publisher[w].plan][publisher[w].draft] = "draft"
            BY <2>20, <3>2 DEF DraftsAreHeld, Publishing
        <5>1. /\ publisher[w].plan \in Plan
              /\ publisher[w].draft \in DOMAIN versions[publisher[w].plan]
              /\ versions[publisher[w].plan][publisher[w].draft] = "draft"
          <6>1. publisher[w] \in PublicationRows
              BY <2>20
          <6> QED
              BY <2>20, <6>1 DEF PublicationRows, DraftsAreHeld
        <5>2. publisher[w].plan = p => publisher[w].draft # d
            BY <2>20, <3>1 DEF DraftsAreHeld, Publishing, p, d
        <5>3. publisher[w].plan = p => publisher[w].draft # old
            BY <4>7, <5>1
        <5> QED
            BY <4>4, <4>6, <5>1, <5>2, <5>3
      <4> QED
          BY <3>1, <3>2, <4>6, <4>8, <4>9, <4>10, VersionsChange
    <3> QED
        BY <3>1, <3>4, <3>5
  <2> QED
      BY <2>3, <2>5, <2>6, <2>7, <2>12, <2>13, <2>14, <2>15, <2>16, <2>17, <2>18, <2>19, <2>22,
         <2>23, <2>24 DEF SubNext
<1> QED
    BY <1>1, <1>2, PTL DEF SubSpec

\* For any number of plans, publications and grants, each plan has exactly one version on sale,
\* and no subscription is pinned to a draft (services/planVersions.js).
THEOREM SoldVersionsArePublishedHolds == SubSpec => []SoldVersionsArePublished
<1>1. SubInv => SoldVersionsArePublished
  <2> SUFFICES ASSUME SubInv PROVE SoldVersionsArePublished
      OBVIOUS
  <2>1. \A p \in Plan : Cardinality(ActiveVersions(p)) = 1
      BY FS_Singleton DEF SubInv, OneOnSale
  <2>2. \A s \in DOMAIN contracts : Published(contracts[s].pin)
      BY DEF SubInv, PinsArePublished
  <2> QED
      BY <2>1, <2>2 DEF SoldVersionsArePublished, Published
<1> QED
    BY <1>1, SubInductive, PTL

-----------------------------------------------------------------------------
(* StoreTeam *)

\* Who counts against the plan.
Invited == {p \in Members : members[p].by = "invite"}

\* Who joins has the seat lock, as long as the plan has a limit, and the seat it counted.
SeatIsKept(w) ==
    seats # 0 /\ recruiters[w].pc = "joining" =>
        seatLock = w /\ Cardinality(Invited) + 1 <= seats

\* Who accepts an invite holds the store, and the invite stays open.
InviteIsKept(w) ==
    recruiters[w].pc \in {"accepting", "joining"} =>
        /\ storeLock = w
        /\ recruiters[w].invite \in Invite
        /\ invites[recruiters[w].invite].st = "open"

\* The inductive invariant of StoreTeam.
TeamInv ==
    /\ TeamTypeOK /\ IsFiniteSet(Members)
    /\ SeatsWithinPlan /\ InviteAdmitsOnce
    /\ \A w \in Recruiter : SeatIsKept(w) /\ InviteIsKept(w)

\* The members who joined by invite are finite in number; one more adds at most one.
LEMMA InvitedCount ==
    ASSUME TeamInv
    PROVE  /\ IsFiniteSet(Invited) /\ Cardinality(Invited) \in Nat
           /\ Cardinality(Members) \in Nat /\ Cardinality(Invited) <= Cardinality(Members)
           /\ \A p : /\ IsFiniteSet(Invited \cup {p}) /\ IsFiniteSet(Members \cup {p})
                     /\ Cardinality(Invited \cup {p}) <= Cardinality(Invited) + 1
<1>1. IsFiniteSet(Members) /\ Invited \subseteq Members
    BY DEF TeamInv, Invited
<1>2. IsFiniteSet(Invited) /\ Cardinality(Invited) <= Cardinality(Members)
    BY <1>1, FS_Subset
<1>3. Cardinality(Invited) \in Nat /\ Cardinality(Members) \in Nat
    BY <1>1, <1>2, FS_CardinalityType
<1>4. ASSUME NEW p
      PROVE  /\ IsFiniteSet(Invited \cup {p}) /\ IsFiniteSet(Members \cup {p})
             /\ Cardinality(Invited \cup {p}) <= Cardinality(Invited) + 1
  <2>1. IsFiniteSet(Invited \cup {p}) /\ IsFiniteSet(Members \cup {p})
      BY <1>1, <1>2, FS_AddElement
  <2>2. CASE p \in Invited
    <3>1. Invited \cup {p} = Invited
        BY <2>2
    <3> QED
        BY <1>3, <2>1, <3>1
  <2>3. CASE p \notin Invited
    <3>1. Cardinality(Invited \cup {p}) = Cardinality(Invited) + 1
        BY <1>2, <2>3, FS_AddElement
    <3> QED
        BY <1>3, <2>1, <3>1
  <2> QED
      BY <2>2, <2>3
<1> QED
    BY <1>2, <1>3, <1>4

\* What a step owes the seats: members are added one at a time, and who joined by invite is
\* new only when somebody with a seat joins and lets go of the lock.
SeatsStep ==
    /\ seats' = seats
    /\ \E p \in Person : Members' \subseteq Members \cup {p}
    /\ \/ Invited' \subseteq Invited
       \/ \E w \in Recruiter, p \in Person :
            /\ recruiters[w].pc = "joining" /\ recruiters'[w].pc # "joining"
            /\ Invited' \subseteq Invited \cup {p}
    /\ \A w \in Recruiter : recruiters'[w].pc = "joining" =>
          \/ recruiters[w].pc = "joining" /\ (seatLock = w => seatLock' = w)
          \/ /\ Invited' \subseteq Invited
             /\ seats # 0 => seatLock' = w /\ HasRoom

\* Such a step keeps the seats within the plan.
LEMMA SeatsKept ==
    ASSUME TeamInv, SeatsStep
    PROVE  /\ IsFiniteSet(Members') /\ SeatsWithinPlan'
           /\ \A w \in Recruiter : SeatIsKept(w)'
<1>1. seats \in Nat /\ seats' = seats
    BY TeamAssumption DEF TeamInv, TeamTypeOK, SeatsStep
<1>2. IsFiniteSet(Members')
  <2>1. PICK p \in Person : Members' \subseteq Members \cup {p}
      BY DEF SeatsStep
  <2>2. IsFiniteSet(Members \cup {p})
      BY InvitedCount
  <2> QED
      BY <2>1, <2>2, FS_Subset
<1>3. Invited' \subseteq Invited => Cardinality(Invited') <= Cardinality(Invited)
    BY InvitedCount, FS_Subset
<1>4. IsFiniteSet(Invited') /\ Cardinality(Invited') \in Nat
  <2>1. Invited' \subseteq Members'
      BY DEF Invited
  <2>2. IsFiniteSet(Invited')
      BY <1>2, <2>1, FS_Subset
  <2> QED
      BY <2>2, FS_CardinalityType
<1>5. seats # 0 => Cardinality(Invited) <= seats
    BY DEF TeamInv, SeatsWithinPlan, Invited
<1>6. ASSUME seats # 0, ~(Invited' \subseteq Invited)
      PROVE  \E w \in Recruiter :
                /\ recruiters[w].pc = "joining" /\ recruiters'[w].pc # "joining"
                /\ seatLock = w /\ Cardinality(Invited') <= seats
  <2>1. PICK w \in Recruiter, p \in Person :
            /\ recruiters[w].pc = "joining" /\ recruiters'[w].pc # "joining"
            /\ Invited' \subseteq Invited \cup {p}
      BY <1>6 DEF SeatsStep
  <2>2. seatLock = w /\ Cardinality(Invited) + 1 <= seats
      BY <1>6, <2>1 DEF TeamInv, SeatIsKept
  <2>3. Cardinality(Invited') <= Cardinality(Invited \cup {p})
      BY <2>1, InvitedCount, FS_Subset
  <2>4. Cardinality(Invited \cup {p}) <= Cardinality(Invited) + 1 /\ Cardinality(Invited) \in Nat
      BY InvitedCount
  <2>5. Cardinality(Invited \cup {p}) \in Nat
      BY InvitedCount, FS_CardinalityType
  <2>6. Cardinality(Invited') <= seats
      BY <1>1, <1>4, <2>2, <2>3, <2>4, <2>5
  <2> QED
      BY <2>1, <2>2, <2>6
<1>7. SeatsWithinPlan'
  <2>1. seats # 0 => Cardinality(Invited') <= seats
      BY <1>1, <1>3, <1>4, <1>5, <1>6, InvitedCount
  <2> QED
      BY <1>1, <2>1 DEF SeatsWithinPlan, Invited
<1>8. ASSUME NEW w \in Recruiter, seats # 0, recruiters'[w].pc = "joining"
      PROVE  seatLock' = w /\ Cardinality(Invited') + 1 <= seats
  <2>1. CASE recruiters[w].pc = "joining" /\ (seatLock = w => seatLock' = w)
    <3>1. seatLock = w /\ Cardinality(Invited) + 1 <= seats
        BY <1>8, <2>1 DEF TeamInv, SeatIsKept
    <3>2. Invited' \subseteq Invited
        BY <1>6, <1>8, <3>1
    <3> QED
        BY <1>1, <1>3, <1>4, <2>1, <3>1, <3>2, InvitedCount
  <2>2. CASE Invited' \subseteq Invited /\ seatLock' = w /\ HasRoom
    <3>1. Cardinality(Members) + 1 <= seats
        BY <1>8, <2>2 DEF HasRoom
    <3> QED
        BY <1>1, <1>3, <1>4, <2>2, <3>1, InvitedCount
  <2> QED
      BY <1>8, <2>1, <2>2 DEF SeatsStep
<1> QED
    BY <1>1, <1>2, <1>7, <1>8 DEF SeatIsKept

\* What a step owes the invites, unless somebody joins: nothing is admitted, and an invite
\* that is being accepted stays open and its store held.
InvitesStep ==
    /\ admissions' = admissions
    /\ \A i \in Invite : invites'[i].st = "used" <=> invites[i].st = "used"
    /\ \A w \in Recruiter : recruiters'[w].pc \in {"accepting", "joining"} =>
          /\ storeLock' = w /\ recruiters'[w].invite \in Invite
          /\ invites'[recruiters'[w].invite].st = "open"

\* The invariant of StoreTeam holds throughout.
LEMMA TeamInductive == TeamSpec => []TeamInv
<1> USE TeamAssumption, RecruiterAssumption
<1>1. TeamInit => TeamInv
  <2> SUFFICES ASSUME TeamInit PROVE TeamInv
      OBVIOUS
  <2>1. TeamTypeOK
      BY DEF TeamInit, TeamTypeOK, MemberStates, RecruiterStates, NoTask, Stranger
  <2>2. Members = {Founder}
      BY DEF TeamInit, Members, Stranger
  <2>3. IsFiniteSet(Members) /\ Cardinality(Members) = 1
      BY <2>2, FS_Singleton
  <2>4. IsFiniteSet(Invited) /\ Cardinality(Invited) <= 1
      BY <2>3, FS_Subset DEF Invited
  <2>5. Cardinality(Invited) \in Nat /\ seats \in Nat
      BY <2>1, <2>4, FS_CardinalityType DEF TeamTypeOK
  <2>6. SeatsWithinPlan
      BY <2>4, <2>5 DEF SeatsWithinPlan, Invited
  <2>7. InviteAdmitsOnce
      BY DEF TeamInit, InviteAdmitsOnce
  <2>8. \A w \in Recruiter : SeatIsKept(w) /\ InviteIsKept(w)
      BY DEF TeamInit, SeatIsKept, InviteIsKept, NoTask
  <2> QED
      BY <2>1, <2>3, <2>6, <2>7, <2>8 DEF TeamInv
<1>2. TeamInv /\ [TeamNext]_teamVars => TeamInv'
  <2> SUFFICES ASSUME TeamInv, [TeamNext]_teamVars PROVE TeamInv'
      OBVIOUS
  <2>1. TeamTypeOK
      BY DEF TeamInv
  <2>2. ASSUME UNCHANGED teamVars PROVE TeamInv'
      BY <2>2 DEF teamVars, TeamInv, TeamTypeOK, SeatsWithinPlan, InviteAdmitsOnce, SeatIsKept,
                  InviteIsKept, Invited, Members
  <2>3. ASSUME TeamTypeOK', SeatsStep, InviteAdmitsOnce', \A w \in Recruiter : InviteIsKept(w)'
        PROVE  TeamInv'
      BY <2>3, SeatsKept DEF TeamInv
  <2>4. ASSUME InvitesStep PROVE InviteAdmitsOnce' /\ \A w \in Recruiter : InviteIsKept(w)'
      BY <2>4 DEF InvitesStep, TeamInv, InviteAdmitsOnce, InviteIsKept
  <2>5. ASSUME TeamTypeOK', SeatsStep, InvitesStep PROVE TeamInv'
      BY <2>3, <2>4, <2>5
  <2>6. ASSUME members' = members PROVE Invited' = Invited /\ Members' = Members
      BY <2>6 DEF Invited, Members
  <2>7. \A w \in Recruiter : InviteIsKept(w)
      BY DEF TeamInv
  <2>8. ASSUME NEW w \in Recruiter, Released(w) PROVE
          /\ recruiters' \in [Recruiter -> RecruiterStates] /\ recruiters'[w] = NoTask
          /\ \A v \in Recruiter \ {w} : recruiters'[v] = recruiters[v]
          /\ seatLock' \in Recruiter \cup {NoRecruiter}
          /\ storeLock' \in Recruiter \cup {NoRecruiter}
          /\ \A v \in Recruiter \ {w} : (seatLock = v => seatLock' = v)
          /\ \A v \in Recruiter \ {w} : (storeLock = v => storeLock' = v)
          /\ NoTask.pc = "idle"
      BY <2>1, <2>8 DEF Released, TeamTypeOK, NoTask, RecruiterStates
  <2>9. ASSUME NEW w \in Recruiter, ReplaceInvite(w) PROVE TeamInv'
    <3>1. Released(w) /\ storeLock = NoRecruiter
        BY <2>9 DEF ReplaceInvite
    <3>2. UNCHANGED <<members, admissions, seats, added>> /\ recruiters[w].pc = "inviting"
        BY <2>9 DEF ReplaceInvite
    <3>3. recruiters[w].person \in Person \cup {NoPerson}
        BY <2>1 DEF TeamTypeOK, RecruiterStates
    <3>4. /\ invites' \in [Invite -> [st : {"none", "open", "expired", "replaced", "used"},
                                      person : Person \cup {NoPerson}]]
          /\ \A i \in Invite : invites'[i].st = "used" <=> invites[i].st = "used"
        BY <2>1, <2>9, <3>3 DEF ReplaceInvite, TeamTypeOK, OpenTo
    <3>5. TeamTypeOK'
        BY <2>1, <2>8, <3>1, <3>2, <3>4 DEF TeamTypeOK
    <3>6. SeatsStep
        BY <2>6, <2>8, <3>1, <3>2 DEF SeatsStep
    <3>7. \A v \in Recruiter : recruiters[v].pc \notin {"accepting", "joining"}
        BY <2>7, <3>1 DEF InviteIsKept
    <3>8. InvitesStep
        BY <2>8, <3>1, <3>2, <3>4, <3>7 DEF InvitesStep
    <3> QED
        BY <2>5, <3>5, <3>6, <3>8
  <2>10. ASSUME NEW w \in Recruiter, AssertSeat(w) PROVE TeamInv'
    <3>1. /\ recruiters[w].pc = "accepting"
          /\ recruiters' = [recruiters EXCEPT ![w].pc = "joining"]
          /\ UNCHANGED <<members, invites, admissions, seats, storeLock, added>>
          /\ \/ seats = 0 /\ seatLock' = seatLock
             \/ seatLock = NoRecruiter /\ HasRoom /\ seatLock' = w
        BY <2>10 DEF AssertSeat, TakeSeat
    <3>2. /\ recruiters' \in [Recruiter -> RecruiterStates]
          /\ recruiters'[w].pc = "joining" /\ recruiters'[w].invite = recruiters[w].invite
          /\ \A v \in Recruiter \ {w} : recruiters'[v] = recruiters[v]
        BY <2>1, <3>1 DEF TeamTypeOK, RecruiterStates
    <3>3. TeamTypeOK'
        BY <2>1, <3>1, <3>2 DEF TeamTypeOK
    <3>4. seats # 0 => \A v \in Recruiter : recruiters[v].pc # "joining"
        BY <3>1 DEF TeamInv, SeatIsKept
    <3>5. SeatsStep
        BY <2>6, <3>1, <3>2, <3>4 DEF SeatsStep
    <3>6. InvitesStep
        BY <2>7, <3>1, <3>2 DEF InvitesStep, InviteIsKept
    <3> QED
        BY <2>5, <3>3, <3>5, <3>6
  <2>11. ASSUME NEW w \in Recruiter, Join(w) PROVE TeamInv'
    <3> DEFINE i == recruiters[w].invite
               q == recruiters[w].person
    <3>1. /\ recruiters[w].pc = "joining" /\ Released(w) /\ UNCHANGED <<seats, added>>
          /\ members' = [members EXCEPT ![q] = [st |-> "active", role |-> "staff", by |-> "invite"]]
          /\ invites' = [invites EXCEPT ![i].st = IF @ = "open" THEN "used" ELSE @]
          /\ admissions' = [admissions EXCEPT ![i] = @ + 1]
        BY <2>11 DEF Join
    <3>2. storeLock = w /\ i \in Invite /\ invites[i].st = "open"
        BY <2>7, <3>1 DEF InviteIsKept
    <3>3. members' \in [Person -> MemberStates] /\ Members' \subseteq Members \cup {q}
          /\ Invited' \subseteq Invited \cup {q} /\ q \in Person \cup {NoPerson}
        BY <2>1, <3>1 DEF TeamTypeOK, MemberStates, RecruiterStates, Members, Invited
    <3> HIDE DEF i, q
    <3>4. /\ invites' \in [Invite -> [st : {"none", "open", "expired", "replaced", "used"},
                                      person : Person \cup {NoPerson}]]
          /\ invites'[i].st = "used"
          /\ \A j \in Invite \ {i} : invites'[j] = invites[j]
        BY <2>1, <3>1, <3>2 DEF TeamTypeOK
    <3>5. /\ admissions' \in [Invite -> Nat] /\ admissions'[i] = admissions[i] + 1
          /\ \A j \in Invite \ {i} : admissions'[j] = admissions[j]
        BY <2>1, <3>1, <3>2 DEF TeamTypeOK
    <3>6. TeamTypeOK'
        BY <2>1, <2>8, <3>1, <3>3, <3>4, <3>5 DEF TeamTypeOK
    <3>7. InviteAdmitsOnce'
        BY <3>2, <3>4, <3>5 DEF TeamInv, InviteAdmitsOnce
    <3>8. \A v \in Recruiter : InviteIsKept(v)'
      <4> SUFFICES ASSUME NEW v \in Recruiter, recruiters'[v].pc \in {"accepting", "joining"}
                   PROVE  FALSE
          BY DEF InviteIsKept
      <4> QED
          BY <2>7, <2>8, <3>1, <3>2 DEF InviteIsKept
    <3>9. \E p \in Person :
              Members' \subseteq Members \cup {p} /\ Invited' \subseteq Invited \cup {p}
      <4>1. CASE q \in Person
          BY <3>3, <4>1
      <4>2. CASE q \notin Person
        <5>1. Members' \subseteq Person /\ Invited' \subseteq Members'
            BY DEF Members, Invited
        <5> QED
            BY <3>3, <4>2, <5>1
      <4> QED
          BY <4>1, <4>2
    <3>10. SeatsStep
        BY <2>8, <3>1, <3>9 DEF SeatsStep
    <3> QED
        BY <2>3, <3>6, <3>7, <3>8, <3>10
  <2>12. ASSUME NEW w \in Recruiter, RollBack(w) PROVE TeamInv'
    <3>1. Released(w) /\ UNCHANGED <<members, invites, admissions, seats, added>>
        BY <2>12 DEF RollBack
    <3>2. TeamTypeOK'
        BY <2>1, <2>8, <3>1 DEF TeamTypeOK
    <3>3. SeatsStep
        BY <2>6, <2>8, <3>1 DEF SeatsStep
    <3>4. InvitesStep
        BY <2>7, <2>8, <3>1 DEF InvitesStep, InviteIsKept
    <3> QED
        BY <2>5, <3>2, <3>3, <3>4
  <2>13. ASSUME NEW w \in Recruiter, ChangeRole(w) \/ RemoveMember(w) PROVE TeamInv'
    <3>1. Released(w) /\ UNCHANGED <<invites, admissions, seats, added>>
        BY <2>13 DEF ChangeRole, RemoveMember
    <3>2. /\ members' \in [Person -> MemberStates]
          /\ Members' \subseteq Members /\ Invited' \subseteq Invited
      <4> DEFINE q == recruiters[w].person
      <4>1. \/ members' = [members EXCEPT ![q].role = "staff"]
            \/ members' = [members EXCEPT ![q].st = "disabled"]
          BY <2>13 DEF ChangeRole, RemoveMember
      <4> HIDE DEF q
      <4>2. ASSUME NEW p \in Person
            PROVE  /\ members'[p] \in MemberStates /\ members'[p].by = members[p].by
                   /\ members'[p].st \in {members[p].st, "disabled"}
        <5> DEFINE m == members[p]
        <5>1. m \in MemberStates
            BY <2>1 DEF TeamTypeOK
        <5>2. members'[p] \in {m, [m EXCEPT !.role = "staff"], [m EXCEPT !.st = "disabled"]}
            BY <2>1, <4>1 DEF TeamTypeOK
        <5> HIDE DEF m
        <5>3. /\ members'[p] \in MemberStates /\ members'[p].by = m.by
              /\ members'[p].st \in {m.st, "disabled"}
            BY <5>1, <5>2 DEF MemberStates
        <5> QED
            BY <5>3 DEF m
      <4>3. members' \in [Person -> MemberStates]
        <5>1. members' = [p \in Person |-> members'[p]]
            BY <2>1, <4>1 DEF TeamTypeOK
        <5> QED
            BY <4>2, <5>1
      <4> QED
          BY <4>2, <4>3 DEF Members, Invited
    <3>3. TeamTypeOK'
        BY <2>1, <2>8, <3>1, <3>2 DEF TeamTypeOK
    <3>4. SeatsStep
        BY <2>8, <3>1, <3>2 DEF SeatsStep
    <3>5. InvitesStep
        BY <2>7, <2>8, <3>1 DEF InvitesStep, InviteIsKept
    <3> QED
        BY <2>5, <3>3, <3>4, <3>5
  <2>14. ASSUME NEW w \in Recruiter, NEW p \in Person, StartInvite(w, p) PROVE TeamInv'
    <3>1. /\ recruiters[w] = NoTask
          /\ recruiters' = [recruiters EXCEPT ![w] =
                [NoTask EXCEPT !.pc = "inviting", !.person = p]]
          /\ UNCHANGED <<members, invites, admissions, seats, storeLock, added>>
          /\ \/ seats = 0 /\ seatLock' = seatLock
             \/ seatLock = NoRecruiter /\ seatLock' = w
        BY <2>14 DEF StartInvite, TakeSeat
    <3>2. /\ recruiters' \in [Recruiter -> RecruiterStates]
          /\ recruiters'[w].pc = "inviting"
          /\ \A v \in Recruiter \ {w} : recruiters'[v] = recruiters[v]
        BY <2>1, <3>1 DEF TeamTypeOK, RecruiterStates, NoTask
    <3>3. TeamTypeOK'
        BY <2>1, <3>1, <3>2 DEF TeamTypeOK
    <3>4. SeatsStep
        BY <2>6, <3>1, <3>2 DEF SeatsStep
    <3>5. InvitesStep
        BY <2>7, <3>1, <3>2 DEF InvitesStep, InviteIsKept
    <3> QED
        BY <2>5, <3>3, <3>4, <3>5
  <2>15. ASSUME NEW w \in Recruiter, NEW p \in Person, ReadMember(w, p) PROVE TeamInv'
    <3>1. /\ recruiters[w] = NoTask
          /\ recruiters' = [recruiters EXCEPT ![w] =
                [NoTask EXCEPT !.pc = "changing", !.person = p]]
          /\ UNCHANGED <<members, invites, admissions, seats, seatLock, storeLock, added>>
        BY <2>15 DEF ReadMember
    <3>2. /\ recruiters' \in [Recruiter -> RecruiterStates]
          /\ recruiters'[w].pc = "changing"
          /\ \A v \in Recruiter \ {w} : recruiters'[v] = recruiters[v]
        BY <2>1, <3>1 DEF TeamTypeOK, RecruiterStates, NoTask
    <3>3. TeamTypeOK'
        BY <2>1, <3>1, <3>2 DEF TeamTypeOK
    <3>4. SeatsStep
        BY <2>6, <3>1, <3>2 DEF SeatsStep
    <3>5. InvitesStep
        BY <2>7, <3>1, <3>2 DEF InvitesStep, InviteIsKept
    <3> QED
        BY <2>5, <3>3, <3>4, <3>5
  <2>16. ASSUME NEW w \in Recruiter, NEW i \in Invite, LockInvite(w, i) PROVE TeamInv'
    <3>1. /\ recruiters[w] = NoTask /\ invites[i].st = "open" /\ storeLock = NoRecruiter
          /\ storeLock' = w
          /\ recruiters' = [recruiters EXCEPT ![w] =
                [pc |-> "accepting", person |-> invites[i].person, invite |-> i]]
          /\ UNCHANGED <<members, invites, admissions, seats, seatLock, added>>
        BY <2>16 DEF LockInvite
    <3>2. /\ recruiters' \in [Recruiter -> RecruiterStates]
          /\ recruiters'[w].pc = "accepting" /\ recruiters'[w].invite = i
          /\ \A v \in Recruiter \ {w} : recruiters'[v] = recruiters[v]
        BY <2>1, <3>1 DEF TeamTypeOK, RecruiterStates, NoTask
    <3>3. TeamTypeOK'
        BY <2>1, <3>1, <3>2 DEF TeamTypeOK
    <3>4. SeatsStep
        BY <2>6, <3>1, <3>2 DEF SeatsStep
    <3>5. \A v \in Recruiter : recruiters[v].pc \notin {"accepting", "joining"}
        BY <2>7, <3>1 DEF InviteIsKept
    <3>6. InvitesStep
        BY <3>1, <3>2, <3>5 DEF InvitesStep
    <3> QED
        BY <2>5, <3>3, <3>4, <3>6
  <2>17. ASSUME NEW i \in Invite, ExpireInvite(i) PROVE TeamInv'
    <3>1. /\ invites[i].st = "open" /\ \A w \in Recruiter : recruiters[w].invite # i
          /\ invites' = [invites EXCEPT ![i].st = "expired"]
          /\ UNCHANGED <<members, admissions, seats, seatLock, storeLock, recruiters, added>>
        BY <2>17 DEF ExpireInvite
    <3>2. /\ invites' \in [Invite -> [st : {"none", "open", "expired", "replaced", "used"},
                                      person : Person \cup {NoPerson}]]
          /\ invites'[i].st = "expired"
          /\ \A j \in Invite \ {i} : invites'[j] = invites[j]
        BY <2>1, <3>1 DEF TeamTypeOK
    <3>3. TeamTypeOK'
        BY <2>1, <3>1, <3>2 DEF TeamTypeOK
    <3>4. SeatsStep
        BY <2>6, <3>1 DEF SeatsStep
    <3>5. InvitesStep
        BY <2>7, <3>1, <3>2 DEF InvitesStep, InviteIsKept
    <3> QED
        BY <2>5, <3>3, <3>4, <3>5
  <2>18. ASSUME NEW p \in Person, NEW role \in {"owner", "staff"}, PlatformAdd(p, role)
         PROVE  TeamInv'
    <3>1. /\ added < MaxAdded /\ added' = added + 1
          /\ members' = [members EXCEPT ![p] = [st |-> "active", role |-> role, by |-> "platform"]]
          /\ UNCHANGED <<invites, admissions, seats, seatLock, storeLock, recruiters>>
        BY <2>18 DEF PlatformAdd
    <3>2. /\ members' \in [Person -> MemberStates]
          /\ Members' \subseteq Members \cup {p} /\ Invited' \subseteq Invited
        BY <2>1, <3>1 DEF TeamTypeOK, MemberStates, Members, Invited
    <3>3. TeamTypeOK'
        BY <2>1, <3>1, <3>2 DEF TeamTypeOK
    <3>4. SeatsStep
        BY <3>1, <3>2 DEF SeatsStep
    <3>5. InvitesStep
        BY <2>7, <3>1 DEF InvitesStep, InviteIsKept
    <3> QED
        BY <2>5, <3>3, <3>4, <3>5
  <2> QED
      BY <2>2, <2>9, <2>10, <2>11, <2>12, <2>13, <2>14, <2>15, <2>16, <2>17, <2>18 DEF TeamNext
<1> QED
    BY <1>1, <1>2, PTL DEF TeamSpec

-----------------------------------------------------------------------------
(* Composed properties *)

\* A product row of an import that says so took effect, once; a migration is in effect once when
\* its checksum is recorded; an invite lets its address in once, and one that was replaced or
\* expired never did; and an idempotency key runs one of its requests: all under the composed
\* property the run checks.
THEOREM AppliedOnceHolds ==
    ImportSpec /\ MigrationSpec /\ TeamSpec /\ ApiSpec => []AppliedOnce
<1>1. ImportInv /\ MigrationInv /\ TeamInv /\ KeyRunsOnce => AppliedOnce
    BY DEF ImportInv, MigrationInv, TeamInv, AppliedOnce
<1> QED
    BY <1>1, ImportInductive, MigrationInductive, TeamInductive, KeyRunsOnceHolds, PTL

\* The keys somebody created and the members who joined by invite stay within the plan, for any
\* number of administrators and recruiters and any limits.
THEOREM WithinPlanHolds == KeySpec /\ TeamSpec => []WithinPlan
<1>1. KeyInv /\ TeamInv => WithinPlan
    BY DEF KeyInv, TeamInv, WithinPlan
<1> QED
    BY <1>1, KeyInductive, TeamInductive, PTL
=============================================================================
