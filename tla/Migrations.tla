------------------------------ MODULE Migrations ------------------------------
(***************************************************************************)
(* The migration runner and its rollback (scripts/run-migrations.js,       *)
(* scripts/rollback-migration.js, scripts/migrationSupport.js).  Every     *)
(* container that starts runs the migrations; a session holds an advisory  *)
(* lock, and each file commits with its row in schema_migrations.  Files   *)
(* are numbered in the order of their names.                               *)
(***************************************************************************)
EXTENDS Naturals

CONSTANTS
    MaxFiles,   \* bound: migrations of the newest image
    MaxContent, \* bound: contents a file has had
    LegacyFile, \* legacyChecksumCompatibleMigrations
    Migrator    \* processes

ASSUME MigrationAssumption ==
    /\ MaxFiles \in Nat /\ MaxContent \in Nat \ {0}
    /\ LegacyFile \subseteq 1..MaxFiles

VARIABLES
    files,         \* contents of the files in the newest image; 0: no such file
    checksums,     \* schema_migrations; 0: no row
    inEffect,      \* how often a file's SQL is in effect
    migrationLock, \* holder of the advisory lock
    migrators      \* what each process is doing, and the files of its image

migrationVars == <<files, checksums, inEffect, migrationLock, migrators>>

File == 1..MaxFiles
Nobody == "free"
ASSUME NobodyAssumption == Nobody \notin Migrator
NoFiles == [f \in File |-> 0]
Stopped == [pc |-> "idle", image |-> NoFiles, applied |-> NoFiles, next |-> 1]
MigratorStates ==
    [pc : {"idle", "upgrade", "rollback", "locked", "listed", "undo"},
     image : [File -> 0..MaxContent], applied : [File -> 0..MaxContent], next : 1..(MaxFiles + 1)]

\* finalizeMigrationSession; the session of a process that dies gives the lock back as well.
Ends(w) ==
    /\ migrators' = [migrators EXCEPT ![w] = Stopped]
    /\ migrationLock' = IF migrationLock = w THEN Nobody ELSE migrationLock

-----------------------------------------------------------------------------
\* A container of the newest image starts, or an operator runs the rollback in one.
StartMigrator(w, pc) ==
    /\ migrators[w] = Stopped
    /\ migrators' = [migrators EXCEPT ![w].pc = pc, ![w].image = files]
    /\ UNCHANGED <<files, checksums, inEffect, migrationLock>>

LockedPc(w) == IF migrators[w].pc = "upgrade" THEN "locked" ELSE "undo"

\* Mutant of AcquireLock: taken on a pooled connection, which gives it back.
AcquireOnPool(w) ==
    /\ migrators[w].pc \in {"upgrade", "rollback"}
    /\ migrators' = [migrators EXCEPT ![w].pc = LockedPc(w)]
    /\ UNCHANGED <<files, checksums, inEffect, migrationLock>>

\* acquireMigrationLock waits for the session that holds it.
AcquireLock(w) ==
    /\ migrators[w].pc \in {"upgrade", "rollback"}
    /\ migrationLock = Nobody
    /\ migrationLock' = w
    /\ migrators' = [migrators EXCEPT ![w].pc = LockedPc(w)]
    /\ UNCHANGED <<files, checksums, inEffect>>

\* appliedMigrations, read once for all files.
ListApplied(w) ==
    /\ migrators[w].pc = "locked"
    /\ migrators' = [migrators EXCEPT ![w].pc = "listed", ![w].applied = checksums]
    /\ UNCHANGED <<files, checksums, inEffect, migrationLock>>

\* A file of the image that was not on the list: its SQL and its row in one transaction.
ApplyMigration(w) ==
    LET f == migrators[w].next
    IN /\ migrators[w].pc = "listed" /\ f \in File
       /\ migrators[w].image[f] # 0 /\ migrators[w].applied[f] = 0
       /\ inEffect' = [inEffect EXCEPT ![f] = @ + 1]
       /\ checksums' = [checksums EXCEPT ![f] = migrators[w].image[f]]
       /\ migrators' = [migrators EXCEPT ![w].next = f + 1]
       /\ UNCHANGED <<files, migrationLock>>

\* A file that was: passed over, unless its content is another and it is no known legacy file.
PassOver(w) ==
    LET f == migrators[w].next
        content == migrators[w].image[f]
        before == migrators[w].applied[f]
    IN /\ migrators[w].pc = "listed" /\ f \in File
       /\ content = 0 \/ before = content \/ (before # 0 /\ f \in LegacyFile)
       /\ migrators' = [migrators EXCEPT ![w].next = f + 1]
       /\ UNCHANGED <<files, checksums, inEffect, migrationLock>>

\* runRollback of the file written last, or of one the operator names: the down migration
\* drops what is there, and its row goes with it.
RollBackFile(w, f) ==
    /\ migrators[w].pc = "undo"
    /\ migrators[w].image[f] # 0
    /\ inEffect' = [inEffect EXCEPT ![f] = 0]
    /\ checksums' = [checksums EXCEPT ![f] = 0]
    /\ Ends(w)
    /\ UNCHANGED files

\* Every file is done, one failed or has changed, or the process dies: an open transaction
\* rolls back.
EndSession(w) ==
    /\ migrators[w].pc # "idle"
    /\ Ends(w)
    /\ UNCHANGED <<files, checksums, inEffect>>

\* The next image adds a file or changes one.
DeployFile(f) ==
    /\ files[f] < MaxContent
    /\ files' = [files EXCEPT ![f] = @ + 1]
    /\ UNCHANGED <<checksums, inEffect, migrationLock, migrators>>

-----------------------------------------------------------------------------
MigrationInit ==
    /\ files = NoFiles /\ checksums = NoFiles /\ inEffect = NoFiles
    /\ migrationLock = Nobody
    /\ migrators = [w \in Migrator |-> Stopped]

MigrationNext ==
    \/ \E w \in Migrator :
         \/ \E pc \in {"upgrade", "rollback"} : StartMigrator(w, pc)
         \/ AcquireLock(w) \/ ListApplied(w) \/ ApplyMigration(w) \/ PassOver(w)
         \/ EndSession(w)
         \/ \E f \in File : RollBackFile(w, f)
    \/ \E f \in File : DeployFile(f)

MigrationSpec == MigrationInit /\ [][MigrationNext]_migrationVars

-----------------------------------------------------------------------------
(* Properties *)

\* Files, checksums, effects, the lock and the processes hold values of their kind.
MigrationTypeOK ==
    /\ files \in [File -> 0..MaxContent] /\ checksums \in [File -> 0..MaxContent]
    /\ inEffect \in [File -> Nat]
    /\ migrationLock \in Migrator \cup {Nobody}
    /\ migrators \in [Migrator -> MigratorStates]

\* However many containers start at once, crash, or take a migration back meanwhile: a file
\* that is recorded is in effect once, and one that is not recorded is not in effect.
MigratedOnce == \A f \in File : inEffect[f] = IF checksums[f] # 0 THEN 1 ELSE 0
=============================================================================
