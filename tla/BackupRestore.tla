--------------------------- MODULE BackupRestore ---------------------------
(***************************************************************************)
(* Backups, the pending restore and startup (src/db.rs, src/api/backups.rs,*)
(* src/main.rs).  The database is in WAL mode and the process has no       *)
(* orderly shutdown, so a stop always leaves the -wal file beside the main *)
(* file.  A database content is the number of its last commit; Partial is  *)
(* a file whose copy was interrupted, Broken a backup whose VACUUM INTO    *)
(* was, and Torn what SQLite serves when it replays the -wal file of one   *)
(* database over the main file of another.                                 *)
(***************************************************************************)
EXTENDS Naturals, FiniteSets, FiniteSetsExt

CONSTANTS
    Runners,     \* callers of backup_db: the daily task and the admin API
    Keep,        \* backups kept by the rotation (7 in the code)
    None, Partial, Broken, Torn,
    MaxCommits,  \* bound: commits
    MaxTime,     \* bound: seconds, the resolution of file names
    MaxRequests, \* bound: restores scheduled
    MaxFaults    \* bound: stops of the process and failed removals

ASSUME BackupAssumption ==
    /\ Keep \in Nat \ {0}
    /\ Partial \notin Nat \cup {None, Broken, Torn}
    /\ MaxCommits \in Nat /\ MaxTime \in Nat /\ MaxRequests \in Nat /\ MaxFaults \in Nat

VARIABLES
    phase,      \* of the process
    file,       \* content of the main database file
    wal,        \* content through the -wal file, None if there is no such file
    foreign,    \* the -wal file belongs to a replaced main file
    backups,    \* <db>.<second>.backup: second -> content
    bundles,    \* seconds with a <db>.<second>.full-backup.tar.gz
    marker,     \* .peanut_restore: None or the name of a file
    runner,     \* per caller of backup_db: its progress
    now,
    preserved,  \* content of the last <db>.pre-restore.<second>
    restored,   \* auxiliary: content of the restored backup until the next commit
    scheduled,  \* auxiliary: restores scheduled
    applied,    \* auxiliary: restores applied
    outlived,   \* auxiliary: times the marker outlived its restore
    faults

vars == <<phase, file, wal, foreign, backups, bundles, marker, runner, now,
          preserved, restored, scheduled, applied, outlived, faults>>

disk == <<file, wal, foreign, backups, bundles, marker>>
history == <<preserved, restored, scheduled, applied, outlived, faults>>

Content == 0 .. MaxCommits \cup {Partial, Broken, Torn}
Seconds == 0 .. MaxTime
Names == {"backup", "bundle"} \X Seconds

Resting == [pc |-> "idle", full |-> FALSE, name |-> 0, todo |-> {}]

TypeOK ==
    /\ phase \in {"stopped", "preserve", "copy", "copying", "unmark", "open", "running", "panicked"}
    /\ file \in Content
    /\ wal \in Content \cup {None}
    /\ foreign \in BOOLEAN
    /\ DOMAIN backups \subseteq Seconds
    /\ \A n \in DOMAIN backups : backups[n] \in Content
    /\ bundles \subseteq Seconds
    /\ marker \in Names \cup {None}
    /\ runner \in [Runners -> [pc : {"idle", "vacuum", "list", "rotate", "bundle"},
                               full : BOOLEAN, name : Seconds, todo : SUBSET Seconds]]
    /\ now \in Seconds
    /\ preserved \in Content \cup {None}
    /\ restored \in Content \cup {None}
    /\ scheduled \in 0 .. MaxRequests
    /\ applied \in Nat /\ outlived \in 0 .. MaxFaults
    /\ faults \in 0 .. MaxFaults

Init ==
    /\ phase = "stopped"
    /\ file = 0 /\ wal = None /\ foreign = FALSE
    /\ backups = << >> /\ bundles = {}
    /\ marker = None
    /\ runner = [r \in Runners |-> Resting]
    /\ now = 0
    /\ preserved = None
    /\ restored = None
    /\ scheduled = 0 /\ applied = 0 /\ outlived = 0 /\ faults = 0

\* What a connection reads.
Served == IF wal = None THEN file ELSE wal

Put(f, n, x) == [k \in DOMAIN f \cup {n} |-> IF k = n THEN x ELSE f[k]]

-----------------------------------------------------------------------------
(* apply_pending_restore, called by main before the database is opened.    *)

\* The marker names a file that ends in ".backup" and exists.
Restorable == marker[1] = "backup" /\ marker[2] \in DOMAIN backups

Start ==
    /\ phase \in {"stopped", "panicked"}
    /\ phase' = IF marker = None THEN "open"
                ELSE IF Restorable THEN "preserve" ELSE "panicked"
    /\ phase' # phase
    /\ UNCHANGED <<disk, runner, now, history>>

\* The main file alone is copied to <db>.pre-restore.<second>.
PreserveCurrent ==
    /\ phase = "preserve"
    /\ phase' = "copy"
    /\ preserved' = file
    /\ UNCHANGED <<disk, runner, now, restored, scheduled, applied, outlived, faults>>

\* Mutant: the marker is removed before the backup is copied.
UnmarkThenCopy ==
    /\ phase = "copy"
    /\ phase' = "copying"
    /\ file' = Partial
    /\ marker' = None
    /\ UNCHANGED <<wal, foreign, backups, bundles, runner, now, history>>

CopyBackup ==
    \/ /\ phase = "copy"
       /\ phase' = "copying"
       /\ file' = Partial
       /\ UNCHANGED <<wal, foreign, backups, bundles, marker, runner, now, history>>
    \/ /\ phase = "copying"
       /\ phase' = "unmark"
       /\ file' = backups[marker[2]]
       /\ foreign' = (wal # None)
       /\ restored' = backups[marker[2]]
       /\ applied' = applied + 1
       /\ UNCHANGED <<wal, backups, bundles, marker, runner, now, preserved, scheduled, outlived, faults>>

\* Mutant: the marker of an applied restore is left in place.
KeepMarker ==
    /\ phase = "unmark"
    /\ phase' = "open"
    /\ UNCHANGED <<disk, runner, now, history>>

\* A failure to remove the marker is reported and otherwise ignored.
RemoveMarker ==
    /\ phase = "unmark"
    /\ phase' = "open"
    /\ \/ marker' = None /\ UNCHANGED <<outlived, faults>>
       \/ /\ faults < MaxFaults
          /\ faults' = faults + 1
          /\ outlived' = outlived + 1
          /\ marker' = marker
    /\ UNCHANGED <<file, wal, foreign, backups, bundles, runner, now, preserved, restored, scheduled, applied>>

\* init_db: SQLite replays the -wal file it finds.
OpenDatabase ==
    /\ phase = "open"
    /\ phase' = "running"
    /\ wal' = IF wal # None /\ foreign THEN Torn ELSE wal
    /\ foreign' = FALSE
    /\ UNCHANGED <<file, backups, bundles, marker, runner, now, history>>

\* The process is stopped or crashes; files stay as they are.
Stop ==
    /\ phase \notin {"stopped", "panicked"}
    /\ faults < MaxFaults
    /\ faults' = faults + 1
    /\ outlived' = IF phase = "unmark" THEN outlived + 1 ELSE outlived
    /\ phase' = "stopped"
    /\ runner' = [r \in Runners |-> Resting]
    /\ UNCHANGED <<disk, now, preserved, restored, scheduled, applied>>

-----------------------------------------------------------------------------
(* The running server.                                                     *)
Commit ==
    /\ phase = "running"
    /\ IF Served \in Nat
       THEN Served < MaxCommits /\ wal' = Served + 1
       ELSE wal' = Served
    /\ restored' = None
    /\ UNCHANGED <<phase, file, foreign, backups, bundles, marker, runner, now,
                   preserved, scheduled, applied, outlived, faults>>

\* SQLite copies the -wal file into the main file and keeps the -wal file.
Checkpoint ==
    /\ phase = "running"
    /\ wal # None /\ file # wal
    /\ file' = wal
    /\ UNCHANGED <<phase, wal, foreign, backups, bundles, marker, runner, now, history>>

\* backup_db: VACUUM INTO a file named after the second; it fails if there is
\* one.  create_full_backup goes on to pack a bundle.
VacuumInto(r, full) ==
    /\ phase = "running"
    /\ runner[r].pc = "idle"
    /\ now \notin DOMAIN backups
    /\ backups' = Put(backups, now, Broken)
    /\ runner' = [runner EXCEPT ![r] = [Resting EXCEPT !.pc = "vacuum", !.full = full, !.name = now]]
    /\ UNCHANGED <<phase, file, wal, foreign, bundles, marker, now, history>>

\* The file may have been rotated away by another caller meanwhile.
VacuumDone(r) ==
    /\ runner[r].pc = "vacuum"
    /\ backups' = IF runner[r].name \in DOMAIN backups
                  THEN [backups EXCEPT ![runner[r].name] = Served] ELSE backups
    /\ runner' = [runner EXCEPT ![r].pc = "list"]
    /\ UNCHANGED <<phase, file, wal, foreign, bundles, marker, now, history>>

\* Mutant: the rotation keeps one file too few.
ExcessOffByOne == {n \in DOMAIN backups : Cardinality({k \in DOMAIN backups : k > n}) >= Keep - 1}

\* The oldest files beyond the newest Keep.
Excess == {n \in DOMAIN backups : Cardinality({k \in DOMAIN backups : k > n}) >= Keep}

ListBackups(r) ==
    /\ runner[r].pc = "list"
    /\ runner' = [runner EXCEPT ![r].pc = "rotate", ![r].todo = Excess]
    /\ UNCHANGED <<phase, disk, now, history>>

\* Oldest first; a file that another caller removed is an error, which ends
\* the rotation and the backup.
RotateOne(r) ==
    /\ runner[r].pc = "rotate"
    /\ runner[r].todo # {}
    /\ LET n == Min(runner[r].todo) IN
       IF n \in DOMAIN backups
       THEN /\ backups' = [k \in DOMAIN backups \ {n} |-> backups[k]]
            /\ runner' = [runner EXCEPT ![r].todo = @ \ {n}]
       ELSE /\ backups' = backups
            /\ runner' = [runner EXCEPT ![r] = Resting]
    /\ UNCHANGED <<phase, file, wal, foreign, bundles, marker, now, history>>

RotationDone(r) ==
    /\ runner[r].pc = "rotate"
    /\ runner[r].todo = {}
    /\ runner' = [runner EXCEPT ![r] =
                    IF runner[r].full THEN [@ EXCEPT !.pc = "bundle"] ELSE Resting]
    /\ UNCHANGED <<phase, disk, now, history>>

\* create_full_backup_bundle: tar fails if the database backup is gone.
PackBundle(r) ==
    /\ runner[r].pc = "bundle"
    /\ bundles' = IF runner[r].name \in DOMAIN backups THEN bundles \cup {now} ELSE bundles
    /\ runner' = [runner EXCEPT ![r] = Resting]
    /\ UNCHANGED <<phase, file, wal, foreign, backups, marker, now, history>>

\* The names validate_backup_name lets through.
ValidName(name) == name \in Names

\* restore_backup: the file exists when the marker is written.
ScheduleRestore(name) ==
    /\ phase = "running"
    /\ scheduled < MaxRequests
    /\ ValidName(name)
    /\ IF name[1] = "backup" THEN name[2] \in DOMAIN backups ELSE name[2] \in bundles
    /\ marker' = name
    /\ scheduled' = scheduled + 1
    /\ UNCHANGED <<phase, file, wal, foreign, backups, bundles, runner, now,
                   preserved, restored, applied, outlived, faults>>

\* delete_restore_pending.
ClearRestore ==
    /\ phase = "running"
    /\ marker # None
    /\ marker' = None
    /\ UNCHANGED <<phase, file, wal, foreign, backups, bundles, runner, now, history>>

Tick ==
    /\ now < MaxTime
    /\ now' = now + 1
    /\ UNCHANGED <<phase, disk, runner, history>>

Next ==
    \/ Start \/ PreserveCurrent \/ CopyBackup \/ RemoveMarker \/ OpenDatabase
    \/ Stop
    \/ Commit \/ Checkpoint
    \/ \E r \in Runners :
          \/ \E full \in BOOLEAN : VacuumInto(r, full)
          \/ VacuumDone(r) \/ ListBackups(r) \/ RotateOne(r) \/ RotationDone(r) \/ PackBundle(r)
    \/ \E name \in Names : ScheduleRestore(name)
    \/ ClearRestore
    \/ Tick

Spec == Init /\ [][Next]_vars

-----------------------------------------------------------------------------
(* The server never opens a main file whose copy was interrupted: the      *)
(* marker outlives the copy, so a restart begins the restore again.        *)
ServedFileComplete == phase \in {"open", "running"} => file # Partial

(* A scheduled restore is applied once, and once more only where the       *)
(* process stopped between the copy and the removal of the marker, or the  *)
(* removal failed: commits made since are not rolled back by later starts. *)
RestoresBounded == applied <= scheduled + outlived

(* The rotation never removes one of the newest Keep backups, although the *)
(* list it works from may be outdated by other callers: files are removed  *)
(* oldest first, and a file that is already gone ends the rotation.        *)
NewestBackupsKept ==
    [][\A n \in DOMAIN backups \ DOMAIN backups' :
          Cardinality({k \in DOMAIN backups' : k > n}) >= Keep]_vars

(* Once a complete backup is restored and the database opened, the server serves    *)
(* the backup ("restart Peanut to apply it").  It does not when the old    *)
(* process left a -wal file, which apply_pending_restore leaves in place.  *)
RestoreIsExact == phase = "running" /\ restored \in 0 .. MaxCommits => Served = restored

(* The copy made before a restore holds the database being replaced.  It   *)
(* holds the main file only, without what is still in the -wal file.       *)
CurrentIsPreserved == phase = "copy" => preserved = Served

(* A restart after a restore was scheduled comes up.  It panics on a       *)
(* bundle, and on a backup that was rotated away before the restart.       *)
StartupSucceeds == phase # "panicked"
=============================================================================
