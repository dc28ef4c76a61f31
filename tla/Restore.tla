-------------------------------- MODULE Restore --------------------------------
(***************************************************************************)
(* `ekon-ctl restore` (cli/commands/restore.ts, cli/adminDb.ts) beside the *)
(* service that writes the books and the backup runs of module Backup.     *)
(*                                                                         *)
(* The live database is renamed, never dropped; an archive is loaded into  *)
(* a fresh one; an earlier displaced database goes only when it is named.  *)
(* The service is not assumed to be stopped.  One operator restores at a   *)
(* time.                                                                   *)
(***************************************************************************)
EXTENDS Backup

CONSTANTS
  Empty, Half   \* a database just created; one pg_restore has not finished

States == Books \ {Empty, Half}   \* the books as the shop's commits left them

ASSUME RestoreAssumption ==
  /\ {Empty, Half} \subseteq Books /\ Empty # Half
  /\ States \subseteq Nat /\ 0 \in States

VARIABLES
  displaced,   \* [Stamps -> the database ekon_pre_restore_<stamp>, or NoBooks]
  restore,     \* the restore command that runs
  latest,      \* the newest state the service has committed
  owed,        \* states nobody has asked to be rid of (for the properties)
  discarded,   \* states dropped by name (for the properties)
  spoiled      \* some restore has loaded an unfinished database (for the properties)

restoreVars == <<displaced, restore, owed, discarded, spoiled>>
allVars     == <<backupVars, restoreVars, latest>>

NotRestoring == [pc |-> "idle"]
Restoring == [pc : {"verify", "rename", "create", "load", "loading", "migrate", "discard"},
              file : Name, stamp : Stamps, discard : Stamps \cup {Absent}, archive : Books \cup {Absent}]

RestoreInit ==
  /\ Init /\ live = 0
  /\ displaced = [s \in Stamps |-> NoBooks]
  /\ restore = NotRestoring
  /\ latest = 0
  /\ owed = {0} /\ discarded = {} /\ spoiled = FALSE

(* A request commits.                                                      *)
Commit ==
  /\ live \in States /\ latest + 1 \in States
  /\ latest' = latest + 1
  /\ live' = latest'
  /\ owed' = (owed \ {live}) \cup {live'}
  /\ UNCHANGED <<now, files, lastBackup, job, displaced, restore, discarded, spoiled>>

RGoto(pc)   == restore' = [restore EXCEPT !.pc = pc]
RestoreEnds == restore' = NotRestoring

(* Without --yes, or naming what it is about to displace, nothing happens. *)
Discardable(name, stamp) == name # stamp

RestoreStart ==
  /\ restore = NotRestoring
  /\ now' \in now + 1..MaxClock
  /\ \E n \in Name, d \in Stamps \cup {Absent} :
       /\ final[n] # Absent
       /\ Discardable(d, now')
       /\ restore' = [pc |-> "verify", file |-> n, stamp |-> now', discard |-> d,
                      archive |-> Absent]
  /\ UNCHANGED <<live, files, lastBackup, job, displaced, owed, discarded, spoiled, latest>>

(* Defect: the earlier database goes before this restore has succeeded.    *)
DefectDiscardsFirst ==
  /\ restore.pc = "verify"
  /\ IF restore.discard = Absent THEN UNCHANGED <<displaced, discarded>>
     ELSE /\ displaced' = [displaced EXCEPT ![restore.discard] = NoBooks]
          /\ discarded' = discarded \cup {displaced[restore.discard]}
  /\ RGoto("rename")
  /\ UNCHANGED <<backupVars, owed, spoiled, latest>>

(* verifyBackupFile: a missing sidecar is no obstacle, one that disagrees  *)
(* is.                                                                     *)
Intact(n) == final[n] \in Books /\ sidecar[n] \in {Absent, final[n]}

VerifyBackupFile ==
  /\ restore.pc = "verify"
  /\ IF Intact(restore.file) THEN RGoto("rename") ELSE RestoreEnds
  /\ UNCHANGED <<backupVars, displaced, owed, discarded, spoiled, latest>>

(* Defect: the database that is replaced is dropped.                       *)
DefectDropsTheLiveDatabase ==
  /\ restore.pc = "rename" /\ live # NoBooks
  /\ live' = NoBooks
  /\ RGoto("create")
  /\ UNCHANGED <<now, files, lastBackup, job, displaced, owed, discarded, spoiled, latest>>

(* Every connection to it is terminated: a pg_dump under way fails.        *)
RenameDatabase ==
  /\ restore.pc = "rename"
  /\ IF live = NoBooks \/ displaced[restore.stamp] # NoBooks
     THEN RestoreEnds /\ UNCHANGED <<displaced, live, job>>
     ELSE /\ displaced' = [displaced EXCEPT ![restore.stamp] = live]
          /\ live' = NoBooks
          /\ job' = [j \in Jobs |-> IF At(j, "dumping")
                                    THEN [job[j] EXCEPT !.pc = "failing"] ELSE job[j]]
          /\ RGoto("create")
  /\ UNCHANGED <<now, files, lastBackup, owed, discarded, spoiled, latest>>

CreateDatabase ==
  /\ restore.pc = "create"
  /\ live' = Empty
  /\ RGoto("load")
  /\ UNCHANGED <<now, files, lastBackup, job, displaced, owed, discarded, spoiled, latest>>

(* pg_restore opens the archive: it fails when the file is gone.           *)
PgRestore ==
  /\ restore.pc = "load"
  /\ IF final[restore.file] = Absent
     THEN RestoreEnds /\ UNCHANGED live
     ELSE /\ restore' = [restore EXCEPT !.pc = "loading", !.archive = final[restore.file]]
          /\ live' = Half
  /\ UNCHANGED <<now, files, lastBackup, job, displaced, owed, discarded, spoiled, latest>>

PgRestoreExits ==
  /\ restore.pc = "loading"
  /\ live' = restore.archive
  /\ owed' = owed \cup ({live'} \cap States)
  /\ spoiled' = (spoiled \/ live' \notin States)
  /\ RGoto("migrate")
  /\ UNCHANGED <<now, files, lastBackup, job, displaced, discarded, latest>>

(* migrateUp: what was loaded is brought to this build's schema.           *)
MigrateUp ==
  /\ restore.pc = "migrate"
  /\ IF restore.discard = Absent THEN RestoreEnds ELSE RGoto("discard")
  /\ UNCHANGED <<backupVars, displaced, owed, discarded, spoiled, latest>>

Discard ==
  /\ restore.pc = "discard"
  /\ displaced' = [displaced EXCEPT ![restore.discard] = NoBooks]
  /\ discarded' = discarded \cup {displaced[restore.discard]}
  /\ RestoreEnds
  /\ UNCHANGED <<backupVars, owed, spoiled, latest>>

(* A statement or a tool fails, or the machine stops: nothing is undone.   *)
RestoreStops ==
  /\ "crash" \in Faults
  /\ restore # NotRestoring
  /\ RestoreEnds
  /\ UNCHANGED <<backupVars, displaced, owed, discarded, spoiled, latest>>

RestoreNext ==
  \/ Commit
  \/ RestoreStart \/ VerifyBackupFile \/ RenameDatabase \/ CreateDatabase
  \/ PgRestore \/ PgRestoreExits \/ MigrateUp \/ Discard \/ RestoreStops

Next ==
  \/ RestoreNext
  \/ BackupNext /\ UNCHANGED <<restoreVars, latest>>

RestoreSpec == RestoreInit /\ [][Next]_allVars
===============================================================================
