--------------------------- MODULE BackupProperties ----------------------------
(***************************************************************************)
(* What a backup run may never do to the backups already there, and what   *)
(* its record may be believed to say.                                      *)
(***************************************************************************)
EXTENDS Backup, IsoWeek

Present == {n \in Name : final[n] # Absent}
Untagged(names) == {n \in names : n.tag = NoTag}

TypeOK ==
  /\ now \in 0..MaxClock
  /\ live \in Books \cup {NoBooks}
  /\ partial \in [Name -> Books \cup {Absent, Cut, Junk}]
  /\ final \in [Name -> Books \cup {Absent, Cut, Junk}]
  /\ sidecar \in [Name -> Books \cup {Absent}]
  /\ lastBackup \in LastBackup \cup {Absent, Cut}
  /\ job \in [Jobs -> {Idle} \cup Running(Steps, Books \cup {Absent})]

(***************************************************************************)
(* A file under a finished name is a complete archive that was checked,    *)
(* whatever stopped and wherever (backup.ts 28-31).                        *)
(***************************************************************************)
FinalIsComplete == \A n \in Name : final[n] \in Books \cup {Absent}

(***************************************************************************)
(* The status screen's "the last backup succeeded" can be relied on: a     *)
(* complete backup at least that recent is in the directory, although      *)
(* pruning, other runs and crashes go on after the record was written.     *)
(***************************************************************************)
RecordIsHonest ==
  lastBackup \in [ok : {TRUE}, file : Name] =>
    \E n \in Present : final[n] \in Books /\ n.stamp >= lastBackup.file.stamp

(***************************************************************************)
(* retention.ts 13-27: whatever is deleted, and however two prunings       *)
(* overlap, each of the KeepDaily most recent days that have an untagged   *)
(* backup keeps one, and so does each of the KeepWeekly weeks; a tagged    *)
(* backup is never deleted ("the last good copy is never deleted because   *)
(* something earlier went wrong", backup.ts 34-35).                        *)
(***************************************************************************)
Recent(buckets, keep) == {b \in buckets : Cardinality({c \in buckets : c > b}) < keep}
RecentDays(names)  == Recent({Day(n) : n \in Untagged(names)}, KeepDaily)
RecentWeeks(names) == Recent({Week(n) : n \in Untagged(names)}, KeepWeekly)

KeepsCoverage ==
  /\ \A b \in Untagged(Present) :
       /\ Day(b) \in RecentDays(Present) => \E c \in Untagged(Present') : Day(c) = Day(b)
       /\ Week(b) \in RecentWeeks(Present) => \E c \in Untagged(Present') : Week(c) = Week(b)
  /\ Present \ Untagged(Present) \subseteq Present'

CoverageIsKept == [][KeepsCoverage]_backupVars

(***************************************************************************)
(* The weeks of the retention rule are those of ISO 8601, also at the turn *)
(* of a year (isoWeekKey of retention.ts): a pure fact, asked once, of the *)
(* first state.                                                            *)
(***************************************************************************)
WeeksAreIsoWeeks == now = 0 => IsoWeekIsStandard
===============================================================================
