-------------------------------- MODULE Backup ---------------------------------
(***************************************************************************)
(* `ekon-ctl backup` and the directory it fills (cli/commands/backup.ts,   *)
(* cli/backup/*.ts, platform/installation/backupState.ts): dump under a    *)
(* partial name, verify, rename, checksum, prune, record.                  *)
(*                                                                         *)
(* A scheduled run and a manual one may overlap; each statement that       *)
(* touches the disk is a step of its own, any of them can throw, and the   *)
(* machine can stop between two of them.  A file's content is the state    *)
(* of the books it was dumped from.  A stamp counts the clock's ticks; two *)
(* runs never share one.                                                   *)
(***************************************************************************)
EXTENDS Integers, FiniteSets, Folds

CONSTANTS
  Jobs,                   \* invocations of the command that may overlap
  Tags, NoTag,            \* what --tag may say, and its absence
  MaxClock,               \* bound on the stamps
  TicksPerDay, DaysPerWeek,
  KeepDaily, KeepWeekly,  \* BACKUP_KEEP_DAILY and BACKUP_KEEP_WEEKLY
  Faults,                 \* what may go wrong: a subset of FaultKinds
  Books,                  \* states a database can be dumped in
  NoBooks,                \* there is no database to dump
  Absent, Cut, Junk       \* no file; an unfinished dump; not an archive

FaultKinds == {"mkdir", "tool", "junk", "io", "remove", "note", "crash"}

ASSUME BackupAssumption ==
  /\ IsFiniteSet(Tags) /\ NoTag \notin Tags
  /\ MaxClock \in Nat
  /\ TicksPerDay \in Nat \ {0} /\ DaysPerWeek \in Nat \ {0}
  /\ KeepDaily \in Nat \ {0} /\ KeepWeekly \in Nat
  /\ Faults \subseteq FaultKinds
  /\ {NoBooks, Absent, Cut, Junk} \cap Books = {}

Stamps == 1..MaxClock
Name   == [stamp : Stamps, tag : Tags \cup {NoTag}]
Day(n)  == n.stamp \div TicksPerDay
Week(n) == Day(n) \div DaysPerWeek

VARIABLES
  now,         \* the clock
  live,        \* what the live database holds
  partial,     \* [Name -> what is under the partial name]
  final,       \* [Name -> what is under the finished name]
  sidecar,     \* [Name -> the content whose hash the .sha256 holds]
  lastBackup,  \* last-backup.json: a record, Cut while half written, or Absent
  job          \* [Jobs -> where each run is]

files      == <<partial, final, sidecar>>
backupVars == <<now, live, files, lastBackup, job>>

Idle == [pc |-> "idle"]
Running(pcs, file) == [pc : pcs, name : Name, content : file, doomed : SUBSET Name, ok : BOOLEAN]
Steps == {"mkdir", "dump", "dumping", "dumped", "verified", "renamed", "listing", "pruning",
          "unlinking", "failing", "recording", "noting"}
LastBackup == [ok : {TRUE}, file : Name] \cup [ok : {FALSE}, file : {Absent}]

(* What is half written is not read as a record (readLastBackup).          *)
ASSUME RecordAssumption == {Absent, Cut} \cap LastBackup = {}

Init ==
  /\ now = 0
  /\ live \in Books
  /\ partial = [n \in Name |-> Absent]
  /\ final = [n \in Name |-> Absent]
  /\ sidecar = [n \in Name |-> Absent]
  /\ lastBackup = Absent
  /\ job = [j \in Jobs |-> Idle]

------------------------------------------------------------------------------
(* Retention: what selectBackupsToPrune returns for a listing.             *)

Newest(names) == CHOOSE n \in names : \A m \in names : m.stamp <= n.stamp
Oldest(names) == CHOOSE n \in names : \A m \in names : n.stamp <= m.stamp

Consider(n, seen) ==
  LET days  == seen.days \cup {Day(n)}
      weeks == seen.weeks \cup {Week(n)}
      first == \/ Day(n) \notin seen.days /\ Cardinality(days) <= KeepDaily
               \/ Week(n) \notin seen.weeks /\ Cardinality(weeks) <= KeepWeekly
  IN  IF n.tag # NoTag THEN [seen EXCEPT !.keep = @ \cup {n}]
      ELSE [keep  |-> IF first THEN seen.keep \cup {n} ELSE seen.keep,
            days  |-> days,
            weeks |-> weeks]

(* Defect: the sort is the wrong way round.                                *)
DefectPrunesTheNewest(names) ==
  names \ MapThenFoldSet(Consider, [keep |-> {}, days |-> {}, weeks |-> {}],
                         LAMBDA n : n, Newest, names).keep

(* The loop takes the newest first: the oldest is the last it considers.   *)
SelectBackupsToPrune(names) ==
  names \ MapThenFoldSet(Consider, [keep |-> {}, days |-> {}, weeks |-> {}],
                         LAMBDA n : n, Oldest, names).keep

------------------------------------------------------------------------------
Goto(j, pc) == job' = [job EXCEPT ![j].pc = pc]
At(j, pc)   == job[j].pc = pc
Ends(j)     == job' = [job EXCEPT ![j] = Idle]

Start(j, tag) ==
  /\ At(j, "idle")
  /\ now' \in now + 1..MaxClock
  /\ job' = [job EXCEPT ![j] = [pc |-> "mkdir", name |-> [stamp |-> now', tag |-> tag],
                                content |-> Absent, doomed |-> {}, ok |-> TRUE]]
  /\ UNCHANGED <<live, files, lastBackup>>

(* mkdir comes before the try block: when it throws, the run is over.      *)
MakeDirectory(j) ==
  /\ At(j, "mkdir")
  /\ \/ Goto(j, "dump")
     \/ "mkdir" \in Faults /\ Ends(j)
  /\ UNCHANGED <<now, live, files, lastBackup>>

(* pg_dump takes its snapshot and begins the partial file.                 *)
PgDump(j) ==
  /\ At(j, "dump") /\ live # NoBooks
  /\ job' = [job EXCEPT ![j].pc = "dumping", ![j].content = live]
  /\ partial' = [partial EXCEPT ![job[j].name] = Cut]
  /\ UNCHANGED <<now, live, final, sidecar, lastBackup>>

PgDumpExits(j) ==
  /\ At(j, "dumping")
  /\ \E written \in {job[j].content} \cup (IF "junk" \in Faults THEN {Junk} ELSE {}) :
       partial' = [partial EXCEPT ![job[j].name] = written]
  /\ Goto(j, "dumped")
  /\ UNCHANGED <<now, live, final, sidecar, lastBackup>>

(* It exits non-zero: no such database, or anything else.                  *)
PgDumpFails(j) ==
  /\ \/ At(j, "dump") /\ live = NoBooks
     \/ At(j, "dump") /\ "tool" \in Faults
     \/ At(j, "dumping") /\ "tool" \in Faults
  /\ Goto(j, "failing")
  /\ UNCHANGED <<now, live, files, lastBackup>>

(* Defect: pg_dump exited with 0, so the file is an archive.               *)
DefectTrustsTheExitCode(j) ==
  /\ At(j, "dumped")
  /\ Goto(j, "verified")
  /\ UNCHANGED <<now, live, files, lastBackup>>

(* The size and the magic bytes.                                           *)
Verify(j) ==
  /\ At(j, "dumped")
  /\ Goto(j, IF partial[job[j].name] \in Books THEN "verified" ELSE "failing")
  /\ UNCHANGED <<now, live, files, lastBackup>>

Rename(j) ==
  /\ At(j, "verified")
  /\ final' = [final EXCEPT ![job[j].name] = partial[job[j].name]]
  /\ partial' = [partial EXCEPT ![job[j].name] = Absent]
  /\ Goto(j, "renamed")
  /\ UNCHANGED <<now, live, sidecar, lastBackup>>

(* Hashing throws when another run has pruned the file meanwhile.          *)
WriteChecksum(j) ==
  LET n == job[j].name IN
  /\ At(j, "renamed")
  /\ IF final[n] = Absent
     THEN Goto(j, "failing") /\ UNCHANGED sidecar
     ELSE Goto(j, "listing") /\ sidecar' = [sidecar EXCEPT ![n] = final[n]]
  /\ UNCHANGED <<now, live, partial, final, lastBackup>>

(* prune lists the directory and decides.                                  *)
List(j) ==
  /\ At(j, "listing")
  /\ job' = [job EXCEPT ![j].pc = "pruning",
       ![j].doomed = SelectBackupsToPrune({n \in Name : final[n] # Absent})]
  /\ UNCHANGED <<now, live, files, lastBackup>>

NextDoomed(j) == Newest(job[j].doomed)

RemoveDump(j) ==
  /\ At(j, "pruning") /\ job[j].doomed # {}
  /\ final' = [final EXCEPT ![NextDoomed(j)] = Absent]
  /\ Goto(j, "unlinking")
  /\ UNCHANGED <<now, live, partial, sidecar, lastBackup>>

RemoveSidecar(j) ==
  /\ At(j, "unlinking")
  /\ sidecar' = [sidecar EXCEPT ![NextDoomed(j)] = Absent]
  /\ job' = [job EXCEPT ![j].pc = "pruning", ![j].doomed = @ \ {NextDoomed(j)}]
  /\ UNCHANGED <<now, live, partial, final, lastBackup>>

(* Either removal fails: a warning, and the next file.                     *)
RemoveFails(j) ==
  /\ "remove" \in Faults
  /\ job[j].pc \in {"pruning", "unlinking"} /\ job[j].doomed # {}
  /\ job' = [job EXCEPT ![j].pc = "pruning", ![j].doomed = @ \ {NextDoomed(j)}]
  /\ UNCHANGED <<now, live, files, lastBackup>>

PruneEnds(j) ==
  /\ At(j, "pruning") /\ job[j].doomed = {}
  /\ Goto(j, "recording")
  /\ UNCHANGED <<now, live, files, lastBackup>>

(* stat, rename, the hash, the sidecar or the listing throws.              *)
Throws(j) ==
  /\ "io" \in Faults
  /\ job[j].pc \in {"dumped", "verified", "renamed", "listing"}
  /\ Goto(j, "failing")
  /\ UNCHANGED <<now, live, files, lastBackup>>

(* The catch block: the partial goes, if it can.                           *)
CleanUp(j) ==
  /\ At(j, "failing")
  /\ \/ partial' = [partial EXCEPT ![job[j].name] = Absent]
     \/ "remove" \in Faults /\ UNCHANGED partial
  /\ job' = [job EXCEPT ![j].pc = "recording", ![j].ok = FALSE]
  /\ UNCHANGED <<now, live, final, sidecar, lastBackup>>

(* writeLastBackup: the file is truncated, then written.                   *)
Record(j) ==
  /\ At(j, "recording")
  /\ lastBackup' = Cut
  /\ Goto(j, "noting")
  /\ UNCHANGED <<now, live, files>>

Noted(j) ==
  /\ At(j, "noting")
  /\ lastBackup' = IF job[j].ok THEN [ok |-> TRUE, file |-> job[j].name]
                                ELSE [ok |-> FALSE, file |-> Absent]
  /\ Ends(j)
  /\ UNCHANGED <<now, live, files>>

(* Failing to write the note changes nothing about the backup.             *)
NoteFails(j) ==
  /\ "note" \in Faults
  /\ job[j].pc \in {"recording", "noting"}
  /\ Ends(j)
  /\ UNCHANGED <<now, live, files, lastBackup>>

(* The machine stops, or the process is killed.                            *)
Crash(j) ==
  /\ "crash" \in Faults
  /\ ~At(j, "idle")
  /\ Ends(j)
  /\ UNCHANGED <<now, live, files, lastBackup>>

Progress(j) ==
  \/ MakeDirectory(j) \/ PgDump(j) \/ PgDumpExits(j) \/ PgDumpFails(j) \/ Verify(j) \/ Rename(j)
  \/ WriteChecksum(j) \/ List(j) \/ RemoveDump(j) \/ RemoveSidecar(j)
  \/ RemoveFails(j) \/ PruneEnds(j) \/ Throws(j) \/ CleanUp(j)
  \/ Record(j) \/ Noted(j) \/ NoteFails(j)

BackupNext ==
  \E j \in Jobs :
    \/ \E tag \in Tags \cup {NoTag} : Start(j, tag)
    \/ Progress(j)
    \/ Crash(j)

Spec == Init /\ [][BackupNext]_backupVars
===============================================================================
