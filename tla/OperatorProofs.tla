---------------------------- MODULE OperatorProofs -----------------------------
(***************************************************************************)
(* What the operator's tools promise (cli, migrator.ts): backups, restores *)
(* and migrations, for any number of overlapping runs, commits and         *)
(* failures, and any retention.                                            *)
(*                                                                         *)
(* Backups: a file under a finished name is a complete archive.  The       *)
(* rename moves what was verified because two runs never write one partial *)
(* file: a stamp is taken from a clock that only goes forward.             *)
(*                                                                         *)
(* Restores: nothing is destroyed.  The one state a restore takes from its *)
(* place is the live one, and it goes where nothing was: the name it is    *)
(* given was checked to be free.  What is live until pg_restore ends was   *)
(* made by this restore, and is nobody's books.  And what is dropped by    *)
(* name goes only when a whole database is live again.                     *)
(*                                                                         *)
(* Migrations, at the end, are a state machine of their own: the files of  *)
(* a checkout are applied in their order, and a server that is pinned and  *)
(* serves stands on all that some build has up to its pin - on its own     *)
(* files, if builds agree on what is below what they have.                 *)
(***************************************************************************)
EXTENDS RestoreProperties, BackupProperties, Migrate, FiniteSums, TLAPS

------------------------------------------------------------------------------
(* The backup runs alone.                                                  *)

Active(j) == job[j] # Idle

(* What was verified is still there.                                       *)
VerifiedIsWhole == \A j \in Jobs : At(j, "verified") => partial[job[j].name] \in Books

(* A run's stamp is in the past, and its own.                              *)
StampIsOld == \A j \in Jobs : Active(j) => job[j].name.stamp <= now
OneFileEach ==
  \A j, k \in Jobs : Active(j) /\ Active(k) /\ j # k => job[j].name # job[k].name

IInv == TypeOK /\ FinalIsComplete /\ VerifiedIsWhole /\ StampIsOld /\ OneFileEach

LEMMA ActiveShape ==
  ASSUME TypeOK, NEW j \in Jobs, job[j].pc # "idle"
  PROVE  /\ Active(j)
         /\ job[j] \in Running(Steps, Books \cup {Absent})
         /\ job[j].name \in Name
         /\ job[j].name.stamp \in Nat
  BY BackupAssumption DEF TypeOK, Idle, Running, Active, Name, Stamps

LEMMA IdleHasNoStep ==
  ASSUME TypeOK, NEW j \in Jobs, Active(j)
  PROVE  job[j].pc \in Steps
  BY DEF TypeOK, Active, Running

LEMMA InitIInv == Init => IInv
  BY BackupAssumption
     DEF Init, IInv, TypeOK, FinalIsComplete, VerifiedIsWhole, StampIsOld, OneFileEach,
         Active, At, Idle, LastBackup

(* A step of one run that keeps its name, its clock and its partial file   *)
(* unless it is its own, and ends up verified only over a whole file.      *)
LEMMA StepOfOneRun ==
  ASSUME IInv, NEW j \in Jobs, Active(j), NEW record,
         job' = [job EXCEPT ![j] = record],
         \/ record = Idle
         \/ record \in Running(Steps, Books \cup {Absent}) /\ record.name = job[j].name,
         NEW written \in Books \cup {Absent, Cut, Junk},
         \/ partial' = partial
         \/ partial' = [partial EXCEPT ![job[j].name] = written],
         record.pc = "verified" => partial'[job[j].name] \in Books,
         now' = now
  PROVE  /\ job' \in [Jobs -> {Idle} \cup Running(Steps, Books \cup {Absent})]
         /\ partial' \in [Name -> Books \cup {Absent, Cut, Junk}]
         /\ VerifiedIsWhole' /\ StampIsOld' /\ OneFileEach'
  <1>1. /\ job \in [Jobs -> {Idle} \cup Running(Steps, Books \cup {Absent})]
        /\ partial \in [Name -> Books \cup {Absent, Cut, Junk}]
    BY DEF IInv, TypeOK
  <1>2. job[j].name \in Name
    BY <1>1 DEF Active, Running
  <1>3. job' \in [Jobs -> {Idle} \cup Running(Steps, Books \cup {Absent})]
    BY <1>1
  <1>4. partial' \in [Name -> Books \cup {Absent, Cut, Junk}]
    BY <1>1
  <1>5. \A k \in Jobs : job'[k] # Idle => Active(k) /\ job'[k].name = job[k].name
    BY <1>1 DEF Active
  <1>6. \A k \in Jobs : k # j => job'[k] = job[k]
    BY <1>1
  <1>7. \A k \in Jobs : k # j /\ Active(k) => partial'[job[k].name] = partial[job[k].name]
    <2>. SUFFICES ASSUME NEW k \in Jobs, k # j, Active(k)
                  PROVE  partial'[job[k].name] = partial[job[k].name]
      OBVIOUS
    <2>1. job[k].name # job[j].name
      BY DEF IInv, OneFileEach
    <2>2. job[k].name \in Name
      BY <1>1 DEF Active, Running
    <2>. QED  BY <1>1, <2>1, <2>2
  <1>8. StampIsOld' /\ OneFileEach'
    BY <1>5 DEF IInv, StampIsOld, OneFileEach, Active
  <1>9. VerifiedIsWhole'
    <2>. SUFFICES ASSUME NEW k \in Jobs, job'[k].pc = "verified"
                  PROVE  partial'[job'[k].name] \in Books
      BY DEF VerifiedIsWhole, At
    <2>1. CASE k = j
      <3>1. job'[j] = record
        BY <1>1
      <3>2. record # Idle
        BY <2>1, <3>1 DEF Idle
      <3>. QED  BY <2>1, <3>1, <3>2
    <2>2. CASE k # j
      <3>1. job'[k] = job[k] /\ job[k].pc = "verified"
        BY <1>6, <2>2
      <3>2. Active(k)
        BY <3>1 DEF Active, Idle
      <3>3. partial[job[k].name] \in Books
        BY <3>1 DEF IInv, VerifiedIsWhole, At
      <3>. QED  BY <1>7, <2>2, <3>1, <3>2, <3>3
    <2>. QED  BY <2>1, <2>2
  <1>. QED  BY <1>3, <1>4, <1>8, <1>9

LEMMA GotoShape ==
  ASSUME TypeOK, NEW j \in Jobs, Active(j), NEW pc \in Steps, Goto(j, pc)
  PROVE  LET record == [job[j] EXCEPT !.pc = pc]
         IN  /\ job' = [job EXCEPT ![j] = record]
             /\ record \in Running(Steps, Books \cup {Absent})
             /\ record.name = job[j].name /\ record.pc = pc
  BY DEF TypeOK, Active, Goto, Running

(* Only the position of one run changes.                                   *)
LEMMA GotoStep ==
  ASSUME IInv, NEW j \in Jobs, Active(j), NEW pc \in Steps, Goto(j, pc),
         UNCHANGED <<now, live, partial>>,
         final' \in [Name -> Books \cup {Absent}],
         sidecar' \in [Name -> Books \cup {Absent}],
         lastBackup' \in LastBackup \cup {Absent, Cut},
         pc = "verified" => partial[job[j].name] \in Books
  PROVE  IInv'
  <1> DEFINE record == [job[j] EXCEPT !.pc = pc]
  <1>1. TypeOK
    BY DEF IInv
  <1>2. /\ job' = [job EXCEPT ![j] = record]
        /\ record \in Running(Steps, Books \cup {Absent})
        /\ record.name = job[j].name /\ record.pc = pc
    BY <1>1, GotoShape
  <1> HIDE DEF record
  <1>3. /\ job' \in [Jobs -> {Idle} \cup Running(Steps, Books \cup {Absent})]
        /\ partial' \in [Name -> Books \cup {Absent, Cut, Junk}]
        /\ VerifiedIsWhole' /\ StampIsOld' /\ OneFileEach'
    BY <1>2, StepOfOneRun, Absent \in Books \cup {Absent, Cut, Junk}
  <1>4. FinalIsComplete' /\ final' \in [Name -> Books \cup {Absent, Cut, Junk}]
    BY DEF FinalIsComplete
  <1>. QED  BY <1>1, <1>3, <1>4 DEF IInv, TypeOK

(* A run comes to an end, or a machine stops.                              *)
LEMMA EndStep ==
  ASSUME IInv, NEW j \in Jobs, Active(j), Ends(j),
         UNCHANGED <<now, live, files>>,
         lastBackup' \in LastBackup \cup {Absent, Cut}
  PROVE  IInv'
  <1>1. Idle.pc # "verified"
    BY DEF Idle
  <1>2. /\ job' \in [Jobs -> {Idle} \cup Running(Steps, Books \cup {Absent})]
        /\ partial' \in [Name -> Books \cup {Absent, Cut, Junk}]
        /\ VerifiedIsWhole' /\ StampIsOld' /\ OneFileEach'
    BY <1>1, StepOfOneRun, Absent \in Books \cup {Absent, Cut, Junk} DEF Ends, files
  <1>. QED  BY <1>2 DEF IInv, TypeOK, FinalIsComplete, files

(* A run begins with a stamp later than any other.                         *)
LEMMA StartStep ==
  ASSUME IInv, NEW j \in Jobs, NEW tag \in Tags \cup {NoTag}, Start(j, tag)
  PROVE  IInv'
  <1> DEFINE record == [pc |-> "mkdir", name |-> [stamp |-> now', tag |-> tag],
                        content |-> Absent, doomed |-> {}, ok |-> TRUE]
  <1>1. /\ job' = [job EXCEPT ![j] = record]
        /\ now' \in 1..MaxClock /\ now < now' /\ now \in Nat
        /\ UNCHANGED <<live, partial, final, sidecar, lastBackup>>
    BY BackupAssumption DEF Start, IInv, TypeOK, files
  <1>2. record \in Running(Steps, Books \cup {Absent}) /\ record.pc = "mkdir"
        /\ record.name.stamp = now' /\ record # Idle
    BY <1>1 DEF Running, Steps, Name, Stamps, Idle
  <1>3. /\ job \in [Jobs -> {Idle} \cup Running(Steps, Books \cup {Absent})]
        /\ \A k \in Jobs : Active(k) => job[k].name.stamp \in Nat
    BY BackupAssumption DEF IInv, TypeOK, Active, Running, Name, Stamps
  <1> HIDE DEF record
  <1>4. job' \in [Jobs -> {Idle} \cup Running(Steps, Books \cup {Absent})]
    BY <1>1, <1>2, <1>3
  <1>5. job'[j] = record /\ \A k \in Jobs : k # j => job'[k] = job[k]
    BY <1>1, <1>3
  <1>6. StampIsOld'
    BY <1>1, <1>2, <1>3, <1>5 DEF IInv, StampIsOld, Active
  <1>7. OneFileEach'
    <2>1. \A k \in Jobs : Active(k) => job[k].name.stamp < now'
      BY <1>1, <1>3 DEF IInv, StampIsOld
    <2>2. \A k \in Jobs : Active(k) => job[k].name # record.name
      BY <1>1, <1>2, <1>3, <2>1
    <2>. QED  BY <1>2, <1>5, <2>2 DEF IInv, OneFileEach, Active
  <1>8. VerifiedIsWhole'
    BY <1>1, <1>2, <1>5 DEF IInv, VerifiedIsWhole, At
  <1>. QED  BY <1>1, <1>4, <1>6, <1>7, <1>8 DEF IInv, TypeOK, FinalIsComplete

(* What the fold keeps does not matter here: only files listed are chosen. *)
LEMMA PrunedAreListed ==
  ASSUME NEW names
  PROVE  SelectBackupsToPrune(names) \subseteq names
  BY DEF SelectBackupsToPrune

LEMMA StepIInv ==
  ASSUME IInv, [BackupNext]_backupVars
  PROVE  IInv'
  <1>1. CASE UNCHANGED backupVars
    BY <1>1 DEF IInv, TypeOK, FinalIsComplete, VerifiedIsWhole, StampIsOld, OneFileEach,
                Active, At, backupVars, files
  <1>2. ASSUME NEW j \in Jobs, NEW tag \in Tags \cup {NoTag}, Start(j, tag) PROVE IInv'
    BY <1>2, StartStep
  <1>3. ASSUME NEW j \in Jobs, Crash(j) PROVE IInv'
    <2>1. Active(j)
      BY <1>3 DEF Crash, At, Active, Idle
    <2>. QED  BY <1>3, <2>1, EndStep DEF Crash, IInv, TypeOK, files
  <1>4. ASSUME NEW j \in Jobs, Progress(j) PROVE IInv'
    <2>1. Active(j)
      BY <1>4 DEF Progress, MakeDirectory, PgDump, PgDumpExits, PgDumpFails, Verify, Rename,
           WriteChecksum, List, RemoveDump, RemoveSidecar, RemoveFails, PruneEnds, Throws,
           CleanUp, Record, Noted, NoteFails, At, Active, Idle
    <2>2. /\ TypeOK
          /\ job[j] \in Running(Steps, Books \cup {Absent})
          /\ job[j].name \in Name
          /\ final \in [Name -> Books \cup {Absent}]
      BY <2>1 DEF IInv, TypeOK, FinalIsComplete, Active, Running
    <2>3. CASE MakeDirectory(j)
      BY <2>1, <2>2, <2>3, GotoStep, EndStep DEF MakeDirectory, Steps, TypeOK, files
    <2>4. CASE PgDump(j)
      <3> DEFINE record == [job[j] EXCEPT !.pc = "dumping", !.content = live]
      <3>1. live \in Books
        BY <2>2, <2>4 DEF PgDump, TypeOK
      <3>2. /\ job' = [job EXCEPT ![j] = record]
            /\ record \in Running(Steps, Books \cup {Absent})
            /\ record.name = job[j].name /\ record.pc = "dumping"
        BY <2>2, <2>4, <3>1 DEF PgDump, Running, Steps, TypeOK
      <3> HIDE DEF record
      <3>3. /\ job' \in [Jobs -> {Idle} \cup Running(Steps, Books \cup {Absent})]
            /\ partial' \in [Name -> Books \cup {Absent, Cut, Junk}]
            /\ VerifiedIsWhole' /\ StampIsOld' /\ OneFileEach'
        BY <2>1, <2>4, <3>2, StepOfOneRun, Cut \in Books \cup {Absent, Cut, Junk} DEF PgDump
      <3>. QED  BY <2>2, <2>4, <3>3 DEF PgDump, IInv, TypeOK, FinalIsComplete
    <2>5. CASE PgDumpExits(j)
      <3>1. PICK written \in {job[j].content} \cup {Junk} :
              partial' = [partial EXCEPT ![job[j].name] = written]
        BY <2>5 DEF PgDumpExits
      <3>2. written \in Books \cup {Absent, Cut, Junk}
        BY <2>2 DEF Running
      <3> DEFINE record == [job[j] EXCEPT !.pc = "dumped"]
      <3>3. /\ job' = [job EXCEPT ![j] = record]
            /\ record \in Running(Steps, Books \cup {Absent})
            /\ record.name = job[j].name /\ record.pc = "dumped"
        BY <2>1, <2>2, <2>5, GotoShape DEF PgDumpExits, Steps
      <3> HIDE DEF record
      <3>4. /\ job' \in [Jobs -> {Idle} \cup Running(Steps, Books \cup {Absent})]
            /\ partial' \in [Name -> Books \cup {Absent, Cut, Junk}]
            /\ VerifiedIsWhole' /\ StampIsOld' /\ OneFileEach'
        BY <2>1, <2>5, <3>1, <3>2, <3>3, StepOfOneRun DEF PgDumpExits
      <3>. QED  BY <2>2, <2>5, <3>4 DEF PgDumpExits, IInv, TypeOK, FinalIsComplete
    <2>6. CASE PgDumpFails(j)
      BY <2>1, <2>2, <2>6, GotoStep DEF PgDumpFails, Steps, TypeOK, files
    <2>7. CASE Verify(j)
      BY <2>1, <2>2, <2>7, GotoStep DEF Verify, Steps, TypeOK, files
    <2>8. CASE Rename(j)
      <3>1. partial[job[j].name] \in Books
        BY <2>8 DEF Rename, IInv, VerifiedIsWhole
      <3> DEFINE record == [job[j] EXCEPT !.pc = "renamed"]
      <3>2. /\ job' = [job EXCEPT ![j] = record]
            /\ record \in Running(Steps, Books \cup {Absent})
            /\ record.name = job[j].name /\ record.pc = "renamed"
        BY <2>1, <2>2, <2>8, GotoShape DEF Rename, Steps
      <3> HIDE DEF record
      <3>3. /\ job' \in [Jobs -> {Idle} \cup Running(Steps, Books \cup {Absent})]
            /\ partial' \in [Name -> Books \cup {Absent, Cut, Junk}]
            /\ VerifiedIsWhole' /\ StampIsOld' /\ OneFileEach'
        BY <2>1, <2>8, <3>2, StepOfOneRun, Absent \in Books \cup {Absent, Cut, Junk} DEF Rename
      <3>4. final' \in [Name -> Books \cup {Absent}]
        BY <2>2, <2>8, <3>1 DEF Rename
      <3>. QED  BY <2>2, <2>8, <3>3, <3>4 DEF Rename, IInv, TypeOK, FinalIsComplete
    <2>9. CASE WriteChecksum(j)
      <3>1. sidecar' \in [Name -> Books \cup {Absent}]
        BY <2>2, <2>9 DEF WriteChecksum, TypeOK
      <3>. QED  BY <2>1, <2>2, <2>9, <3>1, GotoStep DEF WriteChecksum, Steps, TypeOK
    <2>10. CASE List(j)
      <3> DEFINE listed == {n \in Name : final[n] # Absent}
                 record == [job[j] EXCEPT !.pc = "pruning",
                                          !.doomed = SelectBackupsToPrune(listed)]
      <3>1. SelectBackupsToPrune(listed) \subseteq Name
        BY PrunedAreListed
      <3>2. /\ job' = [job EXCEPT ![j] = record]
            /\ record \in Running(Steps, Books \cup {Absent})
            /\ record.name = job[j].name /\ record.pc = "pruning"
        BY <2>2, <2>10, <3>1 DEF List, Running, Steps, TypeOK
      <3> HIDE DEF record
      <3>3. /\ job' \in [Jobs -> {Idle} \cup Running(Steps, Books \cup {Absent})]
            /\ partial' \in [Name -> Books \cup {Absent, Cut, Junk}]
            /\ VerifiedIsWhole' /\ StampIsOld' /\ OneFileEach'
        BY <2>1, <2>10, <3>2, StepOfOneRun, Absent \in Books \cup {Absent, Cut, Junk}
           DEF List, files
      <3>. QED  BY <2>2, <2>10, <3>3 DEF List, IInv, TypeOK, FinalIsComplete, files
    <2>11. CASE RemoveDump(j)
      <3>1. final' \in [Name -> Books \cup {Absent}]
        BY <2>2, <2>11 DEF RemoveDump
      <3>. QED  BY <2>1, <2>2, <2>11, <3>1, GotoStep DEF RemoveDump, Steps, TypeOK
    <2>12. CASE RemoveSidecar(j) \/ RemoveFails(j)
      <3> DEFINE record == [job[j] EXCEPT !.pc = "pruning", !.doomed = @ \ {NextDoomed(j)}]
      <3>1. /\ job' = [job EXCEPT ![j] = record]
            /\ record \in Running(Steps, Books \cup {Absent})
            /\ record.name = job[j].name /\ record.pc = "pruning"
        BY <2>2, <2>12 DEF RemoveSidecar, RemoveFails, Running, Steps, TypeOK
      <3> HIDE DEF record
      <3>2. /\ sidecar' \in [Name -> Books \cup {Absent}]
            /\ UNCHANGED <<now, live, partial, final, lastBackup>>
        BY <2>2, <2>12 DEF RemoveSidecar, RemoveFails, TypeOK, files
      <3>3. /\ job' \in [Jobs -> {Idle} \cup Running(Steps, Books \cup {Absent})]
            /\ partial' \in [Name -> Books \cup {Absent, Cut, Junk}]
            /\ VerifiedIsWhole' /\ StampIsOld' /\ OneFileEach'
        BY <2>1, <3>1, <3>2, StepOfOneRun, Absent \in Books \cup {Absent, Cut, Junk}
      <3>. QED  BY <2>2, <3>2, <3>3 DEF IInv, TypeOK, FinalIsComplete
    <2>13. CASE PruneEnds(j)
      BY <2>1, <2>2, <2>13, GotoStep DEF PruneEnds, Steps, TypeOK, files
    <2>14. CASE Throws(j)
      BY <2>1, <2>2, <2>14, GotoStep DEF Throws, Steps, TypeOK, files
    <2>15. CASE CleanUp(j)
      <3> DEFINE record == [job[j] EXCEPT !.pc = "recording", !.ok = FALSE]
      <3>1. /\ job' = [job EXCEPT ![j] = record]
            /\ record \in Running(Steps, Books \cup {Absent})
            /\ record.name = job[j].name /\ record.pc = "recording"
        BY <2>2, <2>15 DEF CleanUp, Running, Steps, TypeOK
      <3> HIDE DEF record
      <3>2. /\ job' \in [Jobs -> {Idle} \cup Running(Steps, Books \cup {Absent})]
            /\ partial' \in [Name -> Books \cup {Absent, Cut, Junk}]
            /\ VerifiedIsWhole' /\ StampIsOld' /\ OneFileEach'
        BY <2>1, <2>15, <3>1, StepOfOneRun, Absent \in Books \cup {Absent, Cut, Junk}
           DEF CleanUp
      <3>. QED  BY <2>2, <2>15, <3>2 DEF CleanUp, IInv, TypeOK, FinalIsComplete
    <2>16. CASE Record(j)
      BY <2>1, <2>2, <2>16, GotoStep DEF Record, Steps, TypeOK, files
    <2>17. CASE Noted(j)
      <3>1. lastBackup' \in LastBackup
        BY <2>2, <2>17 DEF Noted, LastBackup
      <3>. QED  BY <2>1, <2>17, <3>1, EndStep DEF Noted, files
    <2>18. CASE NoteFails(j)
      BY <2>1, <2>2, <2>18, EndStep DEF NoteFails, TypeOK, files
    <2>. QED  BY <1>4, <2>3, <2>4, <2>5, <2>6, <2>7, <2>8, <2>9, <2>10, <2>11, <2>12, <2>13,
                 <2>14, <2>15, <2>16, <2>17, <2>18 DEF Progress
  <1>. QED  BY <1>1, <1>2, <1>3, <1>4 DEF BackupNext

(* The inductive invariant of the backup runs.                             *)
THEOREM Inductive == Spec => []IInv
  BY InitIInv, StepIInv, PTL DEF Spec

(* backup.ts 28-31: whatever stops and wherever, and whatever else runs, a *)
(* file with a finished name is a complete archive that was checked.       *)
THEOREM FinishedIsComplete == Spec => []FinalIsComplete
  <1>1. IInv => FinalIsComplete
    BY DEF IInv
  <1>. QED  BY <1>1, Inductive, PTL

(* Every variable keeps its type.                                          *)
THEOREM TypeCorrect == Spec => []TypeOK
  <1>1. IInv => TypeOK
    BY DEF IInv
  <1>. QED  BY <1>1, Inductive, PTL

------------------------------------------------------------------------------
(* Retention: what pruning removes, said without the loop.                 *)

dayOf  == [n \in Name |-> Day(n)]
weekOf == [n \in Name |-> Week(n)]

Buckets(B, names) == {B[n] : n \in Untagged(names)}
Newer(n, names)   == {m \in Untagged(names) : m.stamp > n.stamp}

FirstOfBucket(B, keep, n, names) ==
  LET buckets == {B[m] : m \in Newer(n, names)}
  IN  B[n] \notin buckets /\ Cardinality(buckets \cup {B[n]}) <= keep

Kept(names) ==
  {n \in names : \/ n.tag # NoTag
                 \/ FirstOfBucket(dayOf, KeepDaily, n, names)
                 \/ FirstOfBucket(weekOf, KeepWeekly, n, names)}

Seen(names) == [keep  |-> Kept(names),
                days  |-> Buckets(dayOf, names),
                weeks |-> Buckets(weekOf, names)]

(* Days and weeks follow one another as the stamps do.                     *)
FollowsTheClock(B) ==
  \A m, n \in Name : B[n] \in Nat /\ (m.stamp <= n.stamp => B[m] <= B[n])

LEMMA DivisionIsMonotone ==
  ASSUME NEW a \in Nat, NEW b \in Nat, NEW k \in Nat \ {0}, a <= b
  PROVE  a \div k \in Nat /\ b \div k \in Nat /\ a \div k <= b \div k
  OBVIOUS

LEMMA StampsAreNat == \A n \in Name : n.stamp \in Nat /\ n.stamp \in Stamps /\ n.tag \in Tags \cup {NoTag}
  BY BackupAssumption DEF Name, Stamps

LEMMA DaysAndWeeks == FollowsTheClock(dayOf) /\ FollowsTheClock(weekOf)
  <1>1. \A m, n \in Name : Day(n) \in Nat /\ (m.stamp <= n.stamp => Day(m) <= Day(n))
    BY StampsAreNat, BackupAssumption, DivisionIsMonotone DEF Day
  <1>2. \A m, n \in Name : Week(n) \in Nat /\ (m.stamp <= n.stamp => Week(m) <= Week(n))
    BY <1>1, BackupAssumption, DivisionIsMonotone DEF Week
  <1>. QED  BY <1>1, <1>2 DEF FollowsTheClock, dayOf, weekOf

LEMMA NamesAreFinite == IsFiniteSet(Name)
  <1> DEFINE tags == Tags \cup {NoTag}
             name == [p \in Stamps \X tags |-> [stamp |-> p[1], tag |-> p[2]]]
  <1>1. IsFiniteSet(Stamps) /\ IsFiniteSet(tags)
    <2>1. IsFiniteSet(1..MaxClock)
      BY BackupAssumption, FS_Interval, SMT
    <2>2. IsFiniteSet(tags)
      BY BackupAssumption, FS_AddElement, Zenon
    <2>. QED  BY <2>1, <2>2 DEF Stamps
  <1>2. IsFiniteSet(Stamps \X tags)
    BY <1>1, FS_Product
  <1>3. name \in Surjection(Stamps \X tags, Name)
    <2>1. name \in [Stamps \X tags -> Name]
      BY DEF Name
    <2>2. \A n \in Name : \E p \in Stamps \X tags : name[p] = n
      <3> SUFFICES ASSUME NEW n \in Name PROVE \E p \in Stamps \X tags : name[p] = n
        OBVIOUS
      <3>1. <<n.stamp, n.tag>> \in Stamps \X tags
        BY DEF Name
      <3>2. name[<<n.stamp, n.tag>>] = n
        BY <3>1 DEF Name
      <3>. QED  BY <3>1, <3>2
    <2>. QED  BY <2>1, <2>2 DEF Surjection
  <1>. QED  BY <1>2, <1>3, FS_Surjection

LEMMA BucketsAreFinite ==
  ASSUME NEW B, NEW names \in SUBSET Name
  PROVE  IsFiniteSet({B[n] : n \in names})
  <1> DEFINE f == [n \in names |-> B[n]]
  <1>1. f \in Surjection(names, {B[n] : n \in names})
    BY DEF Surjection
  <1>. QED  BY <1>1, NamesAreFinite, FS_Subset, FS_Surjection

LEMMA OldestIsOldest ==
  ASSUME NEW names \in SUBSET Name, names # {}
  PROVE  Oldest(names) \in names /\ \A m \in names : Oldest(names).stamp <= m.stamp
  <1> DEFINE f == [n \in names |-> n.stamp]
  <1>1. \A n \in names : f[n] \in Int
    BY StampsAreNat
  <1>2. IsFiniteSet(names)
    BY NamesAreFinite, FS_Subset
  <1>3. \E x \in names : \A y \in names : f[x] <= f[y]
    <2> HIDE DEF f
    <2>. QED  BY <1>1, <1>2, LeastElement
  <1>. QED  BY <1>3 DEF Oldest

LEMMA NewestIsNewest ==
  ASSUME NEW names \in SUBSET Name, names # {}
  PROVE  Newest(names) \in names /\ \A m \in names : m.stamp <= Newest(names).stamp
  <1> DEFINE f == [n \in names |-> 0 - n.stamp]
  <1>1. \A n \in names : f[n] \in Int /\ n.stamp \in Int
    BY StampsAreNat
  <1>2. IsFiniteSet(names)
    BY NamesAreFinite, FS_Subset
  <1>3. \E x \in names : \A y \in names : f[x] <= f[y]
    <2> HIDE DEF f
    <2>. QED  BY <1>1, <1>2, LeastElement
  <1>4. \E x \in names : \A y \in names : y.stamp <= x.stamp
    BY <1>1, <1>3
  <1>. QED  BY <1>4 DEF Newest

(* What the loop has seen grows by one name at a time.                     *)
LEMMA SeenGrows ==
  ASSUME NEW names \in SUBSET Name, names # {}
  PROVE  Seen(names) = Consider(Oldest(names), Seen(names \ {Oldest(names)}))
  <1> DEFINE x == Oldest(names)
             rest == names \ {x}
  <1>1. x \in names /\ \A m \in names : x.stamp <= m.stamp
    BY OldestIsOldest
  <1>2. \A m \in names : m.stamp \in Nat /\ m.stamp \in Stamps /\ m \in Name
    BY StampsAreNat
  <1> HIDE DEF x
  <1>3. \A m \in rest : Newer(m, names) = Newer(m, rest)
    BY <1>1, <1>2 DEF Newer, Untagged
  <1>4. \A m \in rest : \A B, keep :
          FirstOfBucket(B, keep, m, names) = FirstOfBucket(B, keep, m, rest)
    BY <1>3 DEF FirstOfBucket
  <1>5. Kept(rest) = Kept(names) \ {x}
    BY <1>4 DEF Kept
  <1>6. CASE x.tag # NoTag
    <2>1. Untagged(names) = Untagged(rest)
      BY <1>6 DEF Untagged
    <2>2. Kept(names) = Kept(rest) \cup {x}
      BY <1>1, <1>5, <1>6 DEF Kept
    <2>. QED  BY <1>6, <2>1, <2>2 DEF Seen, Consider, Buckets, x
  <1>7. CASE x.tag = NoTag
    <2>1. Untagged(names) = Untagged(rest) \cup {x}
      BY <1>1, <1>7 DEF Untagged
    <2>2. \A m \in Untagged(rest) : m.stamp # x.stamp
      BY <1>1, <1>2, <1>7 DEF Untagged, Name
    <2>3. Newer(x, names) = Untagged(rest)
      BY <1>1, <1>2, <2>1, <2>2 DEF Newer, Untagged
    <2>4. /\ Buckets(dayOf, names) = Buckets(dayOf, rest) \cup {Day(x)}
          /\ Buckets(weekOf, names) = Buckets(weekOf, rest) \cup {Week(x)}
          /\ dayOf[x] = Day(x) /\ weekOf[x] = Week(x)
      BY <1>1, <1>2, <2>1 DEF Buckets, dayOf, weekOf
    <2>5. /\ {dayOf[m] : m \in Newer(x, names)} = Buckets(dayOf, rest)
          /\ {weekOf[m] : m \in Newer(x, names)} = Buckets(weekOf, rest)
      BY <2>3 DEF Buckets
    <2> DEFINE first ==
          \/ /\ Day(x) \notin Buckets(dayOf, rest)
             /\ Cardinality(Buckets(dayOf, rest) \cup {Day(x)}) <= KeepDaily
          \/ /\ Week(x) \notin Buckets(weekOf, rest)
             /\ Cardinality(Buckets(weekOf, rest) \cup {Week(x)}) <= KeepWeekly
    <2>6. x \in Kept(names) <=> first
      BY <1>1, <1>7, <2>4, <2>5 DEF Kept, FirstOfBucket
    <2>7. Kept(names) = IF first THEN Kept(rest) \cup {x} ELSE Kept(rest)
      BY <1>5, <2>6
    <2>8. Consider(x, Seen(rest)) =
            [keep  |-> IF first THEN Kept(rest) \cup {x} ELSE Kept(rest),
             days  |-> Buckets(dayOf, rest) \cup {Day(x)},
             weeks |-> Buckets(weekOf, rest) \cup {Week(x)}]
      BY <1>7 DEF Consider, Seen
    <2> HIDE DEF first
    <2>. QED  BY <2>4, <2>7, <2>8 DEF Seen, x
  <1>. QED  BY <1>6, <1>7

IsLoop(g, names) ==
  g = [s \in SUBSET names |->
         IF s = {} THEN [keep |-> {}, days |-> {}, weeks |-> {}]
         ELSE Consider(Oldest(s), g[s \ {Oldest(s)}])]

LEMMA PruneIsChosen ==
  ASSUME NEW names
  PROVE  SelectBackupsToPrune(names) = names \ (CHOOSE g : IsLoop(g, names))[names].keep
  BY DEF SelectBackupsToPrune, MapThenFoldSet, IsLoop

LEMMA SeenOfNothing == Seen({}) = [keep |-> {}, days |-> {}, weeks |-> {}]
  BY DEF Seen, Kept, Buckets, Untagged

LEMMA LoopSees ==
  ASSUME NEW names \in SUBSET Name, NEW g, IsLoop(g, names)
  PROVE  g[names] = Seen(names)
  <1> DEFINE Bad == {t \in SUBSET names : g[t] # Seen(t)}
  <1> SUFFICES ASSUME Bad # {} PROVE FALSE
    OBVIOUS
  <1>1. PICK t \in Bad : \A u \in Bad : ~(u \subseteq t /\ u # t)
    <2>1. Bad \in SUBSET SUBSET names /\ IsFiniteSet(names)
      BY NamesAreFinite, FS_Subset
    <2> HIDE DEF Bad
    <2>. QED  BY <2>1, LeastSubset
  <1> DEFINE x == Oldest(t)
  <1>2. g[t] = IF t = {} THEN [keep |-> {}, days |-> {}, weeks |-> {}]
               ELSE Consider(x, g[t \ {x}])
    BY DEF IsLoop
  <1>3. t # {}
    BY <1>1, <1>2, SeenOfNothing
  <1>4. x \in t
    BY <1>3, OldestIsOldest
  <1>5. g[t \ {x}] = Seen(t \ {x})
    BY <1>1, <1>4
  <1>. QED  BY <1>1, <1>2, <1>3, <1>5, SeenGrows

LEMMA LoopExists ==
  ASSUME NEW names \in SUBSET Name
  PROVE  IsLoop([s \in SUBSET names |-> Seen(s)], names)
  <1>1. \A s \in SUBSET names : s # {} => Oldest(s) \in s
    BY OldestIsOldest
  <1>2. \A s \in SUBSET names :
          Seen(s) = IF s = {} THEN [keep |-> {}, days |-> {}, weeks |-> {}]
                    ELSE Consider(Oldest(s), Seen(s \ {Oldest(s)}))
    BY SeenGrows, SeenOfNothing
  <1> DEFINE g == [s \in SUBSET names |-> Seen(s)]
  <1>3. \A s \in SUBSET names : s # {} => g[s \ {Oldest(s)}] = Seen(s \ {Oldest(s)})
    BY <1>1
  <1>4. g = [s \in SUBSET names |->
              IF s = {} THEN [keep |-> {}, days |-> {}, weeks |-> {}]
              ELSE Consider(Oldest(s), g[s \ {Oldest(s)}])]
    BY <1>2, <1>3
  <1> HIDE DEF g
  <1>5. IsLoop(g, names)
    BY <1>4 DEF IsLoop
  <1>. QED  BY <1>5 DEF g

(* selectBackupsToPrune leaves exactly: what is tagged, and the newest     *)
(* untagged file of each of the most recent days and weeks.                *)
THEOREM PruningLeaves ==
  ASSUME NEW names \in SUBSET Name
  PROVE  SelectBackupsToPrune(names) = names \ Kept(names)
  <1> DEFINE g == CHOOSE h : IsLoop(h, names)
  <1>1. IsLoop(g, names)
    BY LoopExists
  <1>2. SelectBackupsToPrune(names) = names \ g[names].keep
    BY PruneIsChosen
  <1> HIDE DEF g
  <1>3. g[names] = Seen(names)
    BY <1>1, LoopSees
  <1>. QED  BY <1>2, <1>3 DEF Seen

------------------------------------------------------------------------------
(* Overlapping prunes.  A file is superseded, among those present, when a  *)
(* newer one stands for its day, or enough later days have one; and so for *)
(* its week.  What a run has decided to remove was superseded when it      *)
(* listed the directory.                                                   *)

Superseded(B, keep, d, names) ==
  \/ \E w \in Untagged(names) : B[w] = B[d] /\ w.stamp > d.stamp
  \/ Cardinality({b \in Buckets(B, names) : b > B[d]}) >= keep

Replaceable(d, names) ==
  /\ d.tag = NoTag
  /\ Superseded(dayOf, KeepDaily, d, names)
  /\ Superseded(weekOf, KeepWeekly, d, names)

LEMMA BucketFacts ==
  ASSUME NEW B, FollowsTheClock(B), NEW names \in SUBSET Name, NEW d \in Name
  PROVE  /\ Buckets(B, names) \subseteq Nat /\ B[d] \in Nat
         /\ IsFiniteSet({b \in Buckets(B, names) : b > B[d]})
         /\ Cardinality({b \in Buckets(B, names) : b > B[d]}) \in Nat
  <1>1. Untagged(names) \in SUBSET Name
    BY DEF Untagged
  <1>2. IsFiniteSet(Buckets(B, names))
    BY <1>1, BucketsAreFinite DEF Buckets
  <1>3. IsFiniteSet({b \in Buckets(B, names) : b > B[d]})
    BY <1>2, FS_Subset
  <1>. QED  BY <1>1, <1>3, FS_CardinalityType DEF Buckets, FollowsTheClock

(* What a listing decides to remove is superseded in it.                   *)
LEMMA NotFirstIsSuperseded ==
  ASSUME NEW B, FollowsTheClock(B), NEW keep \in Nat, NEW names \in SUBSET Name,
         NEW d \in names, ~FirstOfBucket(B, keep, d, names)
  PROVE  Superseded(B, keep, d, names)
  <1> DEFINE buckets == {B[m] : m \in Newer(d, names)}
             above == {b \in Buckets(B, names) : b > B[d]}
  <1> SUFFICES ASSUME ~\E w \in Untagged(names) : B[w] = B[d] /\ w.stamp > d.stamp
               PROVE  Cardinality(above) >= keep
    BY DEF Superseded
  <1>1. B[d] \notin buckets
    BY DEF Newer
  <1>2. Newer(d, names) \in SUBSET Name
    BY DEF Newer, Untagged
  <1>3. buckets \subseteq above
    <2> SUFFICES ASSUME NEW m \in Newer(d, names) PROVE B[m] \in above
      OBVIOUS
    <2>1. m \in Untagged(names) /\ m.stamp > d.stamp /\ m \in Name /\ d \in Name
      BY DEF Newer, Untagged
    <2>2. B[d] <= B[m] /\ B[m] # B[d] /\ B[m] \in Nat /\ B[d] \in Nat
      BY <2>1, StampsAreNat DEF FollowsTheClock
    <2>. QED  BY <2>1, <2>2 DEF Buckets
  <1>4. IsFiniteSet(buckets) /\ Cardinality(buckets) \in Nat
    BY <1>2, BucketsAreFinite, FS_CardinalityType
  <1>5. Cardinality(buckets \cup {B[d]}) = Cardinality(buckets) + 1
    BY <1>1, <1>4, FS_AddElement
  <1>6. ~(Cardinality(buckets \cup {B[d]}) <= keep)
    BY <1>1 DEF FirstOfBucket
  <1>7. IsFiniteSet(above) /\ Cardinality(above) \in Nat
    BY BucketFacts
  <1>8. Cardinality(buckets) <= Cardinality(above)
    BY <1>3, <1>7, FS_Subset
  <1>. QED  BY <1>4, <1>5, <1>6, <1>7, <1>8

LEMMA PrunedIsReplaceable ==
  ASSUME NEW names \in SUBSET Name, NEW d \in SelectBackupsToPrune(names)
  PROVE  d \in names /\ Replaceable(d, names)
  <1>1. d \in names /\ d \notin Kept(names)
    BY PruningLeaves
  <1>2. /\ d.tag = NoTag
        /\ ~FirstOfBucket(dayOf, KeepDaily, d, names)
        /\ ~FirstOfBucket(weekOf, KeepWeekly, d, names)
    BY <1>1 DEF Kept
  <1>3. KeepDaily \in Nat /\ KeepWeekly \in Nat
    BY BackupAssumption
  <1>. QED  BY <1>1, <1>2, <1>3, NotFirstIsSuperseded, DaysAndWeeks DEF Replaceable

(* A new file takes nothing from it.                                       *)
LEMMA SupersededAmongMore ==
  ASSUME NEW B, FollowsTheClock(B), NEW keep \in Nat, NEW names \in SUBSET Name,
         NEW more \in SUBSET Name, names \subseteq more, NEW d \in Name,
         Superseded(B, keep, d, names)
  PROVE  Superseded(B, keep, d, more)
  <1> DEFINE above(S) == {b \in Buckets(B, S) : b > B[d]}
  <1>1. Untagged(names) \subseteq Untagged(more)
    BY DEF Untagged
  <1>2. above(names) \subseteq above(more)
    BY <1>1 DEF Buckets
  <1>3. /\ IsFiniteSet(above(more)) /\ Cardinality(above(more)) \in Nat
        /\ Cardinality(above(names)) \in Nat
    BY BucketFacts
  <1>4. Cardinality(above(names)) <= Cardinality(above(more))
    <2> HIDE DEF above
    <2>. QED  BY <1>2, <1>3, FS_Subset
  <1>5. CASE Cardinality(above(names)) >= keep
    <2>1. Cardinality(above(more)) >= keep
      <3> HIDE DEF above
      <3>. QED  BY <1>3, <1>4, <1>5
    <2>. QED  BY <2>1 DEF Superseded
  <1>. QED  BY <1>1, <1>5 DEF Superseded

(* Nor does the removal of a file that is itself superseded: what stands   *)
(* for the one stands for the other.                                       *)
LEMMA SupersededAmongLess ==
  ASSUME NEW B, FollowsTheClock(B), NEW keep \in Nat, NEW names \in SUBSET Name,
         NEW d \in Name, Superseded(B, keep, d, names),
         NEW x \in Name, Superseded(B, keep, x, names)
  PROVE  Superseded(B, keep, d, names \ {x})
  <1> DEFINE left == names \ {x}
             above(n, S) == {b \in Buckets(B, S) : b > B[n]}
  <1>1. left \in SUBSET Name /\ Untagged(left) = Untagged(names) \ {x}
    BY DEF Untagged
  <1>2. /\ B[d] \in Nat /\ B[x] \in Nat /\ Buckets(B, names) \subseteq Nat
        /\ d.stamp \in Nat /\ x.stamp \in Nat
        /\ \A n \in Untagged(names) : n.stamp \in Nat
    BY BucketFacts, StampsAreNat DEF Untagged
  <1> DEFINE other(n) == \A v \in Untagged(names) : B[v] > B[n] => v # x
  <1>3. ASSUME NEW n \in Name, other(n) PROVE above(n, left) = above(n, names)
    <2>1. above(n, left) \subseteq above(n, names)
      BY <1>1 DEF Buckets
    <2>2. ASSUME NEW b \in above(n, names) PROVE b \in above(n, left)
      <3>1. PICK v \in Untagged(names) : b = B[v] /\ B[v] > B[n]
        BY <2>2 DEF Buckets
      <3>2. v \in Untagged(left)
        BY <1>1, <1>3, <3>1
      <3>. QED  BY <3>1, <3>2 DEF Buckets
    <2>. QED  BY <2>1, <2>2
  <1>4. CASE \E w \in Untagged(names) : B[w] = B[x] /\ w.stamp > x.stamp
    <2>1. PICK w \in Untagged(names) : B[w] = B[x] /\ w.stamp > x.stamp
      BY <1>4
    <2>2. w \in Untagged(left)
      <3>1. w # x
        BY <1>2, <2>1
      <3>. QED  BY <1>1, <2>1, <3>1
    <2>3. Buckets(B, left) = Buckets(B, names)
      BY <1>1, <2>1, <2>2 DEF Buckets
    <2>4. CASE Cardinality(above(d, names)) >= keep
      BY <2>3, <2>4 DEF Superseded
    <2>5. CASE \E v \in Untagged(names) : B[v] = B[d] /\ v.stamp > d.stamp
      <3>1. PICK v \in Untagged(names) : B[v] = B[d] /\ v.stamp > d.stamp
        BY <2>5
      <3>2. CASE v # x
        BY <1>1, <3>1, <3>2 DEF Superseded
      <3>3. CASE v = x
        <4>1. B[w] = B[d] /\ w.stamp > d.stamp
          BY <1>2, <2>1, <3>1, <3>3
        <4>. QED  BY <2>2, <4>1 DEF Superseded
      <3>. QED  BY <3>2, <3>3
    <2>. QED  BY <2>4, <2>5 DEF Superseded
  <1>5. CASE Cardinality(above(x, names)) >= keep
    <2>1. above(x, left) = above(x, names)
      <3>1. other(x)
        BY <1>2
      <3> HIDE DEF above, other
      <3>. QED  BY <1>3, <3>1
    <2>2. ASSUME B[d] <= B[x] PROVE Superseded(B, keep, d, left)
      <3>1. above(x, left) \subseteq above(d, left)
        BY <1>1, <1>2, <2>2 DEF Buckets
      <3>2. /\ IsFiniteSet(above(d, left)) /\ Cardinality(above(d, left)) \in Nat
            /\ Cardinality(above(x, left)) \in Nat
        <4> HIDE DEF left
        <4>1. \A n \in Name : IsFiniteSet(above(n, left)) /\ Cardinality(above(n, left)) \in Nat
          BY <1>1, BucketFacts
        <4>. QED  BY <4>1
      <3>3. Cardinality(above(x, left)) <= Cardinality(above(d, left))
        <4> HIDE DEF above, left
        <4>. QED  BY <3>1, <3>2, FS_Subset
      <3>4. Cardinality(above(d, left)) >= keep
        <4>1. Cardinality(above(x, left)) >= keep
          BY <1>5, <2>1
        <4> HIDE DEF above, left
        <4>. QED  BY <3>2, <3>3, <4>1
      <3>. QED  BY <3>4 DEF Superseded
    <2>3. ASSUME B[d] > B[x] PROVE Superseded(B, keep, d, left)
      <3>1. above(d, left) = above(d, names)
        <4>1. ASSUME NEW v \in Untagged(names), B[v] > B[d] PROVE v # x
          BY <1>2, <2>3, <4>1
        <4>2. other(d)
          BY <4>1
        <4> HIDE DEF above, other
        <4>. QED  BY <1>3, <4>2
      <3>2. \A v \in Untagged(names) : B[v] = B[d] => v # x
        BY <1>2, <2>3
      <3>. QED  BY <1>1, <3>1, <3>2 DEF Superseded
    <2>. QED  BY <1>2, <2>2, <2>3
  <1>. QED  BY <1>4, <1>5 DEF Superseded

LEMMA StillReplaceable ==
  ASSUME NEW names \in SUBSET Name, NEW d \in Name, Replaceable(d, names)
  PROVE  /\ \A more \in SUBSET Name : names \subseteq more => Replaceable(d, more)
         /\ \A x \in Name : Replaceable(x, names) => Replaceable(d, names \ {x})
  <1>1. KeepDaily \in Nat /\ KeepWeekly \in Nat
    BY BackupAssumption
  <1>2. ASSUME NEW more \in SUBSET Name, names \subseteq more PROVE Replaceable(d, more)
    BY <1>1, <1>2, SupersededAmongMore, DaysAndWeeks DEF Replaceable
  <1>3. ASSUME NEW x \in Name, Replaceable(x, names) PROVE Replaceable(d, names \ {x})
    BY <1>1, <1>3, SupersededAmongLess, DaysAndWeeks DEF Replaceable
  <1>. QED  BY <1>2, <1>3

(* Something newer is there: at least one day is kept.                     *)
LEMMA ReplaceableIsOld ==
  ASSUME NEW names \in SUBSET Name, NEW d \in Name, Replaceable(d, names)
  PROVE  \E w \in names : w.stamp > d.stamp
  <1> DEFINE above == {b \in Buckets(dayOf, names) : b > dayOf[d]}
  <1>1. Superseded(dayOf, KeepDaily, d, names) /\ FollowsTheClock(dayOf)
    BY DaysAndWeeks DEF Replaceable
  <1>2. CASE \E w \in Untagged(names) : dayOf[w] = dayOf[d] /\ w.stamp > d.stamp
    BY <1>2 DEF Untagged
  <1>3. CASE Cardinality(above) >= KeepDaily
    <2>1. Cardinality(above) # 0
      BY <1>3, BackupAssumption
    <2>2. above # {}
      <3> HIDE DEF above
      <3>. QED  BY <2>1, FS_EmptySet
    <2>3. PICK w \in Untagged(names) : dayOf[w] > dayOf[d]
      BY <2>2 DEF Buckets
    <2>4. w \in names /\ w \in Name /\ dayOf[w] \in Nat /\ dayOf[d] \in Nat
          /\ w.stamp \in Nat /\ d.stamp \in Nat
          /\ (w.stamp <= d.stamp => dayOf[w] <= dayOf[d])
      BY <1>1, StampsAreNat DEF Untagged, FollowsTheClock
    <2>. QED  BY <2>3, <2>4
  <1>. QED  BY <1>1, <1>2, <1>3 DEF Superseded

(* A day, or a week, that counts still has its file.                       *)
LEMMA BucketIsKept ==
  ASSUME NEW B, FollowsTheClock(B), NEW keep \in Nat, NEW names \in SUBSET Name,
         NEW x \in Name, Superseded(B, keep, x, names),
         NEW b \in Untagged(names), B[b] \in Recent(Buckets(B, names), keep)
  PROVE  \E c \in Untagged(names \ {x}) : B[c] = B[b]
  <1>1. Untagged(names \ {x}) = Untagged(names) \ {x}
    BY DEF Untagged
  <1>2. CASE b # x
    BY <1>1, <1>2
  <1>3. CASE b = x
    <2>1. Cardinality({c \in Buckets(B, names) : c > B[x]}) < keep
      BY <1>3 DEF Recent
    <2>2. Cardinality({c \in Buckets(B, names) : c > B[x]}) \in Nat
      BY BucketFacts
    <2>3. ~(Cardinality({c \in Buckets(B, names) : c > B[x]}) >= keep)
      BY <2>1, <2>2
    <2>4. PICK w \in Untagged(names) : B[w] = B[x] /\ w.stamp > x.stamp
      BY <2>3 DEF Superseded
    <2>5. w # x
      BY <2>4, StampsAreNat DEF Untagged
    <2>. QED  BY <1>1, <1>3, <2>4, <2>5
  <1>. QED  BY <1>2, <1>3


------------------------------------------------------------------------------
(* So a prune takes nothing that counts, whatever else runs meanwhile.     *)

DoomedAreReplaceable ==
  \A j \in Jobs : Active(j) => \A d \in job[j].doomed : Replaceable(d, Present)

(* A run that has renamed its file, and has not failed since, has made a   *)
(* backup; so has the one the record names.                                *)
Claims(run) == \/ run.pc \in {"renamed", "listing", "pruning", "unlinking"}
               \/ run.pc \in {"recording", "noting"} /\ run.ok
BackedUp(n) == \E m \in Present : m.stamp >= n.stamp

ClaimsAreTrue   == \A j \in Jobs : Claims(job[j]) => BackedUp(job[j].name)
RecordIsBacked  == lastBackup \in [ok : {TRUE}, file : Name] => BackedUp(lastBackup.file)

KeepInv == DoomedAreReplaceable /\ ClaimsAreTrue /\ RecordIsBacked

LEMMA PresentIsNames == Present \in SUBSET Name
  BY DEF Present

LEMMA RecentBuckets ==
  ASSUME NEW names \in SUBSET Name
  PROVE  /\ RecentDays(names) = Recent(Buckets(dayOf, names), KeepDaily)
         /\ RecentWeeks(names) = Recent(Buckets(weekOf, names), KeepWeekly)
  <1>1. \A n \in Untagged(names) : dayOf[n] = Day(n) /\ weekOf[n] = Week(n)
    BY DEF Untagged, dayOf, weekOf
  <1>2. /\ {Day(n) : n \in Untagged(names)} = Buckets(dayOf, names)
        /\ {Week(n) : n \in Untagged(names)} = Buckets(weekOf, names)
    BY <1>1 DEF Buckets
  <1>. QED  BY <1>2 DEF RecentDays, RecentWeeks

(* The directory gains a file, or loses one that could be spared.          *)
LEMMA DirectoryStep ==
  ASSUME \/ Present \subseteq Present'
         \/ \E x \in Name : Replaceable(x, Present) /\ Present' = Present \ {x},
         Present' \in SUBSET Name
  PROVE  /\ \A d \in Name : Replaceable(d, Present) => Replaceable(d, Present')
         /\ \A n \in Name : BackedUp(n) => \E m \in Present' : m.stamp >= n.stamp
         /\ KeepsCoverage
  <1>1. CASE Present \subseteq Present'
    <2>1. \A d \in Name : Replaceable(d, Present) => Replaceable(d, Present')
      BY <1>1, PresentIsNames, StillReplaceable
    <2>2. KeepsCoverage
      BY <1>1 DEF KeepsCoverage, Untagged
    <2>. QED  BY <1>1, <2>1, <2>2 DEF BackedUp
  <1>2. CASE \E x \in Name : Replaceable(x, Present) /\ Present' = Present \ {x}
    <2>1. PICK x \in Name : Replaceable(x, Present) /\ Present' = Present \ {x}
      BY <1>2
    <2>2. \A d \in Name : Replaceable(d, Present) => Replaceable(d, Present')
      BY <2>1, PresentIsNames, StillReplaceable
    <2>3. ASSUME NEW n \in Name, BackedUp(n) PROVE \E m \in Present' : m.stamp >= n.stamp
      <3>1. PICK m \in Present : m.stamp >= n.stamp
        BY <2>3 DEF BackedUp
      <3>2. CASE m # x
        BY <2>1, <3>1, <3>2
      <3>3. CASE m = x
        <4>1. PICK w \in Present : w.stamp > x.stamp
          BY <2>1, PresentIsNames, ReplaceableIsOld
        <4>2. w # x /\ w.stamp >= n.stamp
          BY <2>3, <3>1, <3>3, <4>1, PresentIsNames, StampsAreNat
        <4>. QED  BY <2>1, <4>1, <4>2
      <3>. QED  BY <3>2, <3>3
    <2>4. KeepsCoverage
      <3>1. /\ Superseded(dayOf, KeepDaily, x, Present)
            /\ Superseded(weekOf, KeepWeekly, x, Present)
            /\ x.tag = NoTag
        BY <2>1 DEF Replaceable
      <3>2. KeepDaily \in Nat /\ KeepWeekly \in Nat
        BY BackupAssumption
      <3>3. \A b \in Untagged(Present) :
              /\ dayOf[b] \in Recent(Buckets(dayOf, Present), KeepDaily)
                   => \E c \in Untagged(Present \ {x}) : dayOf[c] = dayOf[b]
              /\ weekOf[b] \in Recent(Buckets(weekOf, Present), KeepWeekly)
                   => \E c \in Untagged(Present \ {x}) : weekOf[c] = weekOf[b]
        BY <3>1, <3>2, PresentIsNames, BucketIsKept, DaysAndWeeks
      <3>4. \A n \in Untagged(Present) : dayOf[n] = Day(n) /\ weekOf[n] = Week(n)
        BY PresentIsNames DEF Untagged, dayOf, weekOf
      <3>5. Untagged(Present \ {x}) \subseteq Untagged(Present)
        BY DEF Untagged
      <3>6. Present \ Untagged(Present) \subseteq Present \ {x}
        BY <3>1 DEF Untagged
      <3>7. \A b \in Untagged(Present) :
              /\ Day(b) \in RecentDays(Present)
                   => \E c \in Untagged(Present \ {x}) : Day(c) = Day(b)
              /\ Week(b) \in RecentWeeks(Present)
                   => \E c \in Untagged(Present \ {x}) : Week(c) = Week(b)
        <4>1. /\ RecentDays(Present) = Recent(Buckets(dayOf, Present), KeepDaily)
              /\ RecentWeeks(Present) = Recent(Buckets(weekOf, Present), KeepWeekly)
          BY PresentIsNames, RecentBuckets
        <4>2. ASSUME NEW b \in Untagged(Present), Day(b) \in RecentDays(Present)
              PROVE  \E c \in Untagged(Present \ {x}) : Day(c) = Day(b)
          <5>1. PICK c \in Untagged(Present \ {x}) : dayOf[c] = dayOf[b]
            BY <3>3, <3>4, <4>1, <4>2
          <5>. QED  BY <3>4, <3>5, <5>1
        <4>3. ASSUME NEW b \in Untagged(Present), Week(b) \in RecentWeeks(Present)
              PROVE  \E c \in Untagged(Present \ {x}) : Week(c) = Week(b)
          <5>1. PICK c \in Untagged(Present \ {x}) : weekOf[c] = weekOf[b]
            BY <3>3, <3>4, <4>1, <4>3
          <5>. QED  BY <3>4, <3>5, <5>1
        <4>. QED  BY <4>2, <4>3
      <3>. QED  BY <2>1, <3>6, <3>7 DEF KeepsCoverage
    <2>. QED  BY <2>1, <2>2, <2>3, <2>4
  <1>. QED  BY <1>1, <1>2

(* A step of one run.                                                      *)
LEMMA KeepStepOfRun ==
  ASSUME KeepInv, IInv', NEW j \in Jobs, NEW record,
         job \in [Jobs -> {Idle} \cup Running(Steps, Books \cup {Absent})],
         job' = [job EXCEPT ![j] = record],
         \/ Present \subseteq Present'
         \/ \E x \in Name : Replaceable(x, Present) /\ Present' = Present \ {x},
         record # Idle => \A d \in record.doomed : Replaceable(d, Present'),
         Claims(record) => \/ Claims(job[j]) /\ record.name = job[j].name
                           \/ record.name \in Present',
         \/ lastBackup' = lastBackup
         \/ lastBackup' \in [ok : {TRUE}, file : Name]
              => Claims(job[j]) /\ lastBackup'.file = job[j].name
  PROVE  KeepInv' /\ KeepsCoverage
  <1>1. Present' \in SUBSET Name
    BY DEF Present
  <1>2. /\ \A d \in Name : Replaceable(d, Present) => Replaceable(d, Present')
        /\ \A n \in Name : BackedUp(n) => \E m \in Present' : m.stamp >= n.stamp
        /\ KeepsCoverage
    BY <1>1, DirectoryStep
  <1>3. job'[j] = record /\ \A k \in Jobs : k # j => job'[k] = job[k]
    OBVIOUS
  <1>4. \A k \in Jobs : /\ Claims(job[k]) => job[k].name \in Name
                        /\ Active(k) => job[k].doomed \subseteq Name
    BY DEF Claims, Active, Running, Idle
  <1>5. DoomedAreReplaceable'
    <2> SUFFICES ASSUME NEW k \in Jobs, job'[k] # Idle, NEW d \in job'[k].doomed
                 PROVE  Replaceable(d, Present')
      BY DEF DoomedAreReplaceable, Active
    <2>1. CASE k = j
      BY <1>3, <2>1
    <2>2. CASE k # j
      BY <1>2, <1>3, <1>4, <2>2 DEF KeepInv, DoomedAreReplaceable, Active
    <2>. QED  BY <2>1, <2>2
  <1>6. ASSUME NEW k \in Jobs, Claims(job[k])
        PROVE  \E m \in Present' : m.stamp >= job[k].name.stamp
    BY <1>2, <1>4, <1>6 DEF KeepInv, ClaimsAreTrue
  <1>7. ClaimsAreTrue'
    <2> SUFFICES ASSUME NEW k \in Jobs, Claims(job'[k])
                 PROVE  \E m \in Present' : m.stamp >= job'[k].name.stamp
      BY DEF ClaimsAreTrue, BackedUp, Claims
    <2>1. CASE k # j
      BY <1>3, <1>6, <2>1
    <2>2. CASE k = j /\ Claims(job[j]) /\ record.name = job[j].name
      BY <1>3, <1>6, <2>2
    <2>3. CASE k = j /\ record.name \in Present'
      BY <1>1, <1>3, <2>3, StampsAreNat
    <2>. QED  BY <1>3, <2>1, <2>2, <2>3
  <1>8. RecordIsBacked'
    <2> SUFFICES ASSUME lastBackup' \in [ok : {TRUE}, file : Name]
                 PROVE  \E m \in Present' : m.stamp >= lastBackup'.file.stamp
      BY DEF RecordIsBacked, BackedUp
    <2>1. CASE lastBackup' = lastBackup
      BY <1>2, <2>1 DEF KeepInv, RecordIsBacked
    <2>2. CASE Claims(job[j]) /\ lastBackup'.file = job[j].name
      BY <1>6, <2>2
    <2>. QED  BY <2>1, <2>2
  <1>. QED  BY <1>2, <1>5, <1>7, <1>8 DEF KeepInv

LEMMA KeepGoto ==
  ASSUME KeepInv, IInv, IInv', NEW j \in Jobs, Active(j), NEW pc \in Steps, Goto(j, pc),
         \/ Present \subseteq Present'
         \/ \E x \in job[j].doomed : Present' = Present \ {x},
         \/ pc \in {"renamed", "listing", "pruning", "unlinking", "recording"}
              => job[j].pc \in {"renamed", "listing", "pruning", "unlinking"}
         \/ pc = "noting" /\ job[j].pc = "recording"
         \/ job[j].name \in Present',
         pc = "noting" => job[j].pc = "recording",
         lastBackup' \in {lastBackup, Cut}
  PROVE  KeepInv' /\ KeepsCoverage
  <1> DEFINE record == [job[j] EXCEPT !.pc = pc]
  <1>1. job \in [Jobs -> {Idle} \cup Running(Steps, Books \cup {Absent})] /\ TypeOK
    BY DEF IInv, TypeOK
  <1>2. job[j].doomed \subseteq Name /\ \A d \in job[j].doomed : Replaceable(d, Present)
    BY <1>1 DEF Active, Running, KeepInv, DoomedAreReplaceable
  <1>3. \/ Present \subseteq Present'
        \/ \E x \in Name : Replaceable(x, Present) /\ Present' = Present \ {x}
    BY <1>2
  <1>4. job' = [job EXCEPT ![j] = record] /\ record.name = job[j].name
        /\ record.pc = pc /\ record.doomed = job[j].doomed /\ record.ok = job[j].ok
    BY <1>1 DEF Active, Goto, Running
  <1>5. Present' \in SUBSET Name
    BY DEF Present
  <1> HIDE DEF record
  <1>6. \A d \in record.doomed : Replaceable(d, Present')
    BY <1>2, <1>3, <1>4, <1>5, DirectoryStep
  <1>7. Claims(record) => \/ Claims(job[j]) /\ record.name = job[j].name
                          \/ record.name \in Present'
    BY <1>4 DEF Claims
  <1>8. \/ lastBackup' = lastBackup
        \/ lastBackup' \in [ok : {TRUE}, file : Name]
             => Claims(job[j]) /\ lastBackup'.file = job[j].name
    BY RecordAssumption DEF LastBackup
  <1>. QED  BY <1>1, <1>3, <1>4, <1>6, <1>7, <1>8, KeepStepOfRun

LEMMA KeepEnd ==
  ASSUME KeepInv, IInv, IInv', NEW j \in Jobs, Ends(j), UNCHANGED files,
         \/ lastBackup' = lastBackup
         \/ lastBackup' \in [ok : {TRUE}, file : Name]
              => Claims(job[j]) /\ lastBackup'.file = job[j].name
  PROVE  KeepInv' /\ KeepsCoverage
  <1>1. job \in [Jobs -> {Idle} \cup Running(Steps, Books \cup {Absent})]
    BY DEF IInv, TypeOK
  <1>2. Present' = Present
    BY DEF Present, files
  <1>3. ~Claims(Idle)
    BY DEF Claims, Idle
  <1>. QED  BY <1>1, <1>2, <1>3, KeepStepOfRun DEF Ends

(* Nothing of what matters here changes.                                   *)
LEMMA KeepStutter ==
  ASSUME KeepInv, UNCHANGED <<files, lastBackup>>,
         \A j \in Jobs : \/ job'[j] = job[j]
                         \/ /\ Active(j) /\ job'[j].doomed = job[j].doomed
                            /\ ~Claims(job'[j])
  PROVE  KeepInv' /\ KeepsCoverage
  <1>1. Present' = Present
    BY DEF Present, files
  <1>2. DoomedAreReplaceable'
    BY <1>1 DEF KeepInv, DoomedAreReplaceable, Active
  <1>3. ClaimsAreTrue'
    BY <1>1 DEF KeepInv, ClaimsAreTrue, BackedUp, Claims
  <1>4. RecordIsBacked'
    BY <1>1 DEF KeepInv, RecordIsBacked, BackedUp
  <1>5. KeepsCoverage
    BY <1>1 DEF KeepsCoverage, Untagged
  <1>. QED  BY <1>2, <1>3, <1>4, <1>5 DEF KeepInv

LEMMA KeepStep ==
  ASSUME KeepInv, IInv, [BackupNext]_backupVars
  PROVE  KeepInv' /\ KeepsCoverage
  <1>0. IInv' /\ TypeOK /\ job \in [Jobs -> {Idle} \cup Running(Steps, Books \cup {Absent})]
    BY StepIInv DEF IInv, TypeOK
  <1>1. CASE UNCHANGED backupVars
    BY <1>1, KeepStutter DEF backupVars, files
  <1>2. ASSUME NEW j \in Jobs, NEW tag \in Tags \cup {NoTag}, Start(j, tag)
        PROVE  KeepInv' /\ KeepsCoverage
    <2> DEFINE record == [pc |-> "mkdir", name |-> [stamp |-> now', tag |-> tag],
                          content |-> Absent, doomed |-> {}, ok |-> TRUE]
    <2>1. job' = [job EXCEPT ![j] = record] /\ lastBackup' = lastBackup /\ Present' = Present
      BY <1>2 DEF Start, Present, files
    <2>2. ~Claims(record) /\ record.doomed = {}
      BY DEF Claims
    <2> HIDE DEF record
    <2>. QED  BY <1>0, <2>1, <2>2, KeepStepOfRun
  <1>3. ASSUME NEW j \in Jobs, Crash(j) PROVE KeepInv' /\ KeepsCoverage
    BY <1>0, <1>3, KeepEnd DEF Crash
  <1>4. ASSUME NEW j \in Jobs, Progress(j) PROVE KeepInv' /\ KeepsCoverage
    <2>1. Active(j)
      BY <1>4 DEF Progress, MakeDirectory, PgDump, PgDumpExits, PgDumpFails, Verify, Rename,
           WriteChecksum, List, RemoveDump, RemoveSidecar, RemoveFails, PruneEnds, Throws,
           CleanUp, Record, Noted, NoteFails, At, Active, Idle
    <2>2. /\ job[j] \in Running(Steps, Books \cup {Absent})
          /\ job[j].name \in Name /\ job[j].doomed \subseteq Name
          /\ \A d \in job[j].doomed : Replaceable(d, Present)
      BY <1>0, <2>1 DEF Active, Running, KeepInv, DoomedAreReplaceable
    <2>3. final' = final => Present' = Present
      BY DEF Present
    <2>4. \A names \in SUBSET Name : names # {} => Newest(names) \in names
      BY NewestIsNewest
    <2> USE <1>0, <2>1, <2>3
    <2>5. CASE MakeDirectory(j)
      BY <2>5, KeepGoto, KeepEnd DEF MakeDirectory, At, Steps, files
    <2>6. CASE PgDump(j)
      <3> DEFINE record == [job[j] EXCEPT !.pc = "dumping", !.content = live]
      <3>1. job' = [job EXCEPT ![j] = record] /\ lastBackup' = lastBackup /\ final' = final
        BY <2>6 DEF PgDump
      <3>2. ~Claims(record) /\ record.doomed = job[j].doomed
        BY <2>2 DEF Claims, Running
      <3> HIDE DEF record
      <3>. QED  BY <2>2, <3>1, <3>2, KeepStepOfRun
    <2>7. CASE PgDumpExits(j)
      BY <2>7, KeepGoto DEF PgDumpExits, Steps
    <2>8. CASE PgDumpFails(j)
      BY <2>8, KeepGoto DEF PgDumpFails, Steps, files
    <2>9. CASE Verify(j)
      BY <2>9, KeepGoto DEF Verify, Steps, files
    <2>10. CASE Rename(j)
      <3>1. partial[job[j].name] \in Books /\ Absent \notin Books
        BY <2>10, BackupAssumption DEF Rename, IInv, VerifiedIsWhole
      <3>2. final'[job[j].name] # Absent /\ \A n \in Name : final[n] # Absent => final'[n] # Absent
        BY <2>2, <2>10, <3>1 DEF Rename, TypeOK
      <3>3. job[j].name \in Present' /\ Present \subseteq Present'
        BY <2>2, <3>2 DEF Present
      <3>. QED  BY <2>10, <3>3, KeepGoto DEF Rename, Steps
    <2>11. CASE WriteChecksum(j)
      BY <2>11, KeepGoto DEF WriteChecksum, At, Steps
    <2>12. CASE List(j)
      <3> DEFINE listed == {n \in Name : final[n] # Absent}
                 record == [job[j] EXCEPT !.pc = "pruning",
                                          !.doomed = SelectBackupsToPrune(listed)]
      <3>1. job' = [job EXCEPT ![j] = record] /\ lastBackup' = lastBackup /\ final' = final
        BY <2>12 DEF List, files
      <3>2. record.doomed = SelectBackupsToPrune(Present) /\ record.name = job[j].name
        BY <2>2 DEF Running, Present
      <3>3. Claims(job[j])
        BY <2>12 DEF List, At, Claims
      <3> HIDE DEF record
      <3>4. \A d \in record.doomed : Replaceable(d, Present')
        BY <3>1, <3>2, PresentIsNames, PrunedIsReplaceable
      <3>. QED  BY <3>1, <3>2, <3>3, <3>4, KeepStepOfRun
    <2>13. CASE RemoveDump(j)
      <3>1. NextDoomed(j) \in job[j].doomed
        BY <2>2, <2>4, <2>13 DEF RemoveDump, NextDoomed
      <3>2. Present' = Present \ {NextDoomed(j)}
        BY <2>2, <2>13, <3>1 DEF RemoveDump, Present, TypeOK
      <3>. QED  BY <2>13, <3>1, <3>2, KeepGoto DEF RemoveDump, At, Steps
    <2>14. CASE RemoveSidecar(j) \/ RemoveFails(j)
      <3> DEFINE record == [job[j] EXCEPT !.pc = "pruning", !.doomed = @ \ {NextDoomed(j)}]
      <3>1. job' = [job EXCEPT ![j] = record] /\ lastBackup' = lastBackup /\ final' = final
        BY <2>14 DEF RemoveSidecar, RemoveFails, files
      <3>2. record.doomed \subseteq job[j].doomed /\ record.name = job[j].name
        BY <2>2 DEF Running
      <3>3. Claims(job[j])
        BY <2>14 DEF RemoveSidecar, RemoveFails, At, Claims
      <3> HIDE DEF record
      <3>4. \A d \in record.doomed : Replaceable(d, Present')
        BY <2>2, <3>1, <3>2
      <3>. QED  BY <3>1, <3>2, <3>3, <3>4, KeepStepOfRun
    <2>15. CASE PruneEnds(j)
      BY <2>15, KeepGoto DEF PruneEnds, At, Steps, files
    <2>16. CASE Throws(j)
      BY <2>16, KeepGoto DEF Throws, Steps, files
    <2>17. CASE CleanUp(j)
      <3> DEFINE record == [job[j] EXCEPT !.pc = "recording", !.ok = FALSE]
      <3>1. job' = [job EXCEPT ![j] = record] /\ lastBackup' = lastBackup /\ final' = final
        BY <2>17 DEF CleanUp
      <3>2. ~Claims(record) /\ record.doomed = job[j].doomed
        BY <2>2 DEF Claims, Running
      <3> HIDE DEF record
      <3>. QED  BY <2>2, <3>1, <3>2, KeepStepOfRun
    <2>18. CASE Record(j)
      BY <2>18, KeepGoto DEF Record, At, Steps, files
    <2>19. CASE Noted(j)
      <3>1. lastBackup' \in [ok : {TRUE}, file : Name]
              => Claims(job[j]) /\ lastBackup'.file = job[j].name
        BY <2>19 DEF Noted, At, Claims
      <3>. QED  BY <2>19, <3>1, KeepEnd DEF Noted
    <2>20. CASE NoteFails(j)
      BY <2>20, KeepEnd DEF NoteFails
    <2>. QED  BY <1>4, <2>5, <2>6, <2>7, <2>8, <2>9, <2>10, <2>11, <2>12, <2>13, <2>14,
                 <2>15, <2>16, <2>17, <2>18, <2>19, <2>20 DEF Progress
  <1>. QED  BY <1>1, <1>2, <1>3, <1>4 DEF BackupNext

------------------------------------------------------------------------------
(* The weeks of the retention rule.  A year is found because there is a    *)
(* first one that is not over before the day.                              *)

(* A date is a Thursday when it is three days after a Monday.              *)
LEMMA ThursdayFacts ==
  ASSUME NEW d \in Int
  PROVE  /\ ThursdayOf(d) = 7 * (d \div 7) + 3
         /\ ThursdayOf(d) \in Int
         /\ ThursdayOf(d) \in d - 3..d + 3
         /\ WeekDay(ThursdayOf(d)) = 4
         /\ \A t \in d - 3..d + 3 : WeekDay(t) = 4 => t = ThursdayOf(d)
  <1> DEFINE q == d \div 7
             r == d % 7
  <1>1. q \in Int /\ r \in 0..6 /\ d = 7 * q + r
    OBVIOUS
  <1>2. DayFromMonday(d) = r
    BY <1>1 DEF DayFromMonday, WeekDay
  <1>3. ThursdayOf(d) = 7 * q + 3
    BY <1>1, <1>2 DEF ThursdayOf
  <1>4. WeekDay(7 * q + 3) = 4
    BY <1>1 DEF WeekDay
  <1>5. ASSUME NEW t \in d - 3..d + 3, WeekDay(t) = 4 PROVE t = 7 * q + 3
    BY <1>1, <1>5 DEF WeekDay
  <1>. QED  BY <1>1, <1>3, <1>4, <1>5

(* A year has 365 days or 366.                                             *)
LEMMA YearLength ==
  ASSUME NEW y \in Int
  PROVE  NewYear(y) \in Int /\ NewYear(y + 1) - NewYear(y) \in 365..366
  <1> DEFINE p == y - 1
  <1>1. p \in Int /\ p + 1 = y + 1 - 1
    OBVIOUS
  <1>2. (p + 1) \div 4 - p \div 4 = IF (p + 1) % 4 = 0 THEN 1 ELSE 0
    BY <1>1
  <1>3. (p + 1) \div 100 - p \div 100 = IF (p + 1) % 100 = 0 THEN 1 ELSE 0
    BY <1>1
  <1>4. (p + 1) \div 400 - p \div 400 = IF (p + 1) % 400 = 0 THEN 1 ELSE 0
    BY <1>1
  <1>5. /\ (p + 1) % 100 = 0 => (p + 1) % 4 = 0
        /\ (p + 1) % 400 = 0 => (p + 1) % 100 = 0
    BY <1>1
  <1>6. /\ NewYear(y) = 365 * p + p \div 4 - p \div 100 + p \div 400
        /\ NewYear(y + 1) = 365 * (p + 1) + (p + 1) \div 4 - (p + 1) \div 100 + (p + 1) \div 400
    BY <1>1 DEF NewYear
  <1>. QED  BY <1>1, <1>2, <1>3, <1>4, <1>5, <1>6

(* A later year begins after an earlier one is over.                       *)
LEMMA YearsFollow ==
  ASSUME NEW y \in Int, NEW z \in Int, y < z
  PROVE  NewYear(y + 1) <= NewYear(z)
  <1> DEFINE p == y
             q == z - 1
             n == q - p
  <1>1. p \in Int /\ q \in Int /\ n \in Nat /\ q = p + n
    OBVIOUS
  <1>2. /\ p \div 4 <= q \div 4 /\ p \div 400 <= q \div 400
        /\ q \div 100 - p \div 100 <= n
    BY <1>1
  <1>3. /\ NewYear(y + 1) = 365 * p + p \div 4 - p \div 100 + p \div 400
        /\ NewYear(z) = 365 * q + q \div 4 - q \div 100 + q \div 400
    BY <1>1 DEF NewYear
  <1>. QED  BY <1>1, <1>2, <1>3

(* Every day of the years considered, and the three before and after them, *)
(* is in one year and in no other.                                         *)
LEMMA YearOfDay ==
  ASSUME NEW d \in Int, d >= NewYear(FirstYear) - 3, d < NewYear(LastYear) + 3
  PROVE  /\ YearOf(d) \in Nat
         /\ d \in NewYear(YearOf(d))..NewYear(YearOf(d) + 1) - 1
         /\ \A z \in Int : d \in NewYear(z)..NewYear(z + 1) - 1 => z = YearOf(d)
  <1> DEFINE first == FirstYear - 1
             last  == LastYear + 1
             over  == {y \in first..last : d < NewYear(y + 1)}
             here(y) == d \in NewYear(y)..NewYear(y + 1) - 1
  <1>1. first \in Nat /\ last \in Nat /\ first <= last
    BY YearAssumption
  <1>2. \A y \in Int : NewYear(y) \in Int /\ NewYear(y + 1) - NewYear(y) \in 365..366
    BY YearLength
  <1>3. IsFiniteSet(over)
    <2>1. IsFiniteSet(first..last)
      BY <1>1, FS_Interval
    <2>2. over \subseteq first..last
      OBVIOUS
    <2>. QED  BY <2>1, <2>2, FS_Subset
  <1>4. last \in over
    <2>1. last \in Int /\ LastYear \in Int /\ last = LastYear + 1
      BY YearAssumption
    <2>2. NewYear(last) >= NewYear(LastYear) + 365 /\ NewYear(last + 1) >= NewYear(last)
      BY <1>2, <2>1
    <2>. QED  BY <1>1, <1>2, <2>1, <2>2
  <1>5. PICK y \in over : \A z \in over : y <= z
    <2> DEFINE f == [z \in over |-> z]
    <2>1. \A z \in over : f[z] \in Int /\ f[z] = z
      BY <1>1
    <2>2. PICK y \in over : \A z \in over : f[y] <= f[z]
      BY <1>3, <1>4, <2>1, LeastElement
    <2>. QED  BY <2>1, <2>2
  <1>6. here(y)
    <2>1. y \in Int /\ d < NewYear(y + 1)
      BY <1>1, <1>5
    <2>2. CASE y = first
      <3>1. NewYear(FirstYear) - NewYear(first) \in 365..366 /\ first + 1 = FirstYear
        <4>1. first \in Int /\ first + 1 = FirstYear
          BY YearAssumption
        <4>. QED  BY <1>2, <4>1
      <3>. QED  BY <1>2, <2>1, <2>2, <3>1
    <2>3. CASE y # first
      <3>1. y - 1 \in first..last /\ y - 1 \notin over /\ (y - 1) + 1 = y
        BY <1>1, <1>5, <2>3
      <3>2. d >= NewYear(y)
        BY <1>2, <2>1, <3>1
      <3>. QED  BY <1>2, <2>1, <3>2
    <2>. QED  BY <2>2, <2>3
  <1>7. y \in first..last
    BY <1>5
  <1> HIDE DEF over
  <1>8. YearOf(d) \in first..last /\ here(YearOf(d))
    BY <1>6, <1>7 DEF YearOf
  <1>9. ASSUME NEW z \in Int, here(z) PROVE z = YearOf(d)
    <2> DEFINE x == YearOf(d)
    <2>1. x \in Int /\ here(x)
      BY <1>1, <1>8
    <2> HIDE DEF x
    <2>2. \A v, w \in Int : v < w => NewYear(v + 1) <= NewYear(w)
      BY YearsFollow
    <2>3. /\ NewYear(x) \in Int /\ NewYear(x + 1) \in Int
          /\ NewYear(z) \in Int /\ NewYear(z + 1) \in Int
      BY <1>2, <1>9, <2>1
    <2>4. ~(x < z) /\ ~(z < x)
      BY <1>9, <2>1, <2>2, <2>3
    <2>. QED  BY <1>9, <2>1, <2>4 DEF x
  <1>. QED  BY <1>1, <1>8, <1>9

(* The week of the fourth of January has the first Thursday of the year.   *)
LEMMA FirstThursdayFacts ==
  ASSUME NEW y \in Int
  PROVE  /\ FirstThursday(y) \in NewYear(y)..NewYear(y) + 6
         /\ FirstThursday(y) % 7 = 3
  <1> DEFINE n == NewYear(y)
             q == (n + 3) \div 7
  <1>1. n \in Int /\ n + 3 \in Int
    BY YearLength
  <1> HIDE DEF n
  <1>2. ThursdayOf(n + 3) = 7 * q + 3
    BY <1>1, ThursdayFacts
  <1>3. q \in Int /\ n + 3 - 7 * q \in 0..6
    BY <1>1
  <1>4. (7 * q + 3) % 7 = 3
    BY <1>3
  <1>. QED  BY <1>1, <1>2, <1>3, <1>4 DEF FirstThursday, n

(* The key of a date: the year of its Thursday, and which Thursday of that *)
(* year it is.                                                             *)
LEMMA KeyOfDate ==
  ASSUME NEW d \in Dates
  PROVE  LET t == ThursdayOf(d)
             y == YearOf(t)
         IN  /\ d \in Int /\ y \in Nat /\ t \in NewYear(y)..NewYear(y + 1) - 1
             /\ IsoWeekKey(d).year = y
             /\ t = FirstThursday(y) + 7 * (IsoWeekKey(d).week - 1)
             /\ IsoWeekKey(d).week = 1 + (t - NewYear(y)) \div 7
             /\ IsoWeekKey(d).week \in 1..53
  <1> DEFINE t == ThursdayOf(d)
             y == YearOf(t)
             f == FirstThursday(y)
             n == NewYear(y)
             k == (t - f) \div 7
  <1>1. NewYear(FirstYear) \in Int /\ NewYear(LastYear) \in Int
    BY YearLength, YearAssumption
  <1>2. d \in Int /\ d >= NewYear(FirstYear) /\ d < NewYear(LastYear)
    BY <1>1 DEF Dates
  <1>3. t \in Int /\ t \in d - 3..d + 3 /\ t = 7 * (d \div 7) + 3
    BY <1>2, ThursdayFacts
  <1>4. y \in Nat /\ t \in n..NewYear(y + 1) - 1
    <2>1. t >= NewYear(FirstYear) - 3 /\ t < NewYear(LastYear) + 3
      BY <1>1, <1>2, <1>3
    <2>. QED  BY <1>3, <2>1, YearOfDay
  <1>5. n \in Int /\ f \in n..n + 6 /\ f % 7 = 3 /\ t - n \in 0..365
    <2>1. n \in Int /\ NewYear(y + 1) - n \in 365..366 /\ NewYear(y + 1) \in Int
      BY <1>4, YearLength
    <2>2. f \in n..n + 6 /\ f % 7 = 3
      BY <1>4, FirstThursdayFacts
    <2> HIDE DEF n, f, t, y
    <2>. QED  BY <1>3, <1>4, <2>1, <2>2
  <1>6. IsoWeekKey(d) = [year |-> y, week |-> 1 + MathRound(t - f, 7)]
    BY DEF IsoWeekKey
  <1> HIDE DEF t, y, f, n
  <1>7. k \in Int /\ t = f + 7 * k
    BY <1>2, <1>3, <1>5
  <1>8. MathRound(t - f, 7) = k
    <2>1. t - f = 7 * k /\ 2 * (t - f) + 7 = 14 * k + 7
      BY <1>3, <1>5, <1>7
    <2>2. (14 * k + 7) \div 14 = k
      BY <1>7
    <2>. QED  BY <2>1, <2>2 DEF MathRound
  <1>9. (t - n) \div 7 = k
    BY <1>3, <1>5, <1>7
  <1>10. k \in 0..52
    BY <1>5, <1>7, <1>9
  <1>. QED  BY <1>2, <1>4, <1>6, <1>7, <1>8, <1>9, <1>10 DEF t, y, f, n

(* The key is the one ISO 8601 gives the week.                             *)
LEMMA KeyIsStandard == IsoWeekIsStandard
  <1> SUFFICES ASSUME NEW today \in Dates
               PROVE  LET thursday == CHOOSE t \in today - 3..today + 3 : WeekDay(t) = 4
                          year == YearOf(thursday)
                          key  == IsoWeekKey(today)
                      IN  /\ key.year = year
                          /\ key.week = 1 + (thursday - NewYear(year)) \div 7
                          /\ key.week \in 1..53
    BY DEF IsoWeekIsStandard
  <1>1. today \in Int
    BY KeyOfDate
  <1>2. (CHOOSE t \in today - 3..today + 3 : WeekDay(t) = 4) = ThursdayOf(today)
    BY <1>1, ThursdayFacts
  <1>. QED  BY <1>2, KeyOfDate

(* retention.ts 39-45: the week a backup counts for is that of ISO 8601,   *)
(* for every range of years: no week is split over the end of a year, and  *)
(* none is counted with another.                                           *)
THEOREM WeeksAreStandard == RestoreSpec => []WeeksAreIsoWeeks
  <1>1. WeeksAreIsoWeeks
    BY KeyIsStandard DEF WeeksAreIsoWeeks
  <1>. QED  BY <1>1, PTL

(* retention.ts 46-58, 75-: pruning compares keys, and module Backup       *)
(* compares runs of seven days.  It is the same question.                  *)
THEOREM WeeksAreTheKeys ==
  ASSUME DaysPerWeek = 7, NEW m, NEW n, Day(m) \in Dates, Day(n) \in Dates
  PROVE  Week(m) = Week(n) <=> IsoWeekKey(Day(m)) = IsoWeekKey(Day(n))
  <1> DEFINE d == Day(m)
             e == Day(n)
  <1>1. d \in Int /\ e \in Int
    BY KeyOfDate
  <1>2. ThursdayOf(d) = 7 * (d \div 7) + 3 /\ ThursdayOf(e) = 7 * (e \div 7) + 3
    BY <1>1, ThursdayFacts
  <1>3. Week(m) = d \div 7 /\ Week(n) = e \div 7
    BY DEF Week
  <1> HIDE DEF d, e
  <1>4. IsoWeekKey(d) = IsoWeekKey(e) => ThursdayOf(d) = ThursdayOf(e)
    BY KeyOfDate DEF d, e
  <1>5. ThursdayOf(d) = ThursdayOf(e) => IsoWeekKey(d) = IsoWeekKey(e)
    BY DEF IsoWeekKey
  <1>6. d \div 7 \in Int /\ e \div 7 \in Int
    BY <1>1
  <1>7. Week(m) = Week(n) <=> IsoWeekKey(d) = IsoWeekKey(e)
    BY <1>2, <1>3, <1>4, <1>5, <1>6
  <1>. QED  BY <1>7 DEF d, e

------------------------------------------------------------------------------
(* Restores beside them.                                                   *)

(* What the live database is while a restore is under way.                 *)
Phases ==
  /\ restore.pc = "create" => live = NoBooks
  /\ restore.pc = "load" => live = Empty
  /\ restore.pc = "loading" => live = Half /\ restore.archive \in Books
  /\ restore.pc = "discard" => restore.discard # Absent

RestoreInv == IInv /\ RestoreTypeOK /\ NothingDestroyed /\ Phases

LEMMA RestoreInitInv == RestoreInit => RestoreInv
  <1> SUFFICES ASSUME RestoreInit PROVE RestoreInv
    OBVIOUS
  <1>1. IInv
    BY InitIInv DEF RestoreInit
  <1>2. RestoreTypeOK /\ NothingDestroyed /\ Phases
    BY RestoreAssumption
       DEF RestoreInit, RestoreTypeOK, NothingDestroyed, Phases, Cluster, NotRestoring, States
  <1>. QED  BY <1>1, <1>2 DEF RestoreInv

(* A state is kept if it stays in the cluster or is named.                 *)
LEMMA RestoringShape ==
  ASSUME RestoreTypeOK, restore.pc # "idle"
  PROVE  /\ restore \in Restoring
         /\ restore.file \in Name /\ restore.stamp \in Stamps
         /\ restore.archive \in Books \cup {Absent}
         /\ restore.discard \in Stamps \cup {Absent}
  BY DEF RestoreTypeOK, Restoring, NotRestoring

(* The backup runs do not touch what a restore works on, and a restore     *)
(* disturbs a run only by failing its pg_dump.                             *)
LEMMA BackupUndisturbed ==
  ASSUME IInv, now' \in Nat, now' \in 0..MaxClock, now <= now',
         live' \in Books \cup {NoBooks},
         UNCHANGED <<files, lastBackup, job>>
  PROVE  IInv'
  <1>1. \A j \in Jobs : Active(j) => job[j].name.stamp \in Nat
    BY BackupAssumption DEF IInv, TypeOK, Active, Running, Name, Stamps
  <1>2. now \in Nat
    BY BackupAssumption DEF IInv, TypeOK
  <1>3. StampIsOld'
    <2>. SUFFICES ASSUME NEW j \in Jobs, Active(j)
                  PROVE  job[j].name.stamp <= now'
      BY DEF StampIsOld, Active
    <2>1. job[j].name.stamp <= now
      BY DEF IInv, StampIsOld
    <2>. QED  BY <1>1, <1>2, <2>1
  <1>. QED  BY <1>3 DEF IInv, TypeOK, FinalIsComplete, VerifiedIsWhole, OneFileEach, Active, At, files

LEMMA RenameFailsDumps ==
  ASSUME IInv, live' \in Books \cup {NoBooks},
         UNCHANGED <<now, files, lastBackup>>,
         job' = [j \in Jobs |-> IF At(j, "dumping")
                                THEN [job[j] EXCEPT !.pc = "failing"] ELSE job[j]]
  PROVE  IInv'
  <1>1. job \in [Jobs -> {Idle} \cup Running(Steps, Books \cup {Absent})]
    BY DEF IInv, TypeOK
  <1>2. \A j \in Jobs : At(j, "dumping") =>
          /\ Active(j) /\ job'[j] \in Running(Steps, Books \cup {Absent})
          /\ job'[j].name = job[j].name /\ job'[j].pc = "failing"
    BY <1>1 DEF At, Active, Running, Steps, Idle
  <1>3. \A j \in Jobs : ~At(j, "dumping") => job'[j] = job[j]
    OBVIOUS
  <1>4. job' \in [Jobs -> {Idle} \cup Running(Steps, Books \cup {Absent})]
    BY <1>1, <1>2, <1>3
  <1>5. \A j \in Jobs : Active(j)' => Active(j) /\ job'[j].name = job[j].name
    BY <1>2, <1>3 DEF Active
  <1>6. StampIsOld' /\ OneFileEach'
    BY <1>5 DEF IInv, StampIsOld, OneFileEach
  <1>7. VerifiedIsWhole'
    BY <1>2, <1>3 DEF IInv, VerifiedIsWhole, At, files
  <1>. QED  BY <1>4, <1>6, <1>7 DEF IInv, TypeOK, FinalIsComplete, files

LEMMA RestoreStepInv ==
  ASSUME RestoreInv, [Next]_allVars
  PROVE  RestoreInv'
  <1>0. /\ IInv /\ RestoreTypeOK /\ NothingDestroyed /\ Phases
        /\ now \in 0..MaxClock /\ now \in Nat
        /\ owed \subseteq States /\ States \subseteq Books /\ NoBooks \notin Books
        /\ Empty \notin States /\ Half \notin States /\ Empty \in Books /\ Half \in Books
    BY BackupAssumption, RestoreAssumption DEF RestoreInv, IInv, TypeOK, RestoreTypeOK, States
  <1>1. CASE UNCHANGED allVars
    <2>1. IInv'
      BY <1>0, <1>1, StepIInv DEF allVars, backupVars
    <2>. QED  BY <1>0, <1>1, <2>1
              DEF RestoreInv, RestoreTypeOK, NothingDestroyed, Phases, Cluster, allVars,
                  backupVars, restoreVars
  <1>2. CASE BackupNext /\ UNCHANGED <<restoreVars, latest>>
    <2>1. IInv'
      BY <1>0, <1>2, StepIInv
    <2>2. live' = live
      BY <1>2 DEF BackupNext, Start, Progress, Crash, MakeDirectory, PgDump, PgDumpExits,
           PgDumpFails, Verify, Rename, WriteChecksum, List, RemoveDump, RemoveSidecar,
           RemoveFails, PruneEnds, Throws, CleanUp, Record, Noted, NoteFails
    <2>. QED  BY <1>0, <1>2, <2>1, <2>2
              DEF RestoreInv, RestoreTypeOK, NothingDestroyed, Phases, Cluster, restoreVars
  <1>3. CASE Commit
    <2>1. live \in States /\ live' \in States /\ latest' = live'
      BY <1>3 DEF Commit
    <2>2. IInv'
      BY <1>0, <1>3, <2>1, BackupUndisturbed DEF Commit
    <2>3. live # NoBooks /\ live # Empty /\ live # Half
      BY <1>0, <2>1
    <2>4. owed' \subseteq Cluster' \cup discarded'
      BY <1>0, <1>3 DEF Commit, NothingDestroyed, Cluster
    <2>. QED  BY <1>0, <1>3, <2>1, <2>2, <2>3, <2>4
              DEF Commit, RestoreInv, RestoreTypeOK, NothingDestroyed, Phases
  <1>4. CASE RestoreStart
    <2>1. now' \in Stamps /\ now' \in 0..MaxClock /\ now' \in Nat /\ now <= now'
      BY <1>0, <1>4, BackupAssumption DEF RestoreStart, Stamps
    <2>2. IInv'
      BY <1>0, <1>4, <2>1, BackupUndisturbed DEF RestoreStart, IInv, TypeOK
    <2>3. restore' \in Restoring /\ restore'.pc = "verify"
      BY <1>4, <2>1 DEF RestoreStart, Restoring
    <2>. QED  BY <1>0, <1>4, <2>2, <2>3
              DEF RestoreStart, RestoreInv, RestoreTypeOK, NothingDestroyed, Phases, Cluster
  <1>5. CASE VerifyBackupFile
    <2>1. IInv'
      BY <1>0, <1>5, StepIInv DEF VerifyBackupFile
    <2>2. restore' \in {NotRestoring} \cup Restoring
          /\ restore'.pc \in {"idle", "rename"}
      BY <1>0, <1>5, RestoringShape
         DEF VerifyBackupFile, RGoto, RestoreEnds, Restoring, NotRestoring
    <2>. QED  BY <1>0, <1>5, <2>1, <2>2
              DEF VerifyBackupFile, backupVars, RestoreInv, RestoreTypeOK, NothingDestroyed,
                  Phases, Cluster
  <1>6. CASE RenameDatabase
    <2>1. restore.stamp \in Stamps
      BY <1>0, <1>6, RestoringShape DEF RenameDatabase
    <2>2. CASE live = NoBooks \/ displaced[restore.stamp] # NoBooks
      <3>1. restore' = NotRestoring /\ UNCHANGED <<backupVars, displaced, owed, discarded, spoiled, latest>>
        BY <1>6, <2>2 DEF RenameDatabase, RestoreEnds, backupVars
      <3>2. IInv'
        BY <1>0, <3>1, StepIInv
      <3>. QED  BY <1>0, <3>1, <3>2
                DEF RestoreInv, RestoreTypeOK, NothingDestroyed, Phases, Cluster, backupVars,
                    NotRestoring
    <2>3. CASE ~(live = NoBooks \/ displaced[restore.stamp] # NoBooks)
      <3>1. /\ displaced' = [displaced EXCEPT ![restore.stamp] = live]
            /\ live' = NoBooks
            /\ restore' = [restore EXCEPT !.pc = "create"]
            /\ UNCHANGED <<now, files, lastBackup, owed, discarded, spoiled, latest>>
        BY <1>6, <2>3 DEF RenameDatabase, RGoto
      <3>2. IInv'
        BY <1>0, <1>6, <2>3, <3>1, RenameFailsDumps DEF RenameDatabase
      <3>3. restore' \in Restoring /\ restore'.pc = "create"
        BY <1>0, <1>6, <3>1, RestoringShape DEF RenameDatabase, Restoring
      <3>4. displaced' \in [Stamps -> Books \cup {NoBooks}]
        BY <1>0, <3>1 DEF RestoreTypeOK
      <3>5. owed' \subseteq Cluster' \cup discarded'
        <4>. SUFFICES ASSUME NEW c \in owed, c \notin discarded
                      PROVE  \E s \in Stamps : displaced'[s] = c
          BY <3>1 DEF Cluster
        <4>1. displaced \in [Stamps -> Books \cup {NoBooks}] /\ c # NoBooks
          BY <1>0 DEF RestoreTypeOK
        <4>2. CASE c = live
          <5>1. displaced'[restore.stamp] = c
            BY <2>1, <3>1, <4>1, <4>2
          <5>. QED  BY <2>1, <5>1
        <4>3. CASE c # live
          <5>1. PICK s \in Stamps : displaced[s] = c
            BY <1>0, <4>3 DEF NothingDestroyed, Cluster
          <5>2. s # restore.stamp
            BY <2>3, <4>1, <5>1
          <5>. QED  BY <3>1, <4>1, <5>1, <5>2
        <4>. QED  BY <4>2, <4>3
      <3>. QED  BY <1>0, <3>1, <3>2, <3>3, <3>4, <3>5
                DEF RestoreInv, RestoreTypeOK, NothingDestroyed, Phases
    <2>. QED  BY <2>2, <2>3
  <1>7. CASE CreateDatabase
    <2>1. live = NoBooks /\ live' = Empty /\ restore' = [restore EXCEPT !.pc = "load"]
      BY <1>0, <1>7 DEF CreateDatabase, RGoto, Phases
    <2>2. IInv'
      BY <1>0, <1>7, <2>1, BackupUndisturbed DEF CreateDatabase
    <2>3. restore' \in Restoring /\ restore'.pc = "load"
      BY <1>0, <1>7, <2>1, RestoringShape DEF CreateDatabase, Restoring
    <2>4. owed' \subseteq Cluster' \cup discarded'
      BY <1>0, <1>7, <2>1 DEF CreateDatabase, NothingDestroyed, Cluster
    <2>. QED  BY <1>0, <1>7, <2>1, <2>2, <2>3, <2>4
              DEF CreateDatabase, RestoreInv, RestoreTypeOK, NothingDestroyed, Phases
  <1>8. CASE PgRestore
    <2>1. live = Empty /\ restore.pc = "load"
      BY <1>0, <1>8 DEF PgRestore, Phases
    <2>2. \/ restore' = NotRestoring /\ live' = live
          \/ /\ final[restore.file] # Absent
             /\ restore' = [restore EXCEPT !.pc = "loading", !.archive = final[restore.file]]
             /\ live' = Half
      BY <1>8 DEF PgRestore, RestoreEnds
    <2>3. live' \in Books \cup {NoBooks}
      BY <1>0, <2>1, <2>2
    <2>4. IInv'
      BY <1>0, <1>8, <2>3, BackupUndisturbed DEF PgRestore
    <2>5. restore.file \in Name /\ restore \in Restoring
      BY <1>0, <2>1, RestoringShape
    <2>6. final[restore.file] \in Books \cup {Absent}
      BY <1>0, <2>5 DEF IInv, FinalIsComplete
    <2>7. restore' \in {NotRestoring} \cup Restoring
      BY <2>2, <2>5, <2>6 DEF Restoring
    <2>8. owed' \subseteq Cluster' \cup discarded'
      BY <1>0, <1>8, <2>1 DEF PgRestore, NothingDestroyed, Cluster
    <2>9. Phases'
      <3>1. CASE restore' = NotRestoring
        BY <3>1 DEF Phases, NotRestoring
      <3>2. CASE restore' # NotRestoring
        <4>1. /\ restore' = [restore EXCEPT !.pc = "loading", !.archive = final[restore.file]]
              /\ final[restore.file] \in Books /\ live' = Half
          BY <2>2, <2>6, <3>2
        <4>2. restore'.pc = "loading" /\ restore'.archive \in Books
          BY <2>5, <4>1 DEF Restoring
        <4>. QED  BY <4>1, <4>2 DEF Phases
      <3>. QED  BY <3>1, <3>2
    <2>. QED  BY <1>0, <1>8, <2>3, <2>4, <2>7, <2>8, <2>9
              DEF PgRestore, RestoreInv, RestoreTypeOK, NothingDestroyed
  <1>9. CASE PgRestoreExits
    <2>1. live = Half /\ live' = restore.archive /\ restore' = [restore EXCEPT !.pc = "migrate"]
      BY <1>0, <1>9 DEF PgRestoreExits, RGoto, Phases
    <2>2. restore.archive \in Books /\ restore \in Restoring
      BY <1>0, <1>9, RestoringShape DEF PgRestoreExits, Phases
    <2>3. IInv'
      BY <1>0, <1>9, <2>1, <2>2, BackupUndisturbed DEF PgRestoreExits
    <2>4. restore' \in Restoring /\ restore'.pc = "migrate"
      BY <2>1, <2>2 DEF Restoring
    <2>5. owed' \subseteq Cluster' \cup discarded' /\ owed' \subseteq States
      BY <1>0, <1>9, <2>1 DEF PgRestoreExits, NothingDestroyed, Cluster
    <2>. QED  BY <1>0, <1>9, <2>1, <2>2, <2>3, <2>4, <2>5
              DEF PgRestoreExits, RestoreInv, RestoreTypeOK, NothingDestroyed, Phases
  <1>10. CASE MigrateUp
    <2>1. IInv'
      BY <1>0, <1>10, StepIInv DEF MigrateUp
    <2>2. /\ restore' \in {NotRestoring} \cup Restoring
          /\ \/ restore'.pc = "idle"
             \/ restore'.pc = "discard" /\ restore'.discard # Absent
      BY <1>0, <1>10, RestoringShape
         DEF MigrateUp, RGoto, RestoreEnds, Restoring, NotRestoring
    <2>. QED  BY <1>0, <1>10, <2>1, <2>2
              DEF MigrateUp, backupVars, RestoreInv, RestoreTypeOK, NothingDestroyed,
                  Phases, Cluster
  <1>11. CASE Discard
    <2>1. IInv'
      BY <1>0, <1>11, StepIInv DEF Discard
    <2>2. restore.discard \in Stamps
      BY <1>0, <1>11, RestoringShape DEF Discard, Phases
    <2>3. restore' = NotRestoring /\ displaced' \in [Stamps -> Books \cup {NoBooks}]
          /\ discarded' \subseteq Books \cup {NoBooks}
      BY <1>0, <1>11, <2>2 DEF Discard, RestoreEnds, RestoreTypeOK
    <2>4. owed' \subseteq Cluster' \cup discarded'
      <3>. SUFFICES ASSUME NEW c \in owed, c \notin discarded', c # live
                    PROVE  \E s \in Stamps : displaced'[s] = c
        BY <1>11 DEF Discard, Cluster, backupVars
      <3>1. PICK s \in Stamps : displaced[s] = c
        BY <1>0, <1>11 DEF Discard, NothingDestroyed, Cluster
      <3>2. s # restore.discard
        BY <1>11, <3>1 DEF Discard
      <3>. QED  BY <1>0, <1>11, <3>1, <3>2 DEF Discard, RestoreTypeOK
    <2>. QED  BY <1>0, <1>11, <2>1, <2>3, <2>4
              DEF Discard, backupVars, NotRestoring, RestoreInv, RestoreTypeOK,
                  NothingDestroyed, Phases
  <1>12. CASE RestoreStops
    <2>1. IInv'
      BY <1>0, <1>12, StepIInv DEF RestoreStops
    <2>. QED  BY <1>0, <1>12, <2>1
              DEF RestoreStops, RestoreEnds, backupVars, NotRestoring, RestoreInv,
                  RestoreTypeOK, NothingDestroyed, Phases, Cluster
  <1>. QED  BY <1>1, <1>2, <1>3, <1>4, <1>5, <1>6, <1>7, <1>8, <1>9, <1>10, <1>11, <1>12
            DEF Next, RestoreNext

(* The inductive invariant.                                                *)
THEOREM RestoreInductive == RestoreSpec => []RestoreInv
  BY RestoreInitInv, RestoreStepInv, PTL DEF RestoreSpec

(* restore.ts 23-28: every line of commits stays in a database of the      *)
(* cluster until somebody names that database to --discard-previous.       *)
THEOREM NothingIsDestroyed == RestoreSpec => []NothingDestroyed
  <1>1. RestoreInv => NothingDestroyed
    BY DEF RestoreInv
  <1>. QED  BY <1>1, RestoreInductive, PTL

(* A restore that renames the live database under a backup run does not    *)
(* make it finish a dump it did not complete.                              *)
THEOREM CompleteBesideRestores == RestoreSpec => []FinalIsComplete
  <1>1. RestoreInv => FinalIsComplete
    BY DEF RestoreInv, IInv
  <1>. QED  BY <1>1, RestoreInductive, PTL

(* Every variable of the composition keeps its type.                       *)
THEOREM RestoreTypeCorrect == RestoreSpec => [](TypeOK /\ RestoreTypeOK)
  <1>1. RestoreInv => TypeOK /\ RestoreTypeOK
    BY DEF RestoreInv, IInv
  <1>. QED  BY <1>1, RestoreInductive, PTL

------------------------------------------------------------------------------
(* Nothing is dropped before what was restored is live and whole.          *)
RestoredIsWhole == restore.pc \in {"migrate", "discard"} /\ ~spoiled => live \in States

WayInv == RestoreInv /\ RestoredIsWhole /\ WayBack

LEMMA WayInitInv == RestoreInit => WayInv
  <1> SUFFICES ASSUME RestoreInit PROVE WayInv
    OBVIOUS
  <1>1. live \in States /\ restore.pc = "idle"
    BY RestoreAssumption DEF RestoreInit, NotRestoring
  <1>. QED  BY <1>1, RestoreInitInv DEF WayInv, RestoredIsWhole, WayBack, Cluster

LEMMA WayStepInv ==
  ASSUME WayInv, [Next]_allVars
  PROVE  WayInv'
  <1>0. RestoreInv /\ RestoreTypeOK /\ Phases /\ RestoredIsWhole /\ WayBack
    BY DEF WayInv, RestoreInv
  <1>1. RestoreInv'
    BY <1>0, RestoreStepInv
  <1>2. NoBooks \notin States /\ Empty \notin States /\ Half \notin States
    BY BackupAssumption, RestoreAssumption DEF States
  <1> DEFINE Whole == live' \in States
             Same  == live' = live /\ displaced' = displaced /\ spoiled' = spoiled
             Early == restore'.pc \notin {"migrate", "discard"}
  <1>3. ASSUME Whole PROVE WayInv'
    BY <1>1, <1>3 DEF WayInv, RestoredIsWhole, WayBack, Cluster
  <1>4. ASSUME Same, Early \/ restore' = restore PROVE WayInv'
    BY <1>0, <1>1, <1>4 DEF WayInv, RestoredIsWhole, WayBack, Cluster
  <1>5. ASSUME displaced' = displaced, spoiled' = spoiled, Early, live \notin States
        PROVE  WayInv'
    BY <1>0, <1>1, <1>5 DEF WayInv, RestoredIsWhole, WayBack, Cluster
  <1>6. CASE UNCHANGED allVars
    BY <1>4, <1>6 DEF allVars, backupVars, restoreVars
  <1>7. CASE BackupNext /\ UNCHANGED <<restoreVars, latest>>
    <2>1. live' = live
      BY <1>7 DEF BackupNext, Start, Progress, Crash, MakeDirectory, PgDump, PgDumpExits,
           PgDumpFails, Verify, Rename, WriteChecksum, List, RemoveDump, RemoveSidecar,
           RemoveFails, PruneEnds, Throws, CleanUp, Record, Noted, NoteFails
    <2>. QED  BY <1>4, <1>7, <2>1 DEF restoreVars
  <1>8. CASE Commit
    BY <1>3, <1>8 DEF Commit
  <1>9. CASE RestoreStart
    <2>1. restore'.pc = "verify"
      BY <1>9 DEF RestoreStart
    <2>. QED  BY <1>4, <1>9, <2>1 DEF RestoreStart
  <1>10. CASE VerifyBackupFile
    <2>1. restore'.pc \in {"idle", "rename"}
      BY <1>0, <1>10, RestoringShape
         DEF VerifyBackupFile, RGoto, RestoreEnds, Restoring, NotRestoring
    <2>. QED  BY <1>4, <1>10, <2>1 DEF VerifyBackupFile, backupVars
  <1>11. CASE RenameDatabase
    <2>1. CASE live = NoBooks \/ displaced[restore.stamp] # NoBooks
      <3>1. Same /\ restore'.pc = "idle"
        BY <1>11, <2>1 DEF RenameDatabase, RestoreEnds, NotRestoring
      <3>. QED  BY <1>4, <3>1
    <2>2. CASE ~(live = NoBooks \/ displaced[restore.stamp] # NoBooks)
      <3>1. /\ displaced' = [displaced EXCEPT ![restore.stamp] = live]
            /\ displaced \in [Stamps -> Books \cup {NoBooks}]
            /\ spoiled' = spoiled /\ restore' = [restore EXCEPT !.pc = "create"]
            /\ restore \in Restoring /\ restore.stamp \in Stamps
        BY <1>0, <1>11, <2>2, RestoringShape DEF RenameDatabase, RGoto, RestoreTypeOK
      <3>2. Early
        BY <3>1 DEF Restoring
      <3>3. ASSUME NEW c \in Cluster \cap States PROVE c \in Cluster'
        <4>1. CASE c = live
          BY <3>1, <4>1 DEF Cluster
        <4>2. CASE c # live
          <5>1. PICK s \in Stamps : displaced[s] = c
            BY <3>3, <4>2 DEF Cluster
          <5>2. displaced'[s] = c
            BY <1>2, <2>2, <3>1, <3>3, <5>1
          <5>. QED  BY <5>1, <5>2 DEF Cluster
        <4>. QED  BY <4>1, <4>2
      <3>. QED  BY <1>0, <1>1, <3>1, <3>2, <3>3 DEF WayInv, RestoredIsWhole, WayBack
    <2>. QED  BY <2>1, <2>2
  <1>12. CASE CreateDatabase
    <2>1. live \notin States /\ restore' = [restore EXCEPT !.pc = "load"]
          /\ restore \in Restoring
      BY <1>0, <1>2, <1>12, RestoringShape DEF CreateDatabase, RGoto, Phases
    <2>2. Early
      BY <2>1 DEF Restoring
    <2>. QED  BY <1>5, <1>12, <2>1, <2>2 DEF CreateDatabase
  <1>13. CASE PgRestore
    <2>1. live \notin States /\ restore \in Restoring
      BY <1>0, <1>2, <1>13, RestoringShape DEF PgRestore, Phases
    <2>2. \/ restore' = NotRestoring
          \/ restore' = [restore EXCEPT !.pc = "loading", !.archive = final[restore.file]]
      BY <1>13 DEF PgRestore, RestoreEnds
    <2>3. Early
      <3>1. CASE restore' = NotRestoring
        BY <3>1 DEF NotRestoring
      <3>2. CASE restore' = [restore EXCEPT !.pc = "loading", !.archive = final[restore.file]]
        <4>1. restore'.pc = "loading"
          BY <2>1, <3>2 DEF Restoring
        <4>. QED  BY <4>1
      <3>. QED  BY <2>2, <3>1, <3>2
    <2>. QED  BY <1>5, <1>13, <2>1, <2>3 DEF PgRestore
  <1>14. CASE PgRestoreExits
    <2>1. live' \notin States => spoiled'
      BY <1>14 DEF PgRestoreExits
    <2>. QED  BY <1>1, <1>3, <2>1 DEF WayInv, RestoredIsWhole, WayBack
  <1>15. CASE MigrateUp
    <2>1. Same /\ restore.pc = "migrate"
      BY <1>15 DEF MigrateUp, backupVars
    <2>. QED  BY <1>0, <1>1, <2>1 DEF WayInv, RestoredIsWhole, WayBack, Cluster
  <1>16. CASE Discard
    <2>1. restore.pc = "discard" /\ restore'.pc = "idle" /\ live' = live /\ spoiled' = spoiled
      BY <1>16 DEF Discard, RestoreEnds, NotRestoring, backupVars
    <2>2. ~spoiled => Whole
      BY <1>0, <2>1 DEF RestoredIsWhole
    <2>. QED  BY <1>1, <1>3, <2>1, <2>2 DEF WayInv, RestoredIsWhole, WayBack
  <1>17. CASE RestoreStops
    <2>1. Same /\ Early
      BY <1>17 DEF RestoreStops, RestoreEnds, NotRestoring, backupVars
    <2>. QED  BY <1>4, <2>1
  <1>. QED  BY <1>6, <1>7, <1>8, <1>9, <1>10, <1>11, <1>12, <1>13, <1>14, <1>15, <1>16, <1>17
            DEF Next, RestoreNext

(* However many restores stop half way, and whatever is named for          *)
(* discarding: a database the shop's commits left is in the cluster, until *)
(* somebody restores the archive of an unfinished one.                     *)
THEOREM ThereIsAWayBack == RestoreSpec => []WayBack
  <1>1. WayInv => WayBack
    BY DEF WayInv
  <1>. QED  BY <1>1, WayInitInv, WayStepInv, PTL DEF RestoreSpec

(* A restore writes no backup and removes none; the one pg_dump it breaks  *)
(* claims nothing.                                                         *)
LEMMA KeepRestoreStep ==
  ASSUME KeepInv, RestoreInv, [Next]_allVars
  PROVE  KeepInv' /\ [KeepsCoverage]_backupVars
  <1>1. CASE UNCHANGED allVars
    BY <1>1, KeepStutter DEF allVars, backupVars, files
  <1>2. CASE BackupNext /\ UNCHANGED <<restoreVars, latest>>
    BY <1>2, KeepStep DEF RestoreInv
  <1>3. CASE RestoreNext
    <2>1. UNCHANGED <<files, lastBackup>>
      BY <1>3 DEF RestoreNext, Commit, RestoreStart, VerifyBackupFile, RenameDatabase,
           CreateDatabase, PgRestore, PgRestoreExits, MigrateUp, Discard, RestoreStops,
           backupVars, files
    <2>2. \/ job' = job
          \/ job' = [j \in Jobs |-> IF At(j, "dumping")
                                    THEN [job[j] EXCEPT !.pc = "failing"] ELSE job[j]]
      BY <1>3 DEF RestoreNext, Commit, RestoreStart, VerifyBackupFile, RenameDatabase,
           CreateDatabase, PgRestore, PgRestoreExits, MigrateUp, Discard, RestoreStops,
           backupVars
    <2>3. \A j \in Jobs : job[j] \in {Idle} \cup Running(Steps, Books \cup {Absent})
      BY DEF RestoreInv, IInv, TypeOK
    <2>4. \A j \in Jobs : \/ job'[j] = job[j]
                          \/ /\ Active(j) /\ job'[j].doomed = job[j].doomed
                             /\ ~Claims(job'[j])
      BY <2>2, <2>3 DEF At, Active, Idle, Running, Claims
    <2>. QED  BY <2>1, <2>4, KeepStutter
  <1>. QED  BY <1>1, <1>2, <1>3 DEF Next

LEMMA KeepInitInv == RestoreInit => KeepInv
  <1> SUFFICES ASSUME RestoreInit PROVE KeepInv
    OBVIOUS
  <1>1. lastBackup \notin [ok : {TRUE}, file : Name] /\ \A j \in Jobs : job[j] = Idle
    BY RecordAssumption DEF RestoreInit, Init, LastBackup
  <1>2. ~Claims(Idle)
    BY DEF Claims, Idle
  <1>. QED  BY <1>1, <1>2 DEF KeepInv, DoomedAreReplaceable, ClaimsAreTrue, RecordIsBacked, Active

(* Nothing a running backup has doomed is needed, what is claimed is so,   *)
(* and the record is backed by a file: an invariant of backups and         *)
(* restores together (backup.ts, from listing to the record).              *)
THEOREM KeepInductive == RestoreSpec => [](RestoreInv /\ KeepInv)
  BY RestoreInitInv, RestoreStepInv, KeepInitInv, KeepRestoreStep, PTL DEF RestoreSpec

(* backupState.ts, status screen: as long as last-backup.json says that a  *)
(* backup succeeded, a complete one at least that recent is there, however *)
(* runs overlap and whatever they prune, and whatever fails.               *)
THEOREM TheRecordCanBeBelieved == RestoreSpec => []RecordIsHonest
  <1>1. RestoreInv /\ KeepInv => RecordIsHonest
    BY DEF RestoreInv, IInv, FinalIsComplete, KeepInv, RecordIsBacked, BackedUp, RecordIsHonest,
           Present
  <1>. QED  BY <1>1, KeepInductive, PTL

(* retention.ts 13-27, for any numbers of days and weeks, and any overlap: *)
(* no step leaves a day or a week that counts without its file, or removes *)
(* a tagged one.                                                           *)
THEOREM WhatCountsIsKept == RestoreSpec => CoverageIsKept
  BY RestoreInitInv, RestoreStepInv, KeepInitInv, KeepRestoreStep, PTL
     DEF RestoreSpec, CoverageIsKept

------------------------------------------------------------------------------
(* Migrations.  A runner trusts what it read once: rows are never taken    *)
(* back, so the files below the one it is at stay recorded whoever         *)
(* recorded them.  Nothing is assumed of which files a checkout has.       *)
Places == {"off", "ensure", "fetch", "sql", "record", "done", "failed",
           "waiting", "asserting", "serving"}

MigrateTypeOK ==
  /\ checkout \in [Procs -> Checkouts]
  /\ pin \in [Servers -> Versions \cup {None}]
  /\ at \in [Procs -> Places]
  /\ version \in [Runners -> Nat]
  /\ applied \in [Runners -> SUBSET Versions]
  /\ recorded \in [Versions -> {None, "original", "edited"}]
  /\ effects \subseteq Versions
  /\ table \in BOOLEAN /\ up \in BOOLEAN
  /\ stray \in [Runners -> Versions \cup {None}]

(* What is recorded is in force.                                           *)
RecordIsTrue == Recorded \subseteq effects

(* What a runner read is still recorded.                                   *)
ReadIsRecorded == \A p \in Runners : applied[p] \subseteq Recorded

(* The files of a checkout below one of them.                              *)
Lower(c, v) == UpTo(c, v) \ {v}

(* What is in force came with a build all of whose lower files are recorded.*)
EachOnItsBuild ==
  \A v \in effects : \E c \in Checkouts : v \in c.files /\ Lower(c, v) \subseteq Recorded

(* A runner is at a file of its checkout, with all lower ones recorded.    *)
Turn(p) == version[p] \in checkout[p].files /\ Lower(checkout[p], version[p]) \subseteq Recorded

AtItsTurn ==
  \A p \in Runners : /\ at[p] \in {"sql", "record"} => Turn(p)
                     /\ at[p] = "record" => version[p] \in effects

MigrateInv ==
  MigrateTypeOK /\ EachOnItsBuild /\ ServesItsSchema /\ RecordIsTrue /\ ReadIsRecorded /\ AtItsTurn

(* The versions and the files of a checkout are numbers.                   *)
LEMMA FilesAreVersions ==
  /\ Versions \subseteq Nat
  /\ \A c \in Checkouts : c.files \subseteq Versions
  BY MigrateAssumption DEF Versions, Checkout

LEMMA MigrateInitInv == MigrateInit => MigrateInv
  <1> SUFFICES ASSUME MigrateInit PROVE MigrateInv
    OBVIOUS
  <1>1. MigrateTypeOK
    BY MigrateAssumption DEF MigrateInit, MigrateTypeOK, Places
  <1>2. Recorded = {}
    BY DEF MigrateInit, Recorded
  <1>3. \A p \in Procs : at[p] = "off"
    BY DEF MigrateInit
  <1>. QED  BY <1>1, <1>2, <1>3 DEF MigrateInit, MigrateInv, EachOnItsBuild, ServesItsSchema,
                RecordIsTrue, ReadIsRecorded, AtItsTurn, Procs

(* What is in force only grows, and a server that serves keeps its pin.    *)
LEMMA ServingStays ==
  ASSUME ServesItsSchema, effects \subseteq effects',
         \A s \in Servers : at'[s] = "serving" => at[s] = "serving" /\ pin'[s] = pin[s]
  PROVE  ServesItsSchema'
  BY DEF ServesItsSchema, UpTo

(* A step that leaves the database alone and starts nobody at a migration. *)
LEMMA DatabaseAlone ==
  ASSUME MigrateInv, MigrateTypeOK', UNCHANGED <<recorded, effects>>,
         \A p \in Runners : applied'[p] \subseteq Recorded,
         \A p \in Runners : at'[p] \in {"sql", "record"} =>
           at'[p] = at[p] /\ version'[p] = version[p] /\ checkout'[p] = checkout[p],
         ServesItsSchema'
  PROVE  MigrateInv'
  <1>1. Recorded' = Recorded
    BY DEF Recorded
  <1>2. EachOnItsBuild' /\ RecordIsTrue'
    BY <1>1 DEF MigrateInv, EachOnItsBuild, RecordIsTrue, Lower, UpTo
  <1>4. AtItsTurn'
    BY <1>1 DEF MigrateInv, AtItsTurn, Turn, Lower, UpTo
  <1>. QED  BY <1>1, <1>2, <1>4 DEF MigrateInv, ReadIsRecorded

LEMMA MigrateStepInv ==
  ASSUME MigrateInv, [MigrateNext]_vars
  PROVE  MigrateInv'
  <1>0. /\ MigrateTypeOK /\ ServesItsSchema
        /\ Runners \subseteq Procs /\ Servers \subseteq Procs
        /\ \A r \in Runners, s \in Servers : r # s
        /\ \A p \in Procs : checkout[p] \in Checkouts /\ checkout[p].files \subseteq Versions
    BY MigrateAssumption, FilesAreVersions DEF MigrateInv, MigrateTypeOK, Procs
  <1>1. CASE UNCHANGED vars
    <2>1. MigrateTypeOK'
      BY <1>0, <1>1 DEF MigrateTypeOK, vars
    <2>2. ServesItsSchema'
      BY <1>0, <1>1, ServingStays DEF vars
    <2>. QED  BY <1>1, <2>1, <2>2, DatabaseAlone DEF vars, MigrateInv, ReadIsRecorded
  <1>2. ASSUME NEW p \in Runners, Run(p) PROVE MigrateInv'
    <2>1. MigrateTypeOK'
      BY <1>0, <1>2, MigrateAssumption DEF MigrateTypeOK, Run, Goes, database, Places
    <2>2. ServesItsSchema'
      BY <1>0, <1>2, ServingStays DEF Run, Goes, database, MigrateTypeOK
    <2>. QED  BY <1>0, <1>2, <2>1, <2>2, DatabaseAlone
              DEF Run, Goes, database, MigrateInv, ReadIsRecorded, MigrateTypeOK
  <1>3. ASSUME NEW p \in Runners, ensureMigrationsTable(p) PROVE MigrateInv'
    <2>1. MigrateTypeOK'
      BY <1>0, <1>3 DEF MigrateTypeOK, ensureMigrationsTable, Goes, Places
    <2>2. ServesItsSchema'
      BY <1>0, <1>3, ServingStays DEF ensureMigrationsTable, Goes, MigrateTypeOK
    <2>. QED  BY <1>0, <1>3, <2>1, <2>2, DatabaseAlone
              DEF ensureMigrationsTable, Goes, MigrateInv, ReadIsRecorded, MigrateTypeOK
  <1>4. ASSUME NEW p \in Runners, fetchApplied(p) PROVE MigrateInv'
    <2>0. /\ applied' = [applied EXCEPT ![p] = Recorded]
          /\ UNCHANGED <<checkout, pin, table, recorded, effects, up, stray>>
          /\ Recorded' = Recorded /\ Recorded \subseteq Versions
      BY <1>4 DEF fetchApplied, database, Recorded
    <2>1. \/ at' = [at EXCEPT ![p] = "failed"] /\ version' = version
          \/ at' = [at EXCEPT ![p] = "done"] /\ version' = version
          \/ /\ at' = [at EXCEPT ![p] = "sql"]
             /\ \E v \in Versions : /\ version' = [version EXCEPT ![p] = v]
                                    /\ IsFirst(v, checkout[p].files \ Recorded)
      BY <1>4 DEF fetchApplied, Goes
    <2>2. MigrateTypeOK'
      BY <1>0, <2>0, <2>1, FilesAreVersions DEF MigrateTypeOK, Places
    <2>3. ServesItsSchema'
      BY <1>0, <2>0, <2>1, ServingStays DEF MigrateTypeOK
    <2>4. \A q \in Runners : applied'[q] \subseteq Recorded
      BY <1>0, <2>0 DEF MigrateInv, ReadIsRecorded, MigrateTypeOK
    <2>5. CASE version' = version /\ at'[p] \in {"failed", "done"}
      BY <1>0, <2>0, <2>1, <2>2, <2>3, <2>4, <2>5, DatabaseAlone DEF MigrateTypeOK
    <2>6. ASSUME NEW v \in Versions, IsFirst(v, checkout[p].files \ Recorded),
                 at' = [at EXCEPT ![p] = "sql"], version' = [version EXCEPT ![p] = v]
          PROVE  MigrateInv'
      <3>1. v \in checkout[p].files /\ Lower(checkout[p], v) \subseteq Recorded
        <4>1. v \in checkout[p].files
          BY <2>6 DEF IsFirst
        <4>2. ASSUME NEW u \in Lower(checkout[p], v), u \notin Recorded PROVE FALSE
          <5>1. u \in checkout[p].files /\ u <= v /\ u # v
            BY <4>2 DEF Lower, UpTo
          <5>2. v <= u
            BY <2>6, <4>2, <5>1 DEF IsFirst
          <5>3. u \in Nat /\ v \in Nat
            BY <1>0, <5>1, FilesAreVersions
          <5>. QED  BY <5>1, <5>2, <5>3
        <4>. QED  BY <4>1, <4>2
      <3>2. AtItsTurn'
        <4>. SUFFICES ASSUME NEW q \in Runners
                      PROVE  /\ at'[q] \in {"sql", "record"} =>
                                   /\ version'[q] \in checkout[q].files
                                   /\ Lower(checkout[q], version'[q]) \subseteq Recorded
                             /\ at'[q] = "record" => version'[q] \in effects
          BY <2>0 DEF AtItsTurn, Turn, Lower, UpTo
        <4>1. CASE q = p
          BY <1>0, <2>6, <3>1, <4>1 DEF MigrateTypeOK
        <4>2. CASE q # p
          BY <1>0, <2>6, <4>2 DEF MigrateTypeOK, MigrateInv, AtItsTurn, Turn
        <4>. QED  BY <4>1, <4>2
      <3>3. EachOnItsBuild' /\ RecordIsTrue'
        BY <2>0 DEF MigrateInv, EachOnItsBuild, RecordIsTrue, Lower, UpTo
      <3>. QED  BY <2>0, <2>2, <2>3, <2>4, <3>2, <3>3 DEF MigrateInv, ReadIsRecorded
    <2>7. at' = [at EXCEPT ![p] = "failed"] \/ at' = [at EXCEPT ![p] = "done"]
          => at'[p] \in {"failed", "done"}
      BY <1>0 DEF MigrateTypeOK
    <2>. QED  BY <2>1, <2>5, <2>6, <2>7
  <1>5. ASSUME NEW p \in Runners, RunSql(p) PROVE MigrateInv'
    <2>0. /\ at[p] = "sql" /\ UNCHANGED <<checkout, pin, version, applied, table, recorded, up>>
          /\ Recorded' = Recorded /\ Turn(p) /\ version[p] \in Versions
          /\ checkout[p] \in Checkouts
      BY <1>0, <1>5 DEF RunSql, Recorded, MigrateInv, AtItsTurn, Turn
    <2>1. CASE effects' = effects \cup {version[p]} /\ stray' = [stray EXCEPT ![p] = version[p]]
               /\ at' = [at EXCEPT ![p] = "record"]
      <3>1. MigrateTypeOK'
        BY <1>0, <2>0, <2>1 DEF MigrateTypeOK, Places
      <3>2. EachOnItsBuild'
        BY <2>0, <2>1 DEF MigrateInv, EachOnItsBuild, Turn, Lower, UpTo
      <3>3. ServesItsSchema'
        BY <1>0, <2>0, <2>1, ServingStays DEF MigrateTypeOK
      <3>4. RecordIsTrue' /\ ReadIsRecorded'
        BY <2>0, <2>1 DEF MigrateInv, RecordIsTrue, ReadIsRecorded
      <3>5. AtItsTurn'
        BY <1>0, <2>0, <2>1 DEF MigrateInv, AtItsTurn, Turn, MigrateTypeOK, Lower, UpTo
      <3>. QED  BY <3>1, <3>2, <3>3, <3>4, <3>5 DEF MigrateInv
    <2>2. CASE at' = [at EXCEPT ![p] = "failed"] /\ UNCHANGED <<effects, stray>>
      <3>1. MigrateTypeOK'
        BY <1>0, <2>0, <2>2 DEF MigrateTypeOK, Places
      <3>2. ServesItsSchema'
        BY <1>0, <2>0, <2>2, ServingStays DEF MigrateTypeOK
      <3>. QED  BY <1>0, <2>0, <2>2, <3>1, <3>2, DatabaseAlone
                DEF MigrateInv, ReadIsRecorded, MigrateTypeOK
    <2>. QED  BY <1>5, <2>1, <2>2 DEF RunSql, Goes
  <1>6. ASSUME NEW p \in Runners, RecordVersion(p) PROVE MigrateInv'
    <2>0. /\ at[p] = "record" /\ UNCHANGED <<checkout, pin, applied, table, effects, up>>
          /\ Turn(p) /\ version[p] \in effects /\ version[p] \in Versions
      BY <1>0, <1>6 DEF RecordVersion, MigrateInv, AtItsTurn, Turn
    <2>1. CASE recorded[version[p]] # None /\ at' = [at EXCEPT ![p] = "failed"]
               /\ UNCHANGED <<recorded, stray, version>>
      <3>1. MigrateTypeOK'
        BY <1>0, <2>0, <2>1 DEF MigrateTypeOK, Places
      <3>2. ServesItsSchema'
        BY <1>0, <2>0, <2>1, ServingStays DEF MigrateTypeOK
      <3>. QED  BY <1>0, <2>0, <2>1, <3>1, <3>2, DatabaseAlone
                DEF MigrateInv, ReadIsRecorded, MigrateTypeOK
    <2>2. CASE /\ recorded' = [recorded EXCEPT ![version[p]] = checksum(p, version[p])]
               /\ stray' = [stray EXCEPT ![p] = None]
               /\ \/ Later(p) = {} /\ at' = [at EXCEPT ![p] = "done"] /\ UNCHANGED version
                  \/ /\ \E v \in Versions : IsFirst(v, Later(p)) /\ version' = [version EXCEPT ![p] = v]
                     /\ at' = [at EXCEPT ![p] = "sql"]
      <3>0. checksum(p, version[p]) \in {"original", "edited"}
        BY DEF checksum
      <3>1. Recorded' = Recorded \cup {version[p]}
        BY <1>0, <2>0, <2>2, <3>0, MigrateAssumption DEF Recorded, MigrateTypeOK
      <3>2. MigrateTypeOK'
        BY <1>0, <2>0, <2>2, <3>0, FilesAreVersions DEF MigrateTypeOK, Places
      <3>3. EachOnItsBuild'
        BY <2>0, <3>1 DEF MigrateInv, EachOnItsBuild, Lower, UpTo
      <3>4. RecordIsTrue' /\ ReadIsRecorded'
        BY <2>0, <3>1 DEF MigrateInv, RecordIsTrue, ReadIsRecorded
      <3>5. ServesItsSchema'
        BY <1>0, <2>0, <2>2, ServingStays DEF MigrateTypeOK
      <3>6. ASSUME NEW v \in Versions, IsFirst(v, Later(p))
            PROVE  v \in checkout[p].files /\ Lower(checkout[p], v) \subseteq Recorded'
        <4>1. v \in checkout[p].files
          BY <3>6 DEF IsFirst, Later, Pending
        <4>2. ASSUME NEW u \in Lower(checkout[p], v) PROVE u \in Recorded'
          <5>0. u \in checkout[p].files /\ u \in Nat /\ v \in Nat /\ u < v /\ version[p] \in Nat
            <6>1. u \in checkout[p].files /\ u <= v /\ u # v
              BY <4>2 DEF Lower, UpTo
            <6>2. u \in Nat /\ v \in Nat /\ version[p] \in Nat
              BY <1>0, <2>0, <6>1, FilesAreVersions
            <6>. QED  BY <6>1, <6>2
          <5>1. CASE u < version[p]
            BY <2>0, <3>1, <5>0, <5>1 DEF Turn, Lower, UpTo
          <5>2. CASE u = version[p]
            BY <3>1, <5>2
          <5>3. CASE u > version[p]
            <6>1. u \notin Later(p)
              BY <3>6, <5>0 DEF IsFirst
            <6>2. u \in applied[p]
              BY <5>0, <5>3, <6>1 DEF Later, Pending
            <6>. QED  BY <3>1, <6>2 DEF MigrateInv, ReadIsRecorded
          <5>. QED  BY <5>0, <5>1, <5>2, <5>3
        <4>. QED  BY <4>1, <4>2
      <3>7. AtItsTurn'
        <4>. SUFFICES ASSUME NEW q \in Runners
                      PROVE  /\ at'[q] \in {"sql", "record"} =>
                                   /\ version'[q] \in checkout[q].files
                                   /\ Lower(checkout[q], version'[q]) \subseteq Recorded'
                             /\ at'[q] = "record" => version'[q] \in effects
          BY <2>0 DEF AtItsTurn, Turn, Lower, UpTo
        <4>1. CASE q = p
          BY <1>0, <2>2, <3>6, <4>1 DEF MigrateTypeOK
        <4>2. CASE q # p
          BY <1>0, <2>2, <3>1, <4>2 DEF MigrateTypeOK, MigrateInv, AtItsTurn, Turn
        <4>. QED  BY <4>1, <4>2
      <3>. QED  BY <3>2, <3>3, <3>4, <3>5, <3>7 DEF MigrateInv
    <2>. QED  BY <1>6, <2>1, <2>2 DEF RecordVersion, Goes
  <1>7. ASSUME NEW p \in Runners, Breaks(p) PROVE MigrateInv'
    <2>1. MigrateTypeOK'
      BY <1>0, <1>7 DEF MigrateTypeOK, Breaks, Goes, database, Places
    <2>2. ServesItsSchema'
      BY <1>0, <1>7, ServingStays DEF Breaks, Goes, database, MigrateTypeOK
    <2>. QED  BY <1>0, <1>7, <2>1, <2>2, DatabaseAlone
              DEF Breaks, Goes, database, MigrateInv, ReadIsRecorded, MigrateTypeOK
  <1>8. ASSUME NEW s \in Servers, Boot(s) \/ waitForDatabase(s) \/ Stop(s) PROVE MigrateInv'
    <2>1. MigrateTypeOK'
      BY <1>0, <1>8, MigrateAssumption
         DEF MigrateTypeOK, Boot, waitForDatabase, AfterTheWait, Stop, Goes, database, Places
    <2>2. ServesItsSchema'
      BY <1>0, <1>8
         DEF ServesItsSchema, UpTo, Boot, waitForDatabase, AfterTheWait, Stop, Goes, database, MigrateTypeOK
    <2>. QED  BY <1>0, <1>8, <2>1, <2>2, DatabaseAlone
              DEF Boot, waitForDatabase, Stop, Goes, database, MigrateInv, ReadIsRecorded, MigrateTypeOK
  <1>9. ASSUME NEW s \in Servers, assertSchemaVersion(s) PROVE MigrateInv'
    <2>0. UNCHANGED <<checkout, pin, version, applied, table, recorded, effects, up, stray>>
      BY <1>9 DEF assertSchemaVersion, database
    <2>1. \/ at' = [at EXCEPT ![s] = "failed"]
          \/ at' = [at EXCEPT ![s] = "serving"] /\ SchemaVersionIs(pin[s])
      BY <1>9 DEF assertSchemaVersion, Goes
    <2>2. MigrateTypeOK'
      BY <1>0, <2>0, <2>1 DEF MigrateTypeOK, Places
    <2>3. SchemaVersionIs(pin[s]) =>
            \E c \in Checkouts : pin[s] \in c.files /\ UpTo(c, pin[s]) \subseteq effects
      BY DEF SchemaVersionIs, MigrateInv, RecordIsTrue, EachOnItsBuild, Lower
    <2>4. ServesItsSchema'
      BY <1>0, <2>0, <2>1, <2>3 DEF ServesItsSchema, UpTo, MigrateTypeOK
    <2>. QED  BY <1>0, <2>0, <2>1, <2>2, <2>4, DatabaseAlone
              DEF MigrateInv, ReadIsRecorded, MigrateTypeOK
  <1>10. CASE Outage \/ Recovery
    <2>1. MigrateTypeOK'
      BY <1>0, <1>10 DEF MigrateTypeOK, Outage, Recovery
    <2>2. ServesItsSchema'
      BY <1>0, <1>10, ServingStays DEF Outage, Recovery
    <2>. QED  BY <1>10, <2>1, <2>2, DatabaseAlone DEF Outage, Recovery, MigrateInv, ReadIsRecorded
  <1>. QED  BY <1>1, <1>2, <1>3, <1>4, <1>5, <1>6, <1>7, <1>8, <1>9, <1>10
            DEF MigrateNext, Migrates, Serves

(* The inductive invariant.                                                *)
THEOREM MigrateInductive == MigrateSpec => []MigrateInv
  BY MigrateInitInv, MigrateStepInv, PTL DEF MigrateSpec

(* migrator.ts 7-20, 126-156: no file is applied before the lower ones of  *)
(* its checkout are recorded, however runners overlap and break off, and   *)
(* whichever files the checkouts have.                                     *)
THEOREM MigrationsAreInOrder == MigrateSpec => InOrder
  <1>1. MigrateInv /\ [MigrateNext]_vars
        => [\A p \in Runners : at[p] = "sql" /\ at'[p] = "record" =>
              UpTo(checkout[p], version[p]) \ {version[p]} \subseteq Recorded]_vars
    BY DEF MigrateInv, AtItsTurn, Turn, Lower
  <1>. QED  BY <1>1, MigrateInductive, PTL DEF MigrateSpec, InOrder

(* main.ts 36-40, migrator.ts 178-199: the highest number recorded, when   *)
(* it is the pin, speaks for all that one of the builds has below it.      *)
THEOREM ServersHaveTheirSchema == MigrateSpec => []ServesItsSchema
  <1>1. MigrateInv => ServesItsSchema
    BY DEF MigrateInv
  <1>. QED  BY <1>1, MigrateInductive, PTL

(* docs/06-operations/local-development.md 75-76: a new migration is       *)
(* "numbered after the last one", so that builds agree on what is below    *)
(* what any of them has.  Nothing checks it.                               *)
NumberedAfterTheLast ==
  \A c, d \in Checkouts : \A v \in c.files, u \in d.files : u < v => u \in c.files

(* Under that convention a pinned server stands on its own files, which    *)
(* main.ts 21-22 takes the one number for.                                 *)
THEOREM ByConventionNeverHalfDeployed ==
  ASSUME NumberedAfterTheLast
  PROVE  MigrateSpec => []NeverHalfDeployed
  <1>1. MigrateInv => NeverHalfDeployed
    <2> SUFFICES ASSUME MigrateInv, NEW s \in Servers, at[s] = "serving", pin[s] # None,
                        NEW u \in UpTo(checkout[s], pin[s])
                 PROVE  u \in effects
      BY DEF NeverHalfDeployed
    <2>1. PICK c \in Checkouts : pin[s] \in c.files /\ UpTo(c, pin[s]) \subseteq effects
      BY DEF MigrateInv, ServesItsSchema
    <2>2. checkout[s] \in Checkouts
      BY DEF MigrateInv, MigrateTypeOK, Procs
    <2>3. u \in checkout[s].files /\ u \in Nat /\ pin[s] \in Nat /\ u <= pin[s]
      BY <2>1, <2>2, FilesAreVersions DEF UpTo
    <2>4. u \in c.files
      BY <2>1, <2>2, <2>3 DEF NumberedAfterTheLast
    <2>. QED  BY <2>1, <2>3, <2>4 DEF UpTo
  <1>. QED  BY <1>1, MigrateInductive, PTL
=============================================================================
