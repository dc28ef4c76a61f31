--------------------------------- MODULE Migrate ---------------------------------
(***************************************************************************)
(* Migrations and the boot (backend/src/platform/db/migrator.ts,           *)
(* readiness.ts, main.ts): runners that may run side by side, each with    *)
(* the files of its checkout, and servers that refuse a schema that is not *)
(* the one they are pinned to; a server without a pin, as development and  *)
(* tests may have it, asks nothing.                                        *)
(*                                                                         *)
(* Every file of backend/migrations opens and commits a transaction of its *)
(* own.  Inside the runner's transaction that COMMIT is the runner's: the  *)
(* row in schema_migrations is inserted after it, by a statement that      *)
(* stands alone.                                                           *)
(***************************************************************************)
EXTENDS Naturals, FiniteSets

CONSTANTS
  Runners,       \* processes that migrate
  Servers,       \* processes that serve
  Head,          \* the newest version there is a file for; versions are 1..Head
  Checkouts,     \* what a process may be built from: [files, edited]
  Pins,          \* what EXPECTED_SCHEMA_VERSION may be; None when it is not set
  Repeatable,    \* the versions whose SQL succeeds a second time
  MaxRuns,       \* bound: runs and boots
  MaxFaults,     \* bound: crashes, broken connections, outages
  None

Versions == 1..Head
Procs == Runners \cup Servers

(* loadMigrations: one file for each version there is, whichever those are *)
(* - a checkout with two for one, or with a misnamed one, is not loaded.   *)
(* Some may have been edited after they were applied elsewhere.            *)
Checkout == [files : SUBSET Versions, edited : SUBSET Versions]

ASSUME MigrateAssumption ==
  /\ Head \in Nat /\ MaxRuns \in Nat /\ MaxFaults \in Nat
  /\ Checkouts \subseteq Checkout
  /\ Pins \subseteq Versions \cup {None} /\ None \notin Versions
  /\ Repeatable \subseteq Versions
  /\ Runners \cap Servers = {}
  /\ None \notin {"original", "edited"}

VARIABLES
  checkout,   \* [Procs -> the build it runs]
  pin,        \* [Servers -> the version it is pinned to, or None]
  at,         \* [Procs -> what it does next]
  version,    \* [Runners -> the migration it is at]
  applied,    \* [Runners -> what it read in schema_migrations]
  table,      \* schema_migrations exists
  recorded,   \* [Versions -> the checksum in schema_migrations, or None]
  effects,    \* the versions whose SQL is in force
  up,         \* the database answers
  runs, faults,
  stray       \* [Runners -> the version whose SQL this run committed and did not record]

vars == <<checkout, pin, at, version, applied, table, recorded, effects, up, runs, faults, stray>>

MigrateInit ==
  /\ \E c \in Checkouts : checkout = [p \in Procs |-> c]
  /\ pin = [s \in Servers |-> None]
  /\ at = [p \in Procs |-> "off"]
  /\ version = [p \in Runners |-> 1]
  /\ applied = [p \in Runners |-> {}]
  /\ table = FALSE
  /\ recorded = [v \in Versions |-> None]
  /\ effects = {}
  /\ up = TRUE /\ runs = 0 /\ faults = 0
  /\ stray = [p \in Runners |-> None]

checksum(p, v) == IF v \in checkout[p].edited THEN "edited" ELSE "original"

Recorded == {v \in Versions : recorded[v] # None}

Pending(p) == checkout[p].files \ applied[p]

Goes(p, next) == at' = [at EXCEPT ![p] = next]

database == <<table, recorded, effects, up>>

----------------------------------------------------------------------------
(* migrateUp.                                                              *)

(* A run of whatever is checked out by then.                               *)
Run(p) ==
  /\ at[p] \in {"off", "done", "failed"} /\ runs < MaxRuns
  /\ runs' = runs + 1
  /\ \E c \in Checkouts : checkout' = [checkout EXCEPT ![p] = c]
  /\ Goes(p, "ensure")
  /\ stray' = [stray EXCEPT ![p] = None]
  /\ UNCHANGED <<pin, version, applied, database, faults>>

(* CREATE TABLE IF NOT EXISTS; two that find no table at once may both     *)
(* create it, and one of them fails.                                       *)
ensureMigrationsTable(p) ==
  /\ at[p] = "ensure" /\ up
  /\ \/ table' = TRUE /\ Goes(p, "fetch")
     \/ /\ \E q \in Runners \ {p} : at[q] \in {"ensure", "fetch"}
        /\ Goes(p, "failed") /\ UNCHANGED table
  /\ UNCHANGED <<checkout, pin, version, applied, recorded, effects, up, runs, faults, stray>>

(* A version without a file, or a file that is not what was applied.       *)
Mismatch(p) ==
  \E v \in Recorded : v \notin checkout[p].files \/ recorded[v] # checksum(p, v)

(* Defect: the names as the directory lists them, without the sort.        *)
DefectTakesFilesAsListed(p) ==
  /\ at[p] = "fetch" /\ up
  /\ applied' = [applied EXCEPT ![p] = Recorded]
  /\ IF Mismatch(p) THEN Goes(p, "failed") /\ UNCHANGED version
     ELSE \/ checkout[p].files \subseteq Recorded /\ Goes(p, "done") /\ UNCHANGED version
          \/ /\ \E v \in checkout[p].files \ Recorded : version' = [version EXCEPT ![p] = v]
             /\ Goes(p, "sql")
  /\ UNCHANGED <<checkout, pin, database, runs, faults, stray>>

IsFirst(v, S) == v \in S /\ \A u \in S : v <= u

fetchApplied(p) ==
  /\ at[p] = "fetch" /\ up
  /\ applied' = [applied EXCEPT ![p] = Recorded]
  /\ LET pending == checkout[p].files \ Recorded
     IN \/ Mismatch(p) /\ Goes(p, "failed") /\ UNCHANGED version
        \/ ~Mismatch(p) /\ pending = {} /\ Goes(p, "done") /\ UNCHANGED version
        \/ /\ ~Mismatch(p)
           /\ \E v \in Versions : IsFirst(v, pending) /\ version' = [version EXCEPT ![p] = v]
           /\ Goes(p, "sql")
  /\ UNCHANGED <<checkout, pin, database, runs, faults, stray>>

(* BEGIN and the file.  What another runner is creating is waited for, and *)
(* most files fail on what is already there; a file that fails has not yet *)
(* reached its COMMIT.                                                     *)
RunSql(p) ==
  /\ at[p] = "sql" /\ up
  /\ \/ /\ version[p] \notin effects \/ version[p] \in Repeatable
        /\ effects' = effects \cup {version[p]}
        /\ stray' = [stray EXCEPT ![p] = version[p]]
        /\ Goes(p, "record")
     \/ /\ version[p] \in effects /\ version[p] \notin Repeatable
        /\ Goes(p, "failed") /\ UNCHANGED <<effects, stray>>
  /\ UNCHANGED <<checkout, pin, version, applied, table, recorded, up, runs, faults>>

Later(p) == {v \in Pending(p) : v > version[p]}

(* The row; its primary key is the only thing two runners have in common.  *)
RecordVersion(p) ==
  /\ at[p] = "record" /\ up
  /\ \/ /\ recorded[version[p]] = None
        /\ recorded' = [recorded EXCEPT ![version[p]] = checksum(p, version[p])]
        /\ stray' = [stray EXCEPT ![p] = None]
        /\ \/ Later(p) = {} /\ Goes(p, "done") /\ UNCHANGED version
           \/ /\ \E v \in Versions : IsFirst(v, Later(p)) /\ version' = [version EXCEPT ![p] = v]
              /\ Goes(p, "sql")
     \/ /\ recorded[version[p]] # None
        /\ Goes(p, "failed") /\ UNCHANGED <<recorded, stray, version>>
  /\ UNCHANGED <<checkout, pin, applied, table, effects, up, runs, faults>>

(* A broken connection or a killed process, wherever the runner is.        *)
Breaks(p) ==
  /\ at[p] \in {"ensure", "fetch", "sql", "record"} /\ faults < MaxFaults
  /\ faults' = faults + 1
  /\ Goes(p, "failed")
  /\ UNCHANGED <<checkout, pin, version, applied, database, runs, stray>>

----------------------------------------------------------------------------
(* The boot: wait for the database, then insist on the schema one is       *)
(* pinned to.  The pin is a setting or a line of the build's version file, *)
(* and need not be the newest of its files.                                *)

Boot(s) ==
  /\ at[s] \in {"off", "failed"} /\ runs < MaxRuns
  /\ runs' = runs + 1
  /\ \E c \in Checkouts : checkout' = [checkout EXCEPT ![s] = c]
  /\ \E v \in Pins : pin' = [pin EXCEPT ![s] = v]
  /\ Goes(s, "waiting")
  /\ UNCHANGED <<version, applied, database, faults, stray>>

(* Without a pin nothing is asserted.                                      *)
AfterTheWait(s) == IF pin[s] = None THEN "serving" ELSE "asserting"

(* SELECT 1 again and again until it succeeds or the deadline has passed.  *)
waitForDatabase(s) ==
  /\ at[s] = "waiting"
  /\ \/ up /\ Goes(s, AfterTheWait(s))
     \/ ~up /\ Goes(s, "failed")
  /\ UNCHANGED <<checkout, pin, version, applied, database, runs, faults, stray>>

(* The highest version recorded; there may be none.                        *)
SchemaVersionIs(v) == v \in Recorded /\ \A u \in Recorded : u <= v

(* Defect: a schema that is not ahead of the pin will do.                  *)
DefectAcceptsAnOldSchema(s) ==
  /\ at[s] = "asserting" /\ up
  /\ Goes(s, IF table /\ \A u \in Recorded : u <= pin[s] THEN "serving" ELSE "failed")
  /\ UNCHANGED <<checkout, pin, version, applied, database, runs, faults, stray>>

(* Without the table the query throws.                                     *)
assertSchemaVersion(s) ==
  /\ at[s] = "asserting" /\ up
  /\ Goes(s, IF table /\ SchemaVersionIs(pin[s]) THEN "serving" ELSE "failed")
  /\ UNCHANGED <<checkout, pin, version, applied, database, runs, faults, stray>>

(* SIGTERM, or a crash.                                                    *)
Stop(s) ==
  /\ at[s] \in {"waiting", "asserting", "serving"}
  /\ Goes(s, "off")
  /\ UNCHANGED <<checkout, pin, version, applied, database, runs, faults, stray>>

Outage ==
  /\ up /\ faults < MaxFaults
  /\ up' = FALSE /\ faults' = faults + 1
  /\ UNCHANGED <<checkout, pin, at, version, applied, table, recorded, effects, runs, stray>>

Recovery ==
  /\ ~up /\ up' = TRUE
  /\ UNCHANGED <<checkout, pin, at, version, applied, table, recorded, effects, runs, faults, stray>>

Migrates(p) == Run(p) \/ ensureMigrationsTable(p) \/ fetchApplied(p) \/ RunSql(p)
               \/ RecordVersion(p) \/ Breaks(p)

Serves(s) == Boot(s) \/ waitForDatabase(s) \/ assertSchemaVersion(s) \/ Stop(s)

MigrateNext == \/ \E p \in Runners : Migrates(p)
               \/ \E s \in Servers : Serves(s)
               \/ Outage \/ Recovery

MigrateSpec == MigrateInit /\ [][MigrateNext]_vars

----------------------------------------------------------------------------
(* What the runner and the boot promise.                                   *)

UpTo(c, v) == {u \in c.files : u <= v}

(* No file is applied before every lower one of its checkout is recorded,  *)
(* whoever recorded those and wherever runs broke off (migrator.ts:11-12,  *)
(* 126-135).  A lower file that only comes to be later is not among them.  *)
InOrder ==
  [][\A p \in Runners : at[p] = "sql" /\ at'[p] = "record" =>
       UpTo(checkout[p], version[p]) \ {version[p]} \subseteq Recorded]_vars

(* A server that is pinned and accepts requests stands on everything some  *)
(* build has up to the pin, not only on the one number that was compared   *)
(* (migrator.ts:178-199): no run that broke off half-way passes for it.    *)
ServesItsSchema ==
  \A s \in Servers : at[s] = "serving" /\ pin[s] # None =>
    \E c \in Checkouts : pin[s] \in c.files /\ UpTo(c, pin[s]) \subseteq effects

(* It stands on its own files: "a half-deployed instance must not accept a *)
(* single inventory write" (main.ts:21-22, migrator.ts:187-189).           *)
NeverHalfDeployed ==
  \A s \in Servers : at[s] = "serving" /\ pin[s] # None => UpTo(checkout[s], pin[s]) \subseteq effects

(* What a run says was rolled back has left nothing of the migration it    *)
(* failed on (migrator.ts:10-11, 148).                                     *)
FailedIsRolledBack == \A p \in Runners : at[p] = "failed" => stray[p] = None
=============================================================================
