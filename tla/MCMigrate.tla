-------------------------------- MODULE MCMigrate --------------------------------
(***************************************************************************)
(* Three migrations, the first of which may be run twice; two runners and  *)
(* a server, of this build or an earlier one, pinned or not.  One file was *)
(* edited, and one build was cut before the second file came to be.        *)
(***************************************************************************)
EXTENDS Migrate

CONSTANTS r1, r2, s1

MCCheckouts == {[files |-> {1, 2, 3}, edited |-> {}], [files |-> {1, 2}, edited |-> {}],
                [files |-> {1, 3}, edited |-> {}], [files |-> {1, 2, 3}, edited |-> {1}]}

MCPins == {None, 2, 3}

(* Nothing is left to run.                                                 *)
Terminated ==
  /\ runs = MaxRuns /\ \A p \in Procs : at[p] \in {"off", "done", "failed", "serving"}
  /\ UNCHANGED vars

MCSpec == MigrateInit /\ [][MigrateNext \/ Terminated]_vars
=============================================================================
