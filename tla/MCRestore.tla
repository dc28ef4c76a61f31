-------------------------------- MODULE MCRestore --------------------------------
(***************************************************************************)
(* Two backup runs that may overlap, one operator who restores, and a shop *)
(* that goes on writing: three days in two weeks, so that a backup may be  *)
(* kept for its day, for its week alone, or for neither.                   *)
(***************************************************************************)
EXTENDS BackupProperties, RestoreProperties, TLC

CONSTANTS j1, j2, tagged
MCBooks == {0, 1, Empty, Half}

Symmetry == Permutations(Jobs)
===============================================================================
