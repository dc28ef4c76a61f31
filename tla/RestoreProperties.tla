--------------------------- MODULE RestoreProperties ----------------------------
(***************************************************************************)
(* What a restore may never cost.                                          *)
(***************************************************************************)
EXTENDS Restore

RestoreTypeOK ==
  /\ live \in Books \cup {NoBooks}
  /\ displaced \in [Stamps -> Books \cup {NoBooks}]
  /\ restore \in {NotRestoring} \cup Restoring
  /\ latest \in States
  /\ owed \subseteq States
  /\ discarded \subseteq Books \cup {NoBooks}
  /\ spoiled \in BOOLEAN

Cluster == {live} \cup {displaced[s] : s \in Stamps}

(***************************************************************************)
(* "Nothing is destroyed" (restore.ts 23-28): every line of commits, the   *)
(* one that was being served when somebody restored over it included, is   *)
(* in a database of the cluster, or was named to --discard-previous.       *)
(***************************************************************************)
NothingDestroyed == owed \subseteq Cluster \cup discarded

(***************************************************************************)
(* There is always a way back: some database of the cluster is one the     *)
(* shop's commits left, as long as no restore has loaded the archive of a  *)
(* database that another restore had left unfinished.                      *)
(***************************************************************************)
WayBack == ~spoiled => Cluster \cap States # {}
===============================================================================
