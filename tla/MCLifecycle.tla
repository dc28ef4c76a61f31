----------------------------- MODULE MCLifecycle -----------------------------
(***************************************************************************)
(* A small instance of archive safety: one product with two variants, the  *)
(* first stocked at two locations.                                         *)
(***************************************************************************)
EXTENDS LifecycleProperties, TLC

CONSTANTS t1, t2, t3, p1, s1, s2, s3

MCParentOf  == (1 :> p1) @@ (2 :> p1)
MCVariantOf == (s1 :> 1) @@ (s2 :> 1) @@ (s3 :> 2)
MCVariantOfSmall == (s1 :> 1) @@ (s3 :> 2)
MCDeltas    == {1, -1}

Symmetry == Permutations(Txs)
=============================================================================
