------------------------------- MODULE MCIdentity -------------------------------
(***************************************************************************)
(* A few overlapping requests and commands, names enough for a collision   *)
(* and tokens enough for one.                                              *)
(***************************************************************************)
EXTENDS IdentityProperties, TLC

CONSTANTS t1, t2, t3, u1, u2, u3, n1, n2, k1, k2

Symmetry == Permutations(Tasks) \cup Permutations(UserIds) \cup Permutations(Names)
              \cup Permutations(Tokens)
===============================================================================
