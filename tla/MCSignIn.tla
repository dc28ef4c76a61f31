--------------------------------- MODULE MCSignIn ---------------------------------
(***************************************************************************)
(* Two tabs, two sessions, and up to three requests under way.             *)
(***************************************************************************)
EXTENDS SignInProperties, TLC

CONSTANTS t1, t2, s1, s2

Symmetry == Permutations({t1, t2}) \cup Permutations({s1, s2})
===============================================================================
