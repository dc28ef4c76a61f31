------------------------------- MODULE MCHistory -------------------------------
(***************************************************************************)
(* A small instance of paging: everything, or one shelf, or one shelf      *)
(* within a time window.                                                   *)
(***************************************************************************)
EXTENDS HistoryProperties

CONSTANTS w1, w2, w3, w4, s1, s2

MCFilters ==
  {[shelf |-> Null, from |-> 0, to |-> MaxClock],
   [shelf |-> s1, from |-> 0, to |-> MaxClock],
   [shelf |-> Null, from |-> 1, to |-> MaxClock]}

Symmetry == Permutations(Writers)

(* Everything the model has to offer has happened.                         *)
Terminated ==
  /\ \A w \in Writers : pc[w] = "done"
  /\ reader = "done" /\ clock = MaxClock
  /\ UNCHANGED vars

MCSpec == Init /\ [][Next \/ Terminated]_vars
===============================================================================
