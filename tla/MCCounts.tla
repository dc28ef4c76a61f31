------------------------------- MODULE MCCounts -------------------------------
(***************************************************************************)
(* Small instances of physical counting.                                   *)
(***************************************************************************)
EXTENDS CountsProperties, TLC

CONSTANTS a1, a2, a3, o1, o2, o3, s1, r1

MCDeltas == {2, -1}

Ask(o, b)       == [op |-> o, body |-> b]
PostOf(d)       == [kind |-> "post", shelf |-> s1, delta |-> d]
RecordOf(n)     == [kind |-> "record", shelf |-> s1, counted |-> n]
ReconcileOf(l,r) == [kind |-> "reconcile", line |-> l, reason |-> r]

(* One receipt and one recording; o2 may carry a decision instead, and o3  *)
(* a decision or an issue.                                                 *)
FewDecisions ==
  {Ask(o1, PostOf(2)), Ask(o2, RecordOf(1)), Ask(o3, PostOf(-1))}
    \cup {Ask(o, ReconcileOf(l, r1)) : o \in {o2, o3}, l \in Attempts}
===============================================================================
