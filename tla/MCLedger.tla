------------------------------ MODULE MCLedger ------------------------------
(***************************************************************************)
(* Small instances of the posting engine for TLC.                          *)
(***************************************************************************)
EXTENDS LedgerProperties, TLC

CONSTANTS a1, a2, a3, a4, o1, o2, o3, o4, s1

PostOf(s, d)  == [kind |-> "post", shelf |-> s, delta |-> d]
UndoOf(t)     == [kind |-> "reverse", target |-> t]
Ask(o, b)     == [op |-> o, body |-> b]

MCDeltas == {2, -1}

(* A receipt or an issue, a receipt, and two commands that each reverse    *)
(* whatever some attempt posted.  Any request may be made again.           *)
OneShelf ==
  {Ask(o1, PostOf(s1, 2)), Ask(o1, PostOf(s1, -1)), Ask(o2, PostOf(s1, 2))}
    \cup {Ask(o, UndoOf(t)) : o \in {o3, o4}, t \in Attempts}

(* Attempts are interchangeable, and so are the two undoing ids.           *)
Symmetry == Permutations(Attempts) \cup Permutations({o3, o4})

(* The runs end when every attempt has; any other stop is a deadlock.      *)
Terminated == (\A t \in Attempts : pc[t] = "done") /\ UNCHANGED vars
MCSpec     == Init /\ [][Next \/ Terminated]_vars
=============================================================================
