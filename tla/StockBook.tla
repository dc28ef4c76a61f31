------------------------------ MODULE StockBook ------------------------------
(***************************************************************************)
(* What the inventory promises its callers, with no transactions, locks,   *)
(* rows or retries in sight: a book of stock entries, one for each command *)
(* (named by its operation id) that was ever applied.                      *)
(*                                                                         *)
(*   - a command is entered at most once and never altered or removed;     *)
(*   - an entry moves the stock of one shelf by its delta, which the shelf *)
(*     must be able to give and the counter able to hold;                  *)
(*   - an undoing entry takes back exactly one earlier ordinary entry,     *)
(*     which no other entry undoes.                                        *)
(***************************************************************************)
EXTENDS Integers

CONSTANTS Ops, Shelves, Deltas, MaxQuantity, Null

Entry == [shelf : Shelves, delta : Int, undoes : Ops \cup {Null},
          left : 0..MaxQuantity]

VARIABLES
  entries,   \* [Ops -> entry or Null]
  stock      \* [Shelves -> quantity]

bookVars == <<entries, stock>>

Init ==
  /\ entries = [o \in Ops |-> Null]
  /\ stock = [s \in Shelves |-> 0]

Fits(s, d) == stock[s] + d \in 0..MaxQuantity

Enter(o, s, d, target) ==
  /\ entries[o] = Null
  /\ Fits(s, d)
  /\ stock' = [stock EXCEPT ![s] = @ + d]
  /\ entries' = [entries EXCEPT ![o] =
                   [shelf |-> s, delta |-> d, undoes |-> target,
                    left |-> stock[s] + d]]

Post(o, s, d) == d \in Deltas /\ Enter(o, s, d, Null)

Undone(target) == \E o \in Ops : entries[o] # Null /\ entries[o].undoes = target

Undo(o, target) ==
  /\ entries[target] # Null
  /\ entries[target].undoes = Null
  /\ ~Undone(target)
  /\ Enter(o, entries[target].shelf, -entries[target].delta, target)

Next ==
  \E o \in Ops :
    \/ \E s \in Shelves, d \in Deltas : Post(o, s, d)
    \/ \E target \in Ops : Undo(o, target)

Spec == Init /\ [][Next]_bookVars
=============================================================================
