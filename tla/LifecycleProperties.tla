------------------------- MODULE LifecycleProperties -------------------------
(***************************************************************************)
(* What archive safety promises the shop, whatever the timing of stock     *)
(* commands and lifecycle changes.                                         *)
(***************************************************************************)
EXTENDS Lifecycle

(* Every variable keeps the shape its row or local has.                    *)
TypeOK ==
  /\ pc \in [Txs -> Stage]
  /\ command \in [Txs -> Command \cup {Null}]
  /\ seen \in [Txs -> Status \cup {Null}]
  /\ held \subseteq Lock
  /\ lifecycle \in [CatalogRows -> Status]
  /\ stock \in [Shelves -> 0..MaxQuantity]

(* Archiving never strands stock: every unit on a shelf belongs to         *)
(* merchandise that the current stock view lists and that may be issued,   *)
(* counted and corrected.  lifecycle.ts says archiving is only safe because*)
(* of this; the two policies, the join of two rows and four row locks have *)
(* to agree for it to hold.                                                *)
NothingStranded ==
  \A s \in Shelves : stock[s] > 0 =>
    /\ VariantOf[s] \in OperationalVariants
    /\ Permits("issue", Effective(VariantOf[s]))

(* No cycle of transactions each waiting for a row lock of the next: in    *)
(* every set of open transactions somebody waits for nobody in the set.    *)
Waiting == {t \in Txs : \/ pc[t] \in {"product", "variant", "shelf", "target"}
                        \/ (pc[t] = "variants" /\ Unlocked(t) # {})}

NoDeadlock ==
  \A S \in SUBSET Waiting : S # {} => \E t \in S : Blockers(t) \cap S = {}
-----------------------------------------------------------------------------
(* Stock moves only while the merchandise may be moved: in the step that   *)
(* commits a change of a shelf, the committed lifecycle still permits what *)
(* the command needed when its precondition was asked, several statements  *)
(* and lock waits before.                                                  *)
MovedWhilePermitted ==
  [][\A s \in Shelves : stock'[s] # stock[s] =>
       \E t \in Txs :
         /\ command[t] \in Posting
         /\ command[t].shelf = s
         /\ stock'[s] = stock[s] + command[t].delta
         /\ Permits(command[t].need, Effective(VariantOf[s]))]_vars

(* Merchandise goes from one committed status only to one the transition   *)
(* table allows from it: two changes in flight cannot add up to the        *)
(* refused ARCHIVED -> ACTIVE.                                             *)
TransitionsLegal ==
  [][\A r \in CatalogRows : lifecycle'[r] # lifecycle[r] =>
       lifecycle'[r] \in AllowedTransitions[lifecycle[r]]]_vars
-----------------------------------------------------------------------------
(***************************************************************************)
(* The strengthening that makes the properties above inductive: which row  *)
(* locks an open transaction holds at each of its statements, and what     *)
(* those locks keep true for it.                                           *)
(***************************************************************************)
Shares(t, r) == [tx |-> t, row |-> r, mode |-> "SHARE"] \in held

(* Two transactions hold one row only if both share it.                    *)
LocksCompatible ==
  \A l, m \in held : l.row = m.row /\ l.tx # m.tx =>
    l.mode = "SHARE" /\ m.mode = "SHARE"

(* A stage belongs to a posting or to a lifecycle change.                  *)
StageOf(t) ==
  /\ pc[t] # "idle" => command[t] \in Command
  /\ pc[t] \in {"product", "variant", "shelf"} => command[t].kind = "post"
  /\ pc[t] \in {"target", "variants", "balances"} => command[t].kind # "post"
  /\ pc[t] = "variants" => command[t].kind = "product"

(* What a lock in the table says about its transaction.                    *)
HolderOf(l) ==
  LET t == l.tx
      c == command[t]
  IN
  /\ pc[t] # "idle"
  /\ c.kind = "post" =>
       \/ l.row = ParentOf[Merchandise(t)] /\ pc[t] \in {"variant", "shelf", "commit"}
       \/ l.row = Merchandise(t) /\ pc[t] \in {"shelf", "commit"}
       \/ l.row = c.shelf /\ pc[t] = "commit"
  /\ c.kind = "product" =>
       /\ pc[t] \in {"variants", "balances", "commit"}
       /\ l.row \in {c.target} \cup VariantsOf(c.target)
  /\ c.kind = "variant" => pc[t] \in {"balances", "commit"} /\ l.row = c.target

(* A posting that has asked keeps what it was told true.                   *)
PostingKnows(t) ==
  pc[t] # "idle" /\ command[t].kind = "post" =>
    LET v == Merchandise(t) IN
    /\ pc[t] \in {"variant", "shelf", "commit"} =>
         Shares(t, ParentOf[v]) /\ seen[t] = lifecycle[ParentOf[v]]
    /\ pc[t] \in {"shelf", "commit"} =>
         Shares(t, v) /\ Permits(command[t].need, Effective(v))
    /\ pc[t] = "commit" =>
         HasLocked(t, command[t].shelf) /\ After(t) \in 0..MaxQuantity

(* A lifecycle change owns its row, and to archive it owns every variant   *)
(* at stake and knows that none of them holds stock.                       *)
ChangeKnows(t) ==
  pc[t] \in {"variants", "balances", "commit"} /\ command[t].kind # "post" =>
    LET target == command[t].target
        status == command[t].status
    IN
    /\ HasLocked(t, target)
    /\ status = lifecycle[target] \/ status \in AllowedTransitions[lifecycle[target]]
    /\ pc[t] = "balances" => \A v \in AtStake(t) : HasLocked(t, v)
    /\ pc[t] = "commit" /\ status = "ARCHIVED" /\ lifecycle[target] # "ARCHIVED" =>
         \A v \in AtStake(t) : HasLocked(t, v) /\ ~HoldsStock(v)

(* Archived at either level means empty shelves.                           *)
ArchivedIsEmpty ==
  \A v \in Variants :
    "ARCHIVED" \in {lifecycle[v], lifecycle[ParentOf[v]]} => ~HoldsStock(v)

IInv ==
  /\ TypeOK /\ LocksCompatible /\ ArchivedIsEmpty
  /\ \A t \in Txs : StageOf(t) /\ PostingKnows(t) /\ ChangeKnows(t)
  /\ \A l \in held : HolderOf(l)
=============================================================================
