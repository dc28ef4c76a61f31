------------------------------ MODULE Lifecycle ------------------------------
(***************************************************************************)
(* Archive safety: the catalog's lifecycle workflow (lifecycleService.ts)  *)
(* against the stock commands, whose precondition (variantEligibility)     *)
(* runs inside the posting transaction.                                    *)
(*                                                                         *)
(* Both sides take PostgreSQL row locks in the order product, variant,     *)
(* balance and keep them to the end of their transaction: the commands     *)
(* FOR SHARE on the two catalog rows, the lifecycle workflow FOR UPDATE.   *)
(* Module Ledger models what else a posting transaction does (its claim,   *)
(* its retries, the creation of a balance row); here a posting is the      *)
(* locks it takes and the change it commits.                               *)
(*                                                                         *)
(* A transaction is a slot: when it is over, another one may begin in its  *)
(* place, so histories have no bound.                                      *)
(***************************************************************************)
EXTENDS Integers

CONSTANTS
  Txs,          \* transactions open at once
  Products,
  Variants,     \* variant ids, which ORDER BY id compares
  ParentOf,     \* [Variants -> Products]
  Shelves,      \* balance rows: one per variant and location
  VariantOf,    \* [Shelves -> Variants]
  Deltas,
  MaxQuantity,
  Null

Status == {"ACTIVE", "DISCONTINUED", "ARCHIVED"}

(* What a command needs of the merchandise it moves.                       *)
Need == {"receive", "issue", "correct"}

Posting       == [kind : {"post"}, shelf : Shelves, delta : Deltas, need : Need]
ProductChange == [kind : {"product"}, target : Products, status : Status]
VariantChange == [kind : {"variant"}, target : Variants, status : Status]

(* A receipt adds, an issue removes, a correction does either.             *)
Command ==
  {c \in Posting : /\ c.need = "receive" => c.delta > 0
                   /\ c.need = "issue" => c.delta < 0}
    \cup ProductChange \cup VariantChange

CatalogRows == Products \cup Variants
Rows  == CatalogRows \cup Shelves
Lock  == [tx : Txs, row : Rows, mode : {"SHARE", "UPDATE"}]

ASSUME VariantsAssumption ==
  /\ Variants \subseteq Nat
  /\ ParentOf \in [Variants -> Products]
  /\ VariantOf \in [Shelves -> Variants]
ASSUME RowsAssumption ==
  /\ Products \cap Variants = {}
  /\ Shelves \cap CatalogRows = {}
  /\ Null \notin Command \cup Status
ASSUME NumbersAssumption == Deltas \subseteq Int \ {0} /\ MaxQuantity \in Nat

VARIABLES
  pc,         \* [Txs -> Stage]
  command,    \* what each open transaction is doing
  seen,       \* the first catalog status it read under a lock
  held,       \* the row locks granted
  lifecycle,  \* committed status of every product and variant
  stock       \* committed quantity of every shelf

vars == <<pc, command, seen, held, lifecycle, stock>>

Stage == {"idle", "product", "variant", "shelf",      \* posting
          "target", "variants", "balances",           \* lifecycle change
          "commit"}

Init ==
  /\ pc = [t \in Txs |-> "idle"]
  /\ command = [t \in Txs |-> Null]
  /\ seen = [t \in Txs |-> Null]
  /\ held = {}
  /\ lifecycle = [r \in CatalogRows |-> "ACTIVE"]
  /\ stock = [s \in Shelves |-> 0]
-----------------------------------------------------------------------------
(* The policy (domain/lifecycle.ts).                                       *)
Restriction == [s \in Status |->
  CASE s = "ACTIVE" -> 0 [] s = "DISCONTINUED" -> 1 [] s = "ARCHIVED" -> 2]

(* Operators named Defect... are not part of the specification: each is a  *)
(* plausible mistake in the definition that follows it, and some run must  *)
(* find a property violated when it takes that definition's place.         *)
DefectIgnoresTheProduct(product, variant) == variant

EffectiveLifecycle(product, variant) ==
  IF Restriction[product] >= Restriction[variant] THEN product ELSE variant

Permits(need, status) ==
  CASE need = "receive" -> status = "ACTIVE"
    [] need \in {"issue", "correct"} -> status # "ARCHIVED"

AllowedTransitions ==
  [s \in Status |-> CASE s = "ACTIVE" -> {"DISCONTINUED", "ARCHIVED"}
                      [] s = "DISCONTINUED" -> {"ACTIVE", "ARCHIVED"}
                      [] s = "ARCHIVED" -> {"DISCONTINUED"}]

RequiresZeroStock(status) == status = "ARCHIVED"

VariantsOf(p) == {v \in Variants : ParentOf[v] = p}

Effective(v) == EffectiveLifecycle(lifecycle[ParentOf[v]], lifecycle[v])

(* listOperationalVariants: the left-hand side of the current stock view.  *)
OperationalVariants ==
  {v \in Variants : {lifecycle[v], lifecycle[ParentOf[v]]}
                      \subseteq {s \in Status : Permits("issue", s)}}
-----------------------------------------------------------------------------
Merchandise(t) == VariantOf[command[t].shelf]

(* lockVariantIdsForProduct locks the variants of the product one after    *)
(* the other, in id order.                                                 *)
HasLocked(t, r) == [tx |-> t, row |-> r, mode |-> "UPDATE"] \in held
Unlocked(t) == {v \in VariantsOf(command[t].target) : ~HasLocked(t, v)}
NextVariant(t) == CHOOSE v \in Unlocked(t) : \A w \in Unlocked(t) : v <= w

DefectLocksVariantFirst(t) ==
  [tx   |-> t,
   row  |-> CASE pc[t] = "product"  -> Merchandise(t)
              [] pc[t] = "variant"  -> ParentOf[Merchandise(t)]
              [] pc[t] = "shelf"    -> command[t].shelf
              [] pc[t] = "target"   -> command[t].target
              [] pc[t] = "variants" -> NextVariant(t),
   mode |-> IF pc[t] \in {"product", "variant"} THEN "SHARE" ELSE "UPDATE"]

(* The row lock an open transaction asks for next.                         *)
Wanted(t) ==
  [tx   |-> t,
   row  |-> CASE pc[t] = "product"  -> ParentOf[Merchandise(t)]
              [] pc[t] = "variant"  -> Merchandise(t)
              [] pc[t] = "shelf"    -> command[t].shelf
              [] pc[t] = "target"   -> command[t].target
              [] pc[t] = "variants" -> NextVariant(t),
   mode |-> IF pc[t] \in {"product", "variant"} THEN "SHARE" ELSE "UPDATE"]

(* UPDATE excludes every other transaction, SHARE admits SHARE.            *)
Blockers(t) ==
  {u \in Txs \ {t} : \E l \in held :
     /\ l.tx = u
     /\ l.row = Wanted(t).row
     /\ "UPDATE" \in {l.mode, Wanted(t).mode}}

Granted(t) == Blockers(t) = {}
Keep(t)    == held' = held \cup {Wanted(t)}

Goto(t, stage) == pc' = [pc EXCEPT ![t] = stage]

(* The transaction ends: its locks go, its slot is free.                   *)
End(t) ==
  /\ Goto(t, "idle")
  /\ command' = [command EXCEPT ![t] = Null]
  /\ seen' = [seen EXCEPT ![t] = Null]
  /\ held' = {l \in held : l.tx # t}

Rollback(t) == End(t) /\ UNCHANGED <<lifecycle, stock>>

Begin(t) ==
  /\ pc[t] = "idle"
  /\ \E c \in Command :
       /\ command' = [command EXCEPT ![t] = c]
       /\ Goto(t, IF c.kind = "post" THEN "product" ELSE "target")
  /\ UNCHANGED <<seen, held, lifecycle, stock>>
-----------------------------------------------------------------------------
DefectReadsProductUnlocked(t) ==
  /\ pc[t] = "product"
  /\ seen' = [seen EXCEPT ![t] = lifecycle[ParentOf[Merchandise(t)]]]
  /\ Goto(t, "variant")
  /\ UNCHANGED <<command, held, lifecycle, stock>>

(* lockVariantLifecycle, first statement: the product row, FOR SHARE.      *)
LockProduct(t) ==
  /\ pc[t] = "product"
  /\ LET p == ParentOf[Merchandise(t)] IN
     /\ Granted(t) /\ Keep(t)
     /\ seen' = [seen EXCEPT ![t] = lifecycle[p]]
  /\ Goto(t, "variant")
  /\ UNCHANGED <<command, lifecycle, stock>>

(* Its second statement: the variant row.  The command goes on only if the *)
(* effective status permits what it needs.                                 *)
Permitted(t) ==
  Permits(command[t].need,
          EffectiveLifecycle(seen[t], lifecycle[Merchandise(t)]))

LockVariant(t) ==
  /\ pc[t] = "variant"
  /\ Granted(t) /\ Keep(t)
  /\ Permitted(t)
  /\ Goto(t, "shelf")
  /\ UNCHANGED <<command, seen, lifecycle, stock>>

Ineligible(t) ==
  /\ pc[t] = "variant"
  /\ Granted(t)
  /\ ~Permitted(t)
  /\ Rollback(t)

(* The posting engine locks the balance row and refuses to leave it below  *)
(* zero or above the integer column.                                       *)
After(t) == stock[command[t].shelf] + command[t].delta

LockShelf(t) ==
  /\ pc[t] = "shelf"
  /\ Granted(t) /\ Keep(t)
  /\ After(t) \in 0..MaxQuantity
  /\ Goto(t, "commit")
  /\ UNCHANGED <<command, seen, lifecycle, stock>>

Insufficient(t) ==
  /\ pc[t] = "shelf"
  /\ Granted(t)
  /\ After(t) \notin 0..MaxQuantity
  /\ Rollback(t)

CommitPosting(t) ==
  /\ pc[t] = "commit"
  /\ command[t].kind = "post"
  /\ stock' = [stock EXCEPT ![command[t].shelf] = After(t)]
  /\ End(t)
  /\ UNCHANGED lifecycle
-----------------------------------------------------------------------------
(* setProductLifecycle and setVariantLifecycle: lock the row itself, judge *)
(* the transition from the status it has.  The status it already has is no *)
(* transition: there is nothing to check and nothing to write.             *)
Refused(t) ==
  LET current == lifecycle[command[t].target] IN
  command[t].status \notin AllowedTransitions[current] \cup {current}

AfterTarget(t) ==
  LET c == command[t] IN
  IF lifecycle[c.target] = c.status \/ ~RequiresZeroStock(c.status)
  THEN "commit"
  ELSE IF c.kind = "product" THEN "variants" ELSE "balances"

LockTarget(t) ==
  /\ pc[t] = "target"
  /\ Granted(t) /\ Keep(t)
  /\ ~Refused(t)
  /\ seen' = [seen EXCEPT ![t] = lifecycle[command[t].target]]
  /\ Goto(t, AfterTarget(t))
  /\ UNCHANGED <<command, lifecycle, stock>>

RefuseTransition(t) ==
  /\ pc[t] = "target"
  /\ Granted(t)
  /\ Refused(t)
  /\ Rollback(t)

LockNextVariant(t) ==
  /\ pc[t] = "variants"
  /\ Unlocked(t) # {}
  /\ Granted(t) /\ Keep(t)
  /\ UNCHANGED <<pc, command, seen, lifecycle, stock>>

LockedAllVariants(t) ==
  /\ pc[t] = "variants"
  /\ Unlocked(t) = {}
  /\ Goto(t, "balances")
  /\ UNCHANGED <<command, seen, held, lifecycle, stock>>

(* findVariantsHoldingStock: a plain read of the committed balances of the *)
(* variants at stake.                                                      *)
AtStake(t) ==
  IF command[t].kind = "product" THEN VariantsOf(command[t].target)
  ELSE {command[t].target}

HoldsStock(v) == \E s \in Shelves : VariantOf[s] = v /\ stock[s] > 0

FindNoStock(t) ==
  /\ pc[t] = "balances"
  /\ \A v \in AtStake(t) : ~HoldsStock(v)
  /\ Goto(t, "commit")
  /\ UNCHANGED <<command, seen, held, lifecycle, stock>>

ArchiveRefused(t) ==
  /\ pc[t] = "balances"
  /\ \E v \in AtStake(t) : HoldsStock(v)
  /\ Rollback(t)

CommitChange(t) ==
  /\ pc[t] = "commit"
  /\ command[t].kind # "post"
  /\ lifecycle' = [lifecycle EXCEPT ![command[t].target] = command[t].status]
  /\ End(t)
  /\ UNCHANGED stock

(* A statement timeout, a lost connection, a dead process.                 *)
Abort(t) ==
  /\ pc[t] # "idle"
  /\ Rollback(t)
-----------------------------------------------------------------------------
Post(t)   == \/ LockProduct(t) \/ LockVariant(t) \/ Ineligible(t)
             \/ LockShelf(t) \/ Insufficient(t) \/ CommitPosting(t)
Change(t) == \/ LockTarget(t) \/ RefuseTransition(t) \/ LockNextVariant(t)
             \/ LockedAllVariants(t) \/ FindNoStock(t) \/ ArchiveRefused(t)
             \/ CommitChange(t)

Next == \E t \in Txs : Begin(t) \/ Post(t) \/ Change(t) \/ Abort(t)

Spec == Init /\ [][Next]_vars
=============================================================================
