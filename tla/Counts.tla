------------------------------- MODULE Counts --------------------------------
(***************************************************************************)
(* Physical counts (countService.ts): recording what somebody saw on a     *)
(* shelf, and accepting the discrepancy, against the stock commands that   *)
(* keep moving the shelf meanwhile.                                        *)
(*                                                                         *)
(* As in module Ledger, an attempt is one request and one transaction, its *)
(* identity is the id of the row it may insert (a count line or a          *)
(* movement), and an action is a statement that waits, reads what others   *)
(* commit, or fails.  A stock command ("post") is only what a count can    *)
(* meet of it: its claim, its lock on the balance row, its commit; Ledger  *)
(* has the rest, and the three statements that lock or create a balance    *)
(* row are one step here.                                                  *)
(***************************************************************************)
EXTENDS Integers

CONSTANTS
  Attempts,      \* requests
  Ops,           \* operation ids
  Shelves,
  Deltas,        \* quantity deltas of the stock commands
  Reasons,       \* reasons an accepted discrepancy may have
  MaxQuantity,
  Requests,      \* what the clients may send
  Null

Quantity == 0..MaxQuantity

PostBody      == [kind : {"post"}, shelf : Shelves, delta : Deltas]
RecordBody    == [kind : {"record"}, shelf : Shelves, counted : Quantity]
ReconcileBody == [kind : {"reconcile"}, line : Attempts, reason : Reasons]
Body          == PostBody \cup RecordBody \cup ReconcileBody
Request       == [op : Ops, body : Body]

Line      == [shelf : Shelves, expected : Quantity, counted : Quantity, op : Ops,
              settledBy : Ops \cup {Null}, movement : Attempts \cup {Null}]
Movement  == [shelf : Shelves, delta : Int, op : Ops, kind : {"post", "reconcile"}]
Operation == [body : Body, result : Attempts]

AnswerCodes == {"OK", "LOST", "REPLAYED_WITH_DIFFERENT_BODY", "NOT_FOUND",
                "CONFLICT", "INELIGIBLE", "INSUFFICIENT_STOCK", "OUT_OF_RANGE",
                "INTERNAL"}
Answer == [code : AnswerCodes, row : Attempts \cup {Null}]

ASSUME CountsAssumption ==
  /\ MaxQuantity \in Nat
  /\ Deltas \subseteq Int \ {0}
  /\ Requests \subseteq Request
  /\ Null \notin Attempts \cup Ops \cup Request \cup Line \cup Movement
                 \cup Operation \cup Answer \cup Quantity

VARIABLES
  pc,
  req,          \* the request of each attempt
  observed,     \* the expected quantity a recording read
  opened,       \* the count line a reconciliation locked, as it read it
  answer,
  claimant,     \* uncommitted operations rows
  lineHolder,   \* count line locks
  sharers,      \* balance row locks FOR SHARE
  holder,       \* balance row locks FOR UPDATE, and uncommitted rows
  operations, lines, movements, balances      \* committed rows

locals == <<req, observed, opened>>
locks  == <<claimant, lineHolder, sharers, holder>>
tables == <<operations, lines, movements, balances>>
vars   == <<pc, locals, answer, locks, tables>>

InTx  == {"line", "claim", "precondition", "snapshot", "shelf", "commit"}
Stage == {"idle", "lookup", "done"} \cup InTx

Reply(code)  == [code |-> code, row |-> Null]
Ok(id)       == [code |-> "OK", row |-> id]
OnHand(s)    == IF balances[s] = Null THEN 0 ELSE balances[s]

Init ==
  /\ pc = [t \in Attempts |-> "idle"]
  /\ req = [t \in Attempts |-> Null]
  /\ observed = [t \in Attempts |-> Null]
  /\ opened = [t \in Attempts |-> Null]
  /\ answer = [t \in Attempts |-> Null]
  /\ claimant = [o \in Ops |-> Null]
  /\ lineHolder = [l \in Attempts |-> Null]
  /\ sharers = [s \in Shelves |-> {}]
  /\ holder = [s \in Shelves |-> Null]
  /\ operations = [o \in Ops |-> Null]
  /\ lines = [l \in Attempts |-> Null]
  /\ movements = [m \in Attempts |-> Null]
  /\ balances = [s \in Shelves |-> Null]
-----------------------------------------------------------------------------
(* Generated columns of migration 0013.                                    *)
Variance(line) == line.counted - line.expected

CountStatus(line) ==
  IF Variance(line) = 0 THEN "MATCHED"
  ELSE IF line.movement = Null THEN "OPEN" ELSE "RECONCILED"

Free(f, t) == [x \in DOMAIN f |-> IF f[x] = t THEN Null ELSE f[x]]

(* Defect: the lock on the count line outlives the transaction.            *)
DefectKeepsTheLine(t) ==
  /\ claimant' = Free(claimant, t)
  /\ holder' = Free(holder, t)
  /\ sharers' = [s \in Shelves |-> sharers[s] \ {t}]
  /\ UNCHANGED lineHolder

Release(t) ==
  /\ claimant' = Free(claimant, t)
  /\ lineHolder' = Free(lineHolder, t)
  /\ holder' = Free(holder, t)
  /\ sharers' = [s \in Shelves |-> sharers[s] \ {t}]

Finish(t, a) ==
  /\ pc' = [pc EXCEPT ![t] = "done"]
  /\ answer' = [answer EXCEPT ![t] = a]

Rollback(t, a) ==
  /\ Finish(t, a)
  /\ Release(t)
  /\ UNCHANGED <<locals, tables>>

Goto(t, stage) == pc' = [pc EXCEPT ![t] = stage]

BodyOf(t) == req[t].body
OpOf(t)   == req[t].op
Kind(t)   == BodyOf(t).kind

(* The answer to a repetition of an operation that is committed: the row   *)
(* its operations row points at, or the count it settled.                  *)
Replay(t) ==
  IF operations[OpOf(t)].body # BodyOf(t)
  THEN Reply("REPLAYED_WITH_DIFFERENT_BODY")
  ELSE Ok(IF Kind(t) = "reconcile" THEN BodyOf(t).line
          ELSE operations[OpOf(t)].result)
-----------------------------------------------------------------------------
Arrive(t) ==
  /\ pc[t] = "idle"
  /\ \E r \in Requests : req' = [req EXCEPT ![t] = r]
  /\ Goto(t, "lookup")
  /\ UNCHANGED <<observed, opened, answer, locks, tables>>

(* findCompletedMovement, findRecordedCount, findSettledReconciliation, on *)
(* the pool.  The last one answers only if the count it names is the one   *)
(* this operation settled.                                                 *)
Settled(t) ==
  /\ operations[OpOf(t)] # Null
  /\ \/ operations[OpOf(t)].body # BodyOf(t)
     \/ Kind(t) # "reconcile"
     \/ /\ lines[BodyOf(t).line] # Null
        /\ lines[BodyOf(t).line].settledBy = OpOf(t)

LookUp(t) ==
  /\ pc[t] = "lookup"
  /\ IF Settled(t) THEN Finish(t, Replay(t))
     ELSE /\ Goto(t, IF Kind(t) = "reconcile" THEN "line" ELSE "claim")
          /\ UNCHANGED answer
  /\ UNCHANGED <<locals, locks, tables>>

(* lockCountLine: the first statement of a reconciliation, and the place   *)
(* where two of them for one discrepancy queue.                            *)
CanLockLine(t) ==
  /\ pc[t] = "line"
  /\ lines[BodyOf(t).line] # Null
  /\ lineHolder[BodyOf(t).line] = Null

OpenLine(t) ==
  /\ CanLockLine(t)
  /\ CountStatus(lines[BodyOf(t).line]) = "OPEN"
  /\ lineHolder' = [lineHolder EXCEPT ![BodyOf(t).line] = t]
  /\ opened' = [opened EXCEPT ![t] = lines[BodyOf(t).line]]
  /\ Goto(t, "claim")
  /\ UNCHANGED <<req, observed, answer, claimant, sharers, holder, tables>>

(* Defect: a settled count is a conflict, whoever settled it.              *)
DefectAlwaysConflicts(t) == Reply("CONFLICT")

(* alreadySettled: answered if this very operation settled it, refused     *)
(* otherwise.                                                              *)
SettledAnswer(t) ==
  IF lines[BodyOf(t).line].settledBy = OpOf(t) THEN Replay(t) ELSE Reply("CONFLICT")

LineIsSettled(t) ==
  /\ CanLockLine(t)
  /\ CountStatus(lines[BodyOf(t).line]) # "OPEN"
  /\ Rollback(t, SettledAnswer(t))

NoSuchLine(t) ==
  /\ pc[t] = "line"
  /\ lines[BodyOf(t).line] = Null
  /\ Rollback(t, Reply("NOT_FOUND"))

(* claimOperation, as in Ledger.  (A reconciliation that found its count   *)
(* open and its own operation committed would go on to settle the count    *)
(* with that movement; SettledTogether shows that it cannot come to that.) *)
Claimable(t) ==
  /\ pc[t] = "claim"
  /\ claimant[OpOf(t)] = Null

Claim(t) ==
  /\ Claimable(t)
  /\ operations[OpOf(t)] = Null
  /\ claimant' = [claimant EXCEPT ![OpOf(t)] = t]
  /\ Goto(t, "precondition")
  /\ UNCHANGED <<locals, answer, lineHolder, sharers, holder, tables>>

ClaimLost(t) ==
  /\ Claimable(t)
  /\ operations[OpOf(t)] # Null
  /\ Rollback(t, Replay(t))

(* The lifecycle of the merchandise (module Lifecycle) and, for a          *)
(* recording, whether the location is open: either way is left open here.  *)
Proceed(t) ==
  /\ pc[t] = "precondition"
  /\ Goto(t, IF Kind(t) = "record" THEN "snapshot" ELSE "shelf")
  /\ UNCHANGED <<locals, answer, locks, tables>>

Refuse(t) ==
  /\ pc[t] = "precondition"
  /\ Rollback(t, Reply("INELIGIBLE"))
-----------------------------------------------------------------------------
(* lockShelfQuantity: SELECT ... FOR SHARE waits for a writer of the row;  *)
(* an absent row, or one not committed, is zero and locks nothing.         *)
Snapshot(t) ==
  /\ pc[t] = "snapshot"
  /\ LET s == BodyOf(t).shelf IN
     /\ observed' = [observed EXCEPT ![t] = OnHand(s)]
     /\ \/ /\ balances[s] # Null
           /\ holder[s] = Null
           /\ sharers' = [sharers EXCEPT ![s] = @ \cup {t}]
        \/ /\ balances[s] = Null
           /\ UNCHANGED sharers
  /\ Goto(t, "commit")
  /\ UNCHANGED <<req, opened, answer, claimant, lineHolder, holder, tables>>

(* insertCountLine and completeOperation.                                  *)
CommitRecord(t) ==
  /\ pc[t] = "commit"
  /\ Kind(t) = "record"
  /\ lines' = [lines EXCEPT ![t] =
       [shelf |-> BodyOf(t).shelf, expected |-> observed[t],
        counted |-> BodyOf(t).counted, op |-> OpOf(t),
        settledBy |-> Null, movement |-> Null]]
  /\ operations' = [operations EXCEPT ![OpOf(t)] = [body |-> BodyOf(t), result |-> t]]
  /\ \E a \in {Ok(t), Reply("LOST")} : Finish(t, a)
  /\ Release(t)
  /\ UNCHANGED <<locals, movements, balances>>
-----------------------------------------------------------------------------
(* What a posting moves: a stock command its own delta, a reconciliation   *)
(* the variance of the count it opened.                                    *)
Target(t) == IF Kind(t) = "reconcile" THEN opened[t].shelf ELSE BodyOf(t).shelf

(* Defect: reconciling sets the shelf to what was counted.                 *)
DefectSetsTheShelf(t) ==
  IF Kind(t) = "reconcile" THEN opened[t].counted - OnHand(opened[t].shelf)
  ELSE BodyOf(t).delta

Delta(t) == IF Kind(t) = "reconcile" THEN Variance(opened[t]) ELSE BodyOf(t).delta
After(t) == OnHand(Target(t)) + Delta(t)

Accepted(t) == After(t) \in Quantity

(* Defect: a posting does not wait for a count reading its shelf.          *)
DefectIgnoresReaders(t) == pc[t] = "shelf" /\ holder[Target(t)] = Null

CanLockShelf(t) ==
  /\ pc[t] = "shelf"
  /\ holder[Target(t)] = Null
  /\ sharers[Target(t)] = {}

LockShelf(t) ==
  /\ CanLockShelf(t)
  /\ Accepted(t)
  /\ holder' = [holder EXCEPT ![Target(t)] = t]
  /\ Goto(t, "commit")
  /\ UNCHANGED <<locals, answer, claimant, lineHolder, sharers, tables>>

Reject(t) ==
  /\ CanLockShelf(t)
  /\ ~Accepted(t)
  /\ Rollback(t, Reply(IF After(t) < 0 THEN "INSUFFICIENT_STOCK" ELSE "OUT_OF_RANGE"))

(* Defect: the movement is posted and the count never told.                *)
DefectForgetsTheCount(t) == UNCHANGED lines

(* reconcileCountLine: only the columns of the decision are written.       *)
Settle(t) ==
  IF Kind(t) = "reconcile"
  THEN lines' = [lines EXCEPT ![BodyOf(t).line].settledBy = OpOf(t),
                              ![BodyOf(t).line].movement = t]
  ELSE UNCHANGED lines

(* Its WHERE reconciled_at IS NULL finds no row: the posting is undone.    *)
SettledMeanwhile(t) ==
  /\ Kind(t) = "reconcile"
  /\ lines[BodyOf(t).line].settledBy # Null

(* The movement, the balance, the operation and, for a reconciliation, the *)
(* count line it settles, in one commit.                                   *)
CommitPosting(t) ==
  /\ pc[t] = "commit"
  /\ Kind(t) # "record"
  /\ IF SettledMeanwhile(t) THEN Rollback(t, Reply("INTERNAL"))
     ELSE /\ movements' = [movements EXCEPT ![t] =
               [shelf |-> Target(t), delta |-> Delta(t), op |-> OpOf(t), kind |-> Kind(t)]]
          /\ balances' = [balances EXCEPT ![Target(t)] = After(t)]
          /\ operations' = [operations EXCEPT ![OpOf(t)] = [body |-> BodyOf(t), result |-> t]]
          /\ Settle(t)
          /\ \E a \in {Ok(IF Kind(t) = "reconcile" THEN BodyOf(t).line ELSE t),
                       Reply("LOST")} : Finish(t, a)
          /\ Release(t)
          /\ UNCHANGED locals

Abort(t) ==
  /\ pc[t] \in {"lookup"} \cup InTx
  /\ Rollback(t, Reply("LOST"))
-----------------------------------------------------------------------------
Step(t) ==
  \/ LookUp(t) \/ OpenLine(t) \/ LineIsSettled(t) \/ NoSuchLine(t)
  \/ Claim(t) \/ ClaimLost(t) \/ Proceed(t) \/ Refuse(t)
  \/ Snapshot(t) \/ CommitRecord(t) \/ LockShelf(t) \/ Reject(t)
  \/ CommitPosting(t)

Next == \E t \in Attempts : Arrive(t) \/ Step(t) \/ Abort(t)

Spec == Init /\ [][Next]_vars

(* As in Ledger: accepted requests go on, free locks are granted.          *)
FairSpec == Spec /\ \A t \in Attempts : WF_vars(Step(t))
=============================================================================
