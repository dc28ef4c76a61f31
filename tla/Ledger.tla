------------------------------- MODULE Ledger -------------------------------
(***************************************************************************)
(* The posting engine of the inventory module (ledgerService.ts and the    *)
(* two repositories it drives) running on PostgreSQL at READ COMMITTED.    *)
(*                                                                         *)
(* An attempt is one HTTP request for a stock command: a receipt, a        *)
(* removal, an adjustment (all "post") or a reversal ("reverse").  It runs *)
(* one transaction.  A client that hears nothing sends the same operation  *)
(* id again, which is another attempt; nothing keeps a client from sending *)
(* one operation id with two bodies, or two requests at once.              *)
(*                                                                         *)
(* One action is one SQL statement that can wait for another transaction,  *)
(* read what another transaction commits, or fail.  Statements that touch  *)
(* only rows the transaction already holds are part of the action before   *)
(* or after them.  Uncommitted rows are invisible to everybody else, so    *)
(* they live in the attempt's own variables (job, row) until Commit.       *)
(*                                                                         *)
(* The unique and foreign keys of migrations 0005 and 0012 are not guards  *)
(* here: they are the invariant SchemaKeys, so the runs show that the      *)
(* engine's locks alone never let an insert reach them.                    *)
(***************************************************************************)
EXTENDS Integers

CONSTANTS
  Attempts,      \* requests the server receives; an attempt's identity is
                 \* also the id of the movement it may post (newId)
  Ops,           \* operation ids the clients chose
  Shelves,       \* (variant, location) pairs; the location is an open one
  Deltas,        \* quantity deltas a command may carry
  MaxQuantity,   \* ceiling of the integer column
  Requests,      \* the requests the clients may send
  Null           \* SQL NULL, and "no row"

(* What a command asks for.  A reversal names a movement and nothing else: *)
(* its shelf and its delta come from that movement.                        *)
PostBody    == [kind : {"post"}, shelf : Shelves, delta : Deltas]
ReverseBody == [kind : {"reverse"}, target : Attempts]
Body        == PostBody \cup ReverseBody
Request     == [op : Ops, body : Body]

Quantity == 0..MaxQuantity
Movement == [shelf : Shelves, delta : Int, before : Quantity, after : Quantity,
             prev : Attempts \cup {Null}, op : Ops,
             reverses : Attempts \cup {Null}]
Balance  == [qty : Quantity, last : Attempts \cup {Null}]
Operation == [body : Body, result : Attempts \cup {Null}]
Job == [shelf : Shelves, delta : Int, reverses : Attempts \cup {Null}]

AnswerCodes == {"OK", "LOST", "REPLAYED_WITH_DIFFERENT_BODY", "NOT_FOUND",
                "CONFLICT", "INELIGIBLE", "INSUFFICIENT_STOCK",
                "OUT_OF_RANGE", "INTERNAL"}
Answer == [code : AnswerCodes, movement : Attempts \cup {Null}]

ASSUME QuantityAssumption == MaxQuantity \in Nat
ASSUME DeltasAssumption   == Deltas \subseteq Int \ {0}
ASSUME RequestsAssumption == Requests \subseteq Request
ASSUME NullAssumption ==
  Null \notin Attempts \cup Ops \cup Request \cup Movement \cup Balance \cup Operation
              \cup Job \cup Answer

VARIABLES
  pc,          \* [Attempts -> Stage]: the next statement of each attempt
  req,         \* the request each attempt carries
  job,         \* the shelf, delta and target its transaction resolved
  row,         \* the balance row it locked, as it read it
  answer,      \* what it told the client
  claimant,    \* [Ops -> Attempts or Null]: uncommitted operations rows
  holder,      \* [Shelves -> Attempts or Null]: balance row locks, and
               \* uncommitted zero balances
  operations,  \* committed operations rows
  movements,   \* committed inventory_movements rows, by id
  balances     \* committed inventory_balances rows

local  == <<req, job, row>>
tables == <<operations, movements, balances>>
vars   == <<pc, local, answer, claimant, holder, tables>>

BeforeTx == {"lookup", "claim"}
InTx     == {"precondition", "lock", "create", "relock", "decide", "commit"}
Stage    == {"idle", "done"} \cup BeforeTx \cup InTx

ZeroBalance == [qty |-> 0, last |-> Null]
Reply(code) == [code |-> code, movement |-> Null]

Init ==
  /\ pc = [t \in Attempts |-> "idle"]
  /\ req = [t \in Attempts |-> Null]
  /\ job = [t \in Attempts |-> Null]
  /\ row = [t \in Attempts |-> Null]
  /\ answer = [t \in Attempts |-> Null]
  /\ claimant = [o \in Ops |-> Null]
  /\ holder = [s \in Shelves |-> Null]
  /\ operations = [o \in Ops |-> Null]
  /\ movements = [t \in Attempts |-> Null]
  /\ balances = [s \in Shelves |-> Null]
-----------------------------------------------------------------------------
(* Operators named Defect... are not part of the specification: each is a  *)
(* plausible mistake in the definition that follows it, and some run must  *)
(* find a property violated when it takes that definition's place.         *)

(* The end of a transaction releases every row lock and every uncommitted  *)
(* row it held.                                                            *)
Release(t) ==
  /\ claimant' = [o \in Ops |-> IF claimant[o] = t THEN Null ELSE claimant[o]]
  /\ holder' = [s \in Shelves |-> IF holder[s] = t THEN Null ELSE holder[s]]

Finish(t, a) ==
  /\ pc' = [pc EXCEPT ![t] = "done"]
  /\ answer' = [answer EXCEPT ![t] = a]

Rollback(t, code) ==
  /\ Finish(t, Reply(code))
  /\ Release(t)
  /\ UNCHANGED <<local, tables>>

Goto(t, stage) == pc' = [pc EXCEPT ![t] = stage]

DefectForgetsTheBody(o, body) == [code |-> "OK", movement |-> operations[o].result]

(* The answer to a request whose operation id already has a committed row. *)
ReplayAnswer(o, body) ==
  LET found == operations[o] IN
  IF found.body # body THEN Reply("REPLAYED_WITH_DIFFERENT_BODY")
  ELSE IF \/ found.result = Null
          \/ movements[found.result] = Null
       THEN Reply("INTERNAL")
  ELSE IF movements[found.result].op # o THEN Reply("INTERNAL")
  ELSE [code |-> "OK", movement |-> found.result]
-----------------------------------------------------------------------------
(* A request reaches a command service.                                    *)
Arrive(t) ==
  /\ pc[t] = "idle"
  /\ \E r \in Requests : req' = [req EXCEPT ![t] = r]
  /\ Goto(t, "lookup")
  /\ UNCHANGED <<job, row, answer, claimant, holder, tables>>

(* findCompletedMovement, on the pool: a command that already completed is *)
(* answered before any question about the present is asked.  The question  *)
(* that follows, whether the location exists and is open, has one answer   *)
(* for all attempts of a command, because nothing in the program changes a *)
(* location; the requests it refuses are left out.                         *)
LookUp(t) ==
  /\ pc[t] = "lookup"
  /\ LET o == req[t].op
         settled == operations[o] # Null /\ operations[o].result # Null
     IN  IF settled
         THEN Finish(t, ReplayAnswer(o, req[t].body))
         ELSE Goto(t, "claim") /\ UNCHANGED answer
  /\ UNCHANGED <<local, claimant, holder, tables>>

DefectClaimsWithoutWaiting(t) ==
  /\ pc[t] = "claim"
  /\ \/ /\ operations[req[t].op] = Null
        /\ claimant' = [claimant EXCEPT ![req[t].op] = t]
        /\ Goto(t, "precondition")
        /\ UNCHANGED answer
     \/ /\ operations[req[t].op] # Null
        /\ Finish(t, ReplayAnswer(req[t].op, req[t].body))
        /\ UNCHANGED claimant
  /\ UNCHANGED <<local, holder, tables>>

(* claimOperation: INSERT ... ON CONFLICT (id) DO NOTHING.  An uncommitted *)
(* row with this id makes the statement wait for that transaction to end;  *)
(* a committed one makes it a replay.                                      *)
Claim(t) ==
  /\ pc[t] = "claim"
  /\ LET o == req[t].op IN
     /\ claimant[o] = Null
     /\ \/ /\ operations[o] = Null
           /\ claimant' = [claimant EXCEPT ![o] = t]
           /\ Goto(t, "precondition")
           /\ UNCHANGED answer
        \/ /\ operations[o] # Null
           /\ Finish(t, ReplayAnswer(o, req[t].body))
           /\ UNCHANGED claimant
  /\ UNCHANGED <<local, holder, tables>>

(* The movement a reversal names, as a committed read sees it, and whether *)
(* it may be reversed at all.                                              *)
Original(t)   == movements[req[t].body.target]
IsReversal(m) == m.reverses # Null

Reversible(t) ==
  /\ Original(t) # Null
  /\ ~IsReversal(Original(t))

(* The precondition the command supplied (merchandise lifecycle, module    *)
(* Lifecycle) passes or refuses; which of the two is left open here.  A    *)
(* reversal takes shelf and delta from the movement it read.               *)
Proceed(t) ==
  /\ pc[t] = "precondition"
  /\ LET body == req[t].body IN
     \/ /\ body.kind = "post"
        /\ job' = [job EXCEPT ![t] = [shelf |-> body.shelf,
                                      delta |-> body.delta,
                                      reverses |-> Null]]
     \/ /\ body.kind = "reverse"
        /\ Reversible(t)
        /\ job' = [job EXCEPT ![t] = [shelf |-> Original(t).shelf,
                                      delta |-> -Original(t).delta,
                                      reverses |-> body.target]]
  /\ Goto(t, "lock")
  /\ UNCHANGED <<req, row, answer, claimant, holder, tables>>

RefusalCode(t) ==
  IF req[t].body.kind = "post" THEN "INELIGIBLE"
  ELSE IF Original(t) = Null THEN "NOT_FOUND"
  ELSE IF IsReversal(Original(t)) THEN "CONFLICT"
  ELSE "INELIGIBLE"

Refuse(t) ==
  /\ pc[t] = "precondition"
  /\ Rollback(t, RefusalCode(t))

DefectReadsWithoutLocking(t) ==
  /\ pc[t] = "lock"
  /\ \/ /\ balances[job[t].shelf] # Null
        /\ row' = [row EXCEPT ![t] = balances[job[t].shelf]]
        /\ Goto(t, "decide")
     \/ /\ balances[job[t].shelf] = Null
        /\ Goto(t, "create")
        /\ UNCHANGED row
  /\ UNCHANGED <<req, job, answer, claimant, holder, tables>>

(* lockBalance: SELECT ... FOR UPDATE waits for the row's holder and reads *)
(* the row as that holder left it.  An uncommitted row is not seen.        *)
LockBalance(t) ==
  /\ pc[t] = "lock"
  /\ LET s == job[t].shelf IN
     \/ /\ balances[s] # Null
        /\ holder[s] = Null
        /\ holder' = [holder EXCEPT ![s] = t]
        /\ row' = [row EXCEPT ![t] = balances[s]]
        /\ Goto(t, "decide")
     \/ /\ balances[s] = Null
        /\ Goto(t, "create")
        /\ UNCHANGED <<holder, row>>
  /\ UNCHANGED <<req, job, answer, claimant, tables>>

(* insertZeroBalance: ON CONFLICT DO NOTHING waits for an uncommitted row, *)
(* but not for a lock on a committed one.                                  *)
CreateBalance(t) ==
  /\ pc[t] = "create"
  /\ LET s == job[t].shelf IN
     \/ /\ balances[s] # Null
        /\ UNCHANGED holder
     \/ /\ balances[s] = Null
        /\ holder[s] = Null
        /\ holder' = [holder EXCEPT ![s] = t]
  /\ Goto(t, "relock")
  /\ UNCHANGED <<local, answer, claimant, tables>>

DefectTrustsItsInsert(t) ==
  /\ pc[t] = "relock"
  /\ holder[job[t].shelf] \in {t, Null}
  /\ holder' = [holder EXCEPT ![job[t].shelf] = t]
  /\ row' = [row EXCEPT ![t] = ZeroBalance]
  /\ Goto(t, "decide")
  /\ UNCHANGED <<req, job, answer, claimant, tables>>

(* The second lockBalance sees the row this transaction inserted, or the   *)
(* one somebody else committed.                                            *)
RelockBalance(t) ==
  /\ pc[t] = "relock"
  /\ LET s == job[t].shelf IN
     \/ /\ holder[s] = t
        /\ row' = [row EXCEPT ![t] = ZeroBalance]
        /\ UNCHANGED holder
     \/ /\ balances[s] # Null
        /\ holder[s] = Null
        /\ holder' = [holder EXCEPT ![s] = t]
        /\ row' = [row EXCEPT ![t] = balances[s]]
  /\ Goto(t, "decide")
  /\ UNCHANGED <<req, job, answer, claimant, tables>>
-----------------------------------------------------------------------------
(* What the engine decides with the balance row in hand.                   *)
After(t) == row[t].qty + job[t].delta

ReversalsOf(target) ==
  {m \in Attempts : movements[m] # Null /\ movements[m].reverses = target}

AlreadyReversed(t) ==
  /\ job[t].reverses # Null
  /\ ReversalsOf(job[t].reverses) # {}

DefectNoFloor(t) == ~AlreadyReversed(t)

Accepted(t) == ~AlreadyReversed(t) /\ After(t) \in Quantity

RejectionCode(t) ==
  IF AlreadyReversed(t) THEN "CONFLICT"
  ELSE IF After(t) < 0 THEN "INSUFFICIENT_STOCK"
  ELSE "OUT_OF_RANGE"    \* the integer column refuses it: a 500

(* insertMovement or insertReversal, updateBalance and completeOperation,  *)
(* none of them visible to anybody until Commit.                           *)
Write(t) ==
  /\ pc[t] = "decide"
  /\ Accepted(t)
  /\ Goto(t, "commit")
  /\ UNCHANGED <<local, answer, claimant, holder, tables>>

Reject(t) ==
  /\ pc[t] = "decide"
  /\ ~Accepted(t)
  /\ Rollback(t, RejectionCode(t))

MovementRow(t) ==
  [shelf |-> job[t].shelf, delta |-> job[t].delta,
   before |-> row[t].qty, after |-> After(t), prev |-> row[t].last,
   op |-> req[t].op, reverses |-> job[t].reverses]

(* COMMIT makes the three rows visible at once.  The client hears of it,   *)
(* or the connection dies first and it hears nothing.                      *)
Commit(t) ==
  /\ pc[t] = "commit"
  /\ movements' = [movements EXCEPT ![t] = MovementRow(t)]
  /\ balances' = [balances EXCEPT ![job[t].shelf] =
                    [qty |-> After(t), last |-> t]]
  /\ operations' = [operations EXCEPT ![req[t].op] =
                      [body |-> req[t].body, result |-> t]]
  /\ \E a \in {[code |-> "OK", movement |-> t], Reply("LOST")} : Finish(t, a)
  /\ Release(t)
  /\ UNCHANGED local

(* A statement timeout, a lost connection or a dead server process at any  *)
(* point before COMMIT rolls the transaction back.                         *)
Abort(t) ==
  /\ pc[t] \in BeforeTx \cup InTx
  /\ Rollback(t, "LOST")
-----------------------------------------------------------------------------
Step(t) ==
  \/ LookUp(t) \/ Claim(t) \/ Proceed(t) \/ Refuse(t)
  \/ LockBalance(t) \/ CreateBalance(t) \/ RelockBalance(t)
  \/ Write(t) \/ Reject(t) \/ Commit(t)

Next == \E t \in Attempts : Arrive(t) \/ Step(t) \/ Abort(t)

Spec == Init /\ [][Next]_vars
=============================================================================
