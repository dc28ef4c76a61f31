-------------------------- MODULE LedgerProperties --------------------------
(***************************************************************************)
(* What the posting engine of module Ledger guarantees, under the names    *)
(* docs/04-database/invariants.md gives these rules (INV-n).               *)
(***************************************************************************)
EXTENDS Ledger, FiniteSetsExt

(* Every variable keeps the shape its table column or local has.           *)
TypeOK ==
  /\ pc \in [Attempts -> Stage]
  /\ req \in [Attempts -> Requests \cup {Null}]
  /\ job \in [Attempts -> Job \cup {Null}]
  /\ row \in [Attempts -> Balance \cup {Null}]
  /\ answer \in [Attempts -> Answer \cup {Null}]
  /\ claimant \in [Ops -> Attempts \cup {Null}]
  /\ holder \in [Shelves -> Attempts \cup {Null}]
  /\ operations \in [Ops -> Operation \cup {Null}]
  /\ movements \in [Attempts -> Movement \cup {Null}]
  /\ balances \in [Shelves -> Balance \cup {Null}]

Posted      == {m \in Attempts : movements[m] # Null}
PostedOn(s) == {m \in Posted : movements[m].shelf = s}
OnHand(s)   == IF balances[s] = Null THEN 0 ELSE balances[s].qty

(* Rows the unique indexes see: committed ones and those an open           *)
(* transaction has inserted.                                               *)
Inserted == Posted \cup {t \in Attempts : pc[t] = "commit"}
RowOf(m) == IF movements[m] # Null THEN movements[m] ELSE MovementRow(m)

(* INV-4, INV-2: the keys of migrations 0005 and 0012 are never what stops *)
(* a fork, a second opening movement, a second reversal of one movement, a *)
(* link across shelves or a reversed reversal: the engine's locks stop     *)
(* them first, so no command ends in a constraint violation.               *)
SchemaKeys ==
  /\ \A m, n \in Inserted :
       /\ RowOf(m).prev = RowOf(n).prev /\ RowOf(m).shelf = RowOf(n).shelf
            => m = n
       /\ RowOf(m).reverses = RowOf(n).reverses /\ RowOf(m).reverses # Null
            => m = n
  /\ \A m \in Inserted :
       /\ RowOf(m).prev # Null =>
            /\ RowOf(m).prev \in Posted
            /\ movements[RowOf(m).prev].shelf = RowOf(m).shelf
       /\ RowOf(m).reverses # Null =>
            /\ RowOf(m).reverses \in Posted
            /\ movements[RowOf(m).reverses].shelf = RowOf(m).shelf
            /\ movements[RowOf(m).reverses].reverses = Null

(* INV-3, INV-4: the movements of a shelf are one unbroken account: each   *)
(* starts from the quantity its predecessor left, the first from zero, the *)
(* balance row is the end of it, and every movement but that last one has  *)
(* a successor, so none was left behind on a side branch.  No schema rule  *)
(* relates the before of a movement to the after of the one it follows;    *)
(* the lock on the balance row alone does.                                 *)
ChainUnbroken ==
  /\ \A m \in Posted : LET r == movements[m] IN
       /\ r.after = r.before + r.delta
       /\ r.before = IF r.prev = Null THEN 0 ELSE movements[r.prev].after
  /\ \A s \in Shelves : balances[s] # Null =>
       LET b == balances[s] IN
       /\ b.last \in PostedOn(s)
       /\ b.qty = movements[b.last].after
       /\ \A m \in Posted : movements[m].prev # b.last
       /\ \A m \in PostedOn(s) \ {b.last} :
            \E n \in PostedOn(s) : movements[n].prev = m

(* INV-6: the projection equals the ledger: what a balance row says is on  *)
(* hand is the sum of the deltas ever posted to its shelf.                 *)
ProjectionIsLedger ==
  \A s \in Shelves :
    OnHand(s) = MapThenSumSet(LAMBDA m : movements[m].delta, PostedOn(s))

(* INV-7: whatever retries and concurrent duplicates arrive, an operation  *)
(* id posts at most one movement, its operations row and its movement      *)
(* exist together and name each other.  movements.operation_id has no      *)
(* unique key, so only the claim protects this.                            *)
AppliedOnce ==
  /\ \A m, n \in Posted : movements[m].op = movements[n].op => m = n
  /\ \A m \in Posted :
       /\ operations[movements[m].op] # Null
       /\ operations[movements[m].op].result = m
  /\ \A o \in Ops : operations[o] # Null =>
       /\ operations[o].result \in Posted
       /\ movements[operations[o].result].op = o

(* INV-7: a client that is told OK is told of the movement its operation   *)
(* id posted, for the very body it sent; so all the attempts of one        *)
(* command that are told OK are told the same, and an id reused for        *)
(* another body is never told OK.                                          *)
AnswersAgree ==
  \A t \in Attempts : answer[t] # Null /\ answer[t].code = "OK" =>
    /\ answer[t].movement \in Posted
    /\ movements[answer[t].movement].op = req[t].op
    /\ operations[req[t].op].body = req[t].body

(* INV-2: a correction takes back the whole of one movement, once: a       *)
(* movement and the reversals that name it together moved its delta or     *)
(* nothing.                                                                *)
ReversedWhole ==
  \A m \in Posted :
    LET taken == MapThenSumSet(LAMBDA r : movements[r].delta, ReversalsOf(m))
    IN  taken \in {0, -movements[m].delta}

(* The branches of ledgerService.ts that refuse to guess (a pointer at     *)
(* nothing, another operation's movement, a claim that lost to nothing)    *)
(* are never taken.                                                        *)
NeverInternal == \A t \in Attempts : answer[t] # Reply("INTERNAL")
-----------------------------------------------------------------------------
(* INV-1, INV-5: posted movements and completed operations never change,   *)
(* and stock changes only in the step that posts the movement saying so,   *)
(* by exactly its delta.                                                   *)
StockMovesWithLedger ==
  [][/\ \A m \in Posted : movements'[m] = movements[m]
     /\ \A o \in Ops : operations[o] # Null => operations'[o] = operations[o]
     /\ \A s \in Shelves : balances'[s] # balances[s] =>
          \E m \in Attempts :
            /\ Posted' = Posted \cup {m}
            /\ m \notin Posted
            /\ movements'[m].shelf = s
            /\ movements'[m].prev =
                 IF balances[s] = Null THEN Null ELSE balances[s].last
            /\ OnHand(s)' = OnHand(s) + movements'[m].delta]_vars

Ends(t, code) == answer[t] = Null /\ answer'[t] = Reply(code)

(* INV-8: a command is refused for want of stock only when the committed   *)
(* balance, at the moment it is refused, really cannot give what it asks:  *)
(* never on the strength of a quantity that is already out of date.        *)
RefusedForCause ==
  [][\A t \in Attempts : Ends(t, "INSUFFICIENT_STOCK") =>
       OnHand(job[t].shelf) + job[t].delta < 0]_vars

(* INV-7: once a command has been applied, a repetition of it is answered  *)
(* with what it did.  It is not refused because stock, merchandise or the  *)
(* original movement has changed since; at worst the client hears nothing. *)
RepeatIsAnswered ==
  [][\A t \in Attempts :
       /\ pc[t] # "done" /\ pc'[t] = "done"
       /\ operations[req[t].op] # Null
       /\ operations[req[t].op].body = req[t].body
       => answer'[t] \in {Reply("LOST"),
                          [code |-> "OK",
                           movement |-> operations[req[t].op].result]}]_vars
-----------------------------------------------------------------------------
(***************************************************************************)
(* The strengthening that makes the invariants above inductive: who owns   *)
(* what while a transaction is open, and what each attempt already knows   *)
(* at each of its statements.                                              *)
(***************************************************************************)
Resolved == {"lock", "create", "relock", "decide", "commit"}
Decided  == {"decide", "commit"}

BalanceOf(s) == IF balances[s] = Null THEN ZeroBalance ELSE balances[s]

(* An attempt knows its request from the start, its job once resolved, and *)
(* has posted and said nothing before it is done.                          *)
LocalInv ==
  \A t \in Attempts :
    /\ pc[t] # "idle" => req[t] \in Requests
    /\ pc[t] # "done" => movements[t] = Null /\ answer[t] = Null
    /\ pc[t] \in Resolved => job[t] \in Job
    /\ pc[t] \in Decided => row[t] \in Balance
    /\ pc[t] = "commit" => Accepted(t)

(* A job is the delta of the request's own body, or the exact opposite of  *)
(* an ordinary movement, on that movement's shelf.                         *)
JobInv ==
  \A t \in Attempts : pc[t] \in Resolved =>
    /\ job[t].reverses = Null => job[t].delta \in Deltas
    /\ job[t].reverses # Null =>
         /\ movements[job[t].reverses] # Null
         /\ movements[job[t].reverses].reverses = Null
         /\ movements[job[t].reverses].shelf = job[t].shelf
         /\ movements[job[t].reverses].delta = -job[t].delta

(* An open transaction is the one claimant of its operation id, which has  *)
(* no committed row.                                                       *)
ClaimInv ==
  /\ \A t \in Attempts : pc[t] \in InTx => claimant[req[t].op] = t
  /\ \A o \in Ops : claimant[o] # Null =>
       /\ pc[claimant[o]] \in InTx
       /\ req[claimant[o]].op = o
       /\ operations[o] = Null

(* From decide on, an attempt is the one holder of its balance row and the *)
(* row it read is still the committed one.                                 *)
LockInv ==
  /\ \A t \in Attempts : pc[t] \in Decided =>
       /\ holder[job[t].shelf] = t
       /\ row[t] = BalanceOf(job[t].shelf)
  /\ \A t \in Attempts : pc[t] = "relock" =>
       (holder[job[t].shelf] = t) <=> (balances[job[t].shelf] = Null)
  /\ \A s \in Shelves : holder[s] # Null =>
       /\ pc[holder[s]] \in {"relock"} \cup Decided
       /\ job[holder[s]].shelf = s

(* The stored chain: ChainUnbroken, and that it neither forks nor leaves   *)
(* its shelf.                                                              *)
ChainInv ==
  /\ ChainUnbroken
  /\ \A m \in Posted : balances[movements[m].shelf] # Null
  /\ \A m \in Posted : movements[m].prev # Null =>
       /\ movements[m].prev \in Posted
       /\ movements[movements[m].prev].shelf = movements[m].shelf
  /\ \A m, n \in Posted :
       movements[m].prev = movements[n].prev
         /\ movements[m].shelf = movements[n].shelf => m = n

(* The stored reversals.                                                   *)
UndoInv ==
  /\ \A m \in Posted : movements[m].reverses = Null =>
       movements[m].delta \in Deltas
  /\ \A m \in Posted : movements[m].reverses # Null =>
       /\ movements[m].reverses \in Posted
       /\ movements[movements[m].reverses].reverses = Null
       /\ movements[movements[m].reverses].shelf = movements[m].shelf
       /\ movements[movements[m].reverses].delta = -movements[m].delta
  /\ \A m, n \in Posted :
       movements[m].reverses = movements[n].reverses
         /\ movements[m].reverses # Null => m = n

IInv == /\ TypeOK /\ LocalInv /\ JobInv /\ ClaimInv /\ LockInv
        /\ ChainInv /\ UndoInv /\ AppliedOnce /\ AnswersAgree /\ NeverInternal
-----------------------------------------------------------------------------
(***************************************************************************)
(* The posting engine keeps the promise of StockBook.  An operation id is  *)
(* in the book when its operations row is committed, and the entry is the  *)
(* movement that row points at; a shelf's stock is its balance row.  And   *)
(* it keeps the promise of CommandPromise, which is all a client knows.    *)
(***************************************************************************)
EntryOf(o) ==
  IF operations[o] = Null THEN Null
  ELSE LET m == movements[operations[o].result] IN
       [shelf  |-> m.shelf,
        delta  |-> m.delta,
        undoes |-> IF m.reverses = Null THEN Null
                   ELSE movements[m.reverses].op,
        left   |-> m.after]

Book == INSTANCE StockBook WITH
          entries <- [o \in Ops |-> EntryOf(o)],
          stock   <- [s \in Shelves |-> OnHand(s)]

ASSUME EntryAssumption == Null \notin Book!Entry

(* Every interleaving of attempts, retries, aborts and lost connections is *)
(* an atomic, at-most-once, floor-respecting book of entries.              *)
ImplementsStockBook == Book!Spec
-----------------------------------------------------------------------------
(* What an answer says to a client.  A 500 and no answer say the same:     *)
(* nothing.                                                                *)
Faults == {"LOST", "OUT_OF_RANGE", "INTERNAL"}

Word(code) ==
  IF code = "OK" THEN "recorded"
  ELSE IF code = "REPLAYED_WITH_DIFFERENT_BODY" THEN "replayed"
  ELSE IF code \in Faults THEN "fault" ELSE "refused"

Heard(t) ==
  IF answer[t] = Null THEN Null
  ELSE [word |-> Word(answer[t].code), result |-> answer[t].movement]

Promise == INSTANCE CommandPromise WITH
             Results  <- Attempts,
             recorded <- operations,
             asked    <- req,
             told     <- [t \in Attempts |-> Heard(t)]

(* INV-7, seen from the client: every request is answered in one step as   *)
(* if nothing else were going on.  A refusal means that the command is not *)
(* recorded, an OK that it is, with this body and as this movement, and    *)
(* only a lost answer or a 500 leaves that open; what every retry in the   *)
(* browser rests on.                                                       *)
KeepsPromise == Promise!Spec
=============================================================================
