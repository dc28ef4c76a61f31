-------------------------- MODULE CountsProperties ---------------------------
(***************************************************************************)
(* What a physical count is worth (INV-9, docs/04-database/invariants.md). *)
(***************************************************************************)
EXTENDS Counts, FiniteSetsExt

Recorded == {l \in Attempts : lines[l] # Null}
Posted   == {m \in Attempts : movements[m] # Null}

(* Every variable keeps the shape its table column or local has.           *)
TypeOK ==
  /\ pc \in [Attempts -> Stage]
  /\ req \in [Attempts -> Requests \cup {Null}]
  /\ observed \in [Attempts -> Quantity \cup {Null}]
  /\ opened \in [Attempts -> Line \cup {Null}]
  /\ answer \in [Attempts -> Answer \cup {Null}]
  /\ claimant \in [Ops -> Attempts \cup {Null}]
  /\ lineHolder \in [Attempts -> Attempts \cup {Null}]
  /\ sharers \in [Shelves -> SUBSET Attempts]
  /\ holder \in [Shelves -> Attempts \cup {Null}]
  /\ operations \in [Ops -> Operation \cup {Null}]
  /\ lines \in [Attempts -> Line \cup {Null}]
  /\ movements \in [Attempts -> Movement \cup {Null}]
  /\ balances \in [Shelves -> Quantity \cup {Null}]

RecordedOnce ==
  \A l \in Recorded :
    /\ operations[lines[l].op] # Null
    /\ operations[lines[l].op].result = l
    /\ operations[lines[l].op].body.kind = "record"

(* The operation that settled a count is committed, for this very count    *)
(* and with the movement the count names.                                  *)
DeciderStands(l) ==
  LET o == operations[lines[l].settledBy] IN
  /\ o # Null
  /\ o.body.kind = "reconcile" /\ o.body.line = l
  /\ o.result = lines[l].movement

(* INV-9: the decision on a count and its movement exist together or not   *)
(* at all.  A settled count names the one movement that carried exactly    *)
(* its variance, a reconciliation movement is named by exactly one count,  *)
(* a count that matched is never settled, and the operation that decided   *)
(* is committed for this very count.  A recording leaves one observation,  *)
(* however often it arrives.                                               *)
SettledTogether ==
  /\ RecordedOnce
  /\ \A l \in Recorded : LET line == lines[l] IN
       /\ line.settledBy = Null <=> line.movement = Null
       /\ line.movement # Null =>
            /\ CountStatus(line) = "RECONCILED"
            /\ movements[line.movement] =
                 [shelf |-> line.shelf, delta |-> Variance(line),
                  op |-> line.settledBy, kind |-> "reconcile"]
            /\ DeciderStands(l)
  /\ \A m \in Posted : movements[m].kind = "reconcile" =>
       \E l \in Recorded :
         /\ lines[l].movement = m
         /\ \A k \in Recorded : lines[k].movement = m => k = l
  /\ \A o \in Ops :
       operations[o] # Null /\ operations[o].body.kind = "reconcile" =>
         LET l == operations[o].body.line IN
         l \in Recorded /\ lines[l].settledBy = o

(* Stock commands posted to a shelf, and counts settled on it.             *)
CommandsOn(s) == {m \in Posted : movements[m].shelf = s /\ movements[m].kind = "post"}
SettledOn(s) == {l \in Recorded : lines[l].shelf = s /\ lines[l].movement # Null}

(* Every unit on a shelf is explained once: by the stock commands posted   *)
(* to it and the discrepancies accepted on it.  Sales and receipts that    *)
(* fall between a count and its acceptance are kept, because what is       *)
(* applied is the difference that was seen, not the quantity.              *)
StockIsExplained ==
  \A s \in Shelves :
    OnHand(s) = MapThenSumSet(LAMBDA m : movements[m].delta, CommandsOn(s))
                + MapThenSumSet(LAMBDA l : Variance(lines[l]), SettledOn(s))

-----------------------------------------------------------------------------
(* INV-7, for counts: a repetition of a recording or of a decision that is *)
(* already committed gets the count it made or settled.  It is not told    *)
(* that the count is settled already, not even by its own first attempt.   *)
RepeatIsAnswered ==
  [][\A t \in Attempts :
       /\ pc[t] # "done" /\ pc'[t] = "done"
       /\ operations[OpOf(t)] # Null
       /\ operations[OpOf(t)].body = BodyOf(t)
       => answer'[t] \in {Reply("LOST"), Replay(t)}]_vars

RecordsNow(t) == lines[t] = Null /\ lines'[t] # Null

(* INV-9, where the shelf has a balance row: the expected quantity of a    *)
(* count is the quantity of its shelf at the moment the count is recorded, *)
(* because the shared lock has kept the row still since it was read.       *)
ExpectedIsCurrent ==
  [][\A t \in Attempts :
       RecordsNow(t) /\ t \in sharers[BodyOf(t).shelf]
         => lines'[t].expected = OnHand(BodyOf(t).shelf)]_vars

(* What an answer says to a client, as in LedgerProperties.                *)
Faults == {"LOST", "OUT_OF_RANGE", "INTERNAL"}

Word(code) ==
  IF code = "OK" THEN "recorded"
  ELSE IF code = "REPLAYED_WITH_DIFFERENT_BODY" THEN "replayed"
  ELSE IF code \in Faults THEN "fault" ELSE "refused"

Heard(t) ==
  IF answer[t] = Null THEN Null
  ELSE [word |-> Word(answer[t].code), result |-> answer[t].row]

(* What a client is shown of a command: the movement it posted, the count  *)
(* it recorded, or the count it settled.                                   *)
Shown(done) ==
  [body   |-> done.body,
   result |-> IF done.body.kind = "reconcile" THEN done.body.line ELSE done.result]

EntryOf(o) == IF operations[o] = Null THEN Null ELSE Shown(operations[o])

Promise == INSTANCE CommandPromise WITH
             Results  <- Attempts,
             recorded <- [o \in Ops |-> EntryOf(o)],
             asked    <- req,
             told     <- [t \in Attempts |-> Heard(t)]

ASSUME EntryAssumption == Null \notin [body : Body, result : Attempts]

(* INV-7, seen from the client: recordings and decisions are recorded or   *)
(* refused at one moment each, like any other command, although a decision *)
(* is looked up three times and may be refused before it is ever claimed.  *)
KeepsPromise == Promise!Spec

(* Every accepted request is answered: the locks on count lines, claims    *)
(* and shelves never wait for each other in a circle.                      *)
Answered == \A t \in Attempts : pc[t] = "lookup" ~> pc[t] = "done"
-----------------------------------------------------------------------------
(***************************************************************************)
(* The strengthening that makes the invariants inductive: what each        *)
(* attempt knows and which rows it has locked at each of its statements.   *)
(***************************************************************************)
Claimed == {"precondition", "snapshot", "shelf", "commit"}
Deciding(t) == pc[t] \in {"claim"} \cup Claimed /\ Kind(t) = "reconcile"

(* An attempt knows its request, is at a statement of its own kind of      *)
(* command, and has written nothing before it is done.                     *)
LocalInv ==
  \A t \in Attempts :
    /\ pc[t] # "idle" => req[t] \in Requests
    /\ pc[t] # "done" => lines[t] = Null /\ movements[t] = Null
    /\ pc[t] = "line" => Kind(t) = "reconcile"
    /\ pc[t] = "snapshot" => Kind(t) = "record"
    /\ pc[t] = "shelf" => Kind(t) # "record"
    /\ pc[t] = "commit" /\ Kind(t) = "record" => observed[t] \in Quantity

(* From its claim on, an attempt is the claimant of its operation id, and  *)
(* the id has no committed row.                                            *)
ClaimInv ==
  \A t \in Attempts : pc[t] \in Claimed =>
    claimant[OpOf(t)] = t /\ operations[OpOf(t)] = Null

(* An attempt that decides on a count holds its row, and the row is what   *)
(* it was when it was opened: there, and with a discrepancy nobody settled.*)
LineInv ==
  \A t \in Attempts : Deciding(t) =>
    /\ lineHolder[BodyOf(t).line] = t
    /\ opened[t] = lines[BodyOf(t).line]
    /\ opened[t] \in Line
    /\ opened[t].settledBy = Null /\ opened[t].movement = Null
    /\ Variance(opened[t]) # 0

(* Who is about to commit a posting is alone with the balance row and has  *)
(* room on it; who holds a row is about to commit to it; and readers of a  *)
(* row keep writers off it, so what they read still stands.                *)
ShelfInv ==
  /\ \A t \in Attempts : pc[t] = "commit" /\ Kind(t) # "record" =>
       holder[Target(t)] = t /\ Accepted(t)
  /\ \A s \in Shelves, t \in Attempts : holder[s] = t =>
       /\ pc[t] = "commit" /\ Kind(t) # "record"
       /\ Target(t) = s
       /\ sharers[s] = {}
  /\ \A s \in Shelves : \A t \in sharers[s] :
       /\ pc[t] = "commit" /\ Kind(t) = "record" /\ BodyOf(t).shelf = s
       /\ observed[t] = balances[s]

IInv == /\ TypeOK /\ LocalInv /\ ClaimInv /\ LineInv /\ ShelfInv
        /\ SettledTogether /\ StockIsExplained
        /\ IsFiniteSet(Posted) /\ IsFiniteSet(Recorded)
=============================================================================
