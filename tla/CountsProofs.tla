----------------------------- MODULE CountsProofs -----------------------------
(***************************************************************************)
(* Machine-checked proofs about physical counts, for any number of         *)
(* requests, operation ids and shelves.                                    *)
(***************************************************************************)
EXTENDS CountsProperties, FiniteSums, TLAPS

(* What a request that has arrived holds.                                  *)
LEMMA RequestShape ==
  ASSUME NEW t \in Attempts, req[t] \in Requests
  PROVE  /\ OpOf(t) \in Ops /\ BodyOf(t) \in Body
         /\ Kind(t) \in {"post", "record", "reconcile"}
         /\ Kind(t) = "reconcile" => BodyOf(t).line \in Attempts
         /\ Kind(t) # "reconcile" => BodyOf(t).shelf \in Shelves
         /\ Kind(t) = "record" => BodyOf(t).counted \in Quantity
         /\ Kind(t) = "post" => BodyOf(t).delta \in Int
  <1>1. req[t] \in Request
    BY CountsAssumption
  <1>2. OpOf(t) \in Ops /\ BodyOf(t) \in Body
    BY <1>1 DEF Request, OpOf, BodyOf
  <1>3. CASE BodyOf(t) \in PostBody
    BY <1>2, <1>3, CountsAssumption DEF PostBody, Kind
  <1>4. CASE BodyOf(t) \in RecordBody
    BY <1>2, <1>4 DEF RecordBody, Kind
  <1>5. CASE BodyOf(t) \in ReconcileBody
    BY <1>2, <1>5 DEF ReconcileBody, Kind
  <1>. QED  BY <1>2, <1>3, <1>4, <1>5 DEF Body

(* StockIsExplained, with functions to sum.                                *)
DeltaOf    == [m \in Attempts |-> movements[m].delta]
VarianceOf == [l \in Attempts |-> Variance(lines[l])]

Explained ==
  \A s \in Shelves :
    OnHand(s) = SumOver(DeltaOf, CommandsOn(s)) + SumOver(VarianceOf, SettledOn(s))

LEMMA StockInSums == StockIsExplained <=> Explained
  <1> SUFFICES ASSUME NEW s \in Shelves
               PROVE  /\ MapThenSumSet(LAMBDA m : movements[m].delta, CommandsOn(s))
                           = SumOver(DeltaOf, CommandsOn(s))
                      /\ MapThenSumSet(LAMBDA l : Variance(lines[l]), SettledOn(s))
                           = SumOver(VarianceOf, SettledOn(s))
    BY DEF StockIsExplained, Explained
  <1>1. CommandsOn(s) \subseteq Attempts /\ SettledOn(s) \subseteq Attempts
    BY DEF CommandsOn, SettledOn, Posted, Recorded
  <1>2. MapThenSumSet(LAMBDA m : movements[m].delta, CommandsOn(s))
          = SumOver(DeltaOf, CommandsOn(s))
    BY <1>1 DEF DeltaOf, SumOver, MapThenSumSet, MapThenFoldSet
  <1>3. MapThenSumSet(LAMBDA l : Variance(lines[l]), SettledOn(s))
          = SumOver(VarianceOf, SettledOn(s))
    BY <1>1 DEF VarianceOf, SumOver, MapThenSumSet, MapThenFoldSet
  <1>. QED  BY <1>2, <1>3

LEMMA StockInSumsNext == StockIsExplained' <=> Explained'
  BY StockInSums, PTL

LEMMA InitInv == Init => IInv
  <1> SUFFICES ASSUME Init PROVE IInv
    OBVIOUS
  <1> USE DEF Init
  <1>1. TypeOK
    BY DEF TypeOK, Stage
  <1>2. LocalInv /\ ClaimInv /\ LineInv /\ ShelfInv
    BY CountsAssumption DEF LocalInv, ClaimInv, LineInv, ShelfInv, Claimed, Deciding
  <1>3. SettledTogether
    BY DEF SettledTogether, RecordedOnce, Recorded, Posted
  <1>4. Posted = {} /\ Recorded = {}
    BY DEF Posted, Recorded
  <1>5. ASSUME NEW f PROVE SumOver(f, {}) = 0
    BY SumUnfold, FS_EmptySet
  <1>6. ASSUME NEW s \in Shelves
        PROVE  OnHand(s) = SumOver(DeltaOf, CommandsOn(s)) + SumOver(VarianceOf, SettledOn(s))
    <2>1. CommandsOn(s) = {} /\ SettledOn(s) = {}
      BY <1>4 DEF CommandsOn, SettledOn
    <2>. QED  BY <1>5, <2>1 DEF OnHand
  <1>7. StockIsExplained
    BY <1>6, StockInSums DEF Explained
  <1>. QED  BY <1>1, <1>2, <1>3, <1>4, <1>7, FS_EmptySet DEF IInv

(* A step that leaves the tables alone leaves alone whatever only they     *)
(* decide.                                                                 *)
Stored == /\ SettledTogether /\ StockIsExplained
          /\ IsFiniteSet(Posted) /\ IsFiniteSet(Recorded)

LEMMA TablesFrame ==
  ASSUME IInv, UNCHANGED tables
  PROVE  Stored'
  <1>1. UNCHANGED <<operations, lines, movements, balances>>
    BY DEF tables
  <1>2. SettledTogether'
    BY <1>1 DEF IInv, SettledTogether, RecordedOnce, DeciderStands, Recorded, Posted
  <1>3. StockIsExplained'
    <2>1. Explained /\ UNCHANGED <<DeltaOf, VarianceOf>>
      BY <1>1, StockInSums DEF IInv, DeltaOf, VarianceOf
    <2>2. Explained'
      BY <1>1, <2>1 DEF Explained, CommandsOn, SettledOn, Recorded, Posted, OnHand
    <2>. QED  BY <2>2, StockInSumsNext
  <1>4. Posted' = Posted /\ Recorded' = Recorded
    BY <1>1 DEF Posted, Recorded
  <1>. QED  BY <1>2, <1>3, <1>4 DEF IInv, Stored

(* What a committed operation is answered with.                            *)
LEMMA ReplayIsAnswer ==
  ASSUME TypeOK, NEW t \in Attempts, req[t] \in Requests,
         operations[OpOf(t)] # Null
  PROVE  Replay(t) \in Answer
  BY RequestShape DEF TypeOK, Replay, Reply, Ok, Answer, AnswerCodes, Operation
-----------------------------------------------------------------------------
(* One lemma for each kind of step.                                        *)

LEMMA ArriveInv ==
  ASSUME IInv, NEW t \in Attempts, Arrive(t)
  PROVE  IInv'
  <1> USE DEF Arrive, Goto, IInv
  <1>1. PICK r \in Requests : req' = [req EXCEPT ![t] = r]
    OBVIOUS
  <1>2. Stored'
    BY TablesFrame
  <1>3. TypeOK'
    BY <1>1 DEF TypeOK, Stage, locks, tables
  <1>4. LocalInv'
    BY <1>1 DEF TypeOK, LocalInv, tables, Kind, BodyOf
  <1>5. ClaimInv' /\ LineInv'
    BY <1>1 DEF TypeOK, ClaimInv, LineInv, Claimed, Deciding, locks, tables, Kind,
                BodyOf, OpOf
  <1>6. ShelfInv'
    BY <1>1 DEF TypeOK, ShelfInv, locks, tables, Kind, BodyOf, OpOf, Target, Accepted,
                After, Delta, OnHand
  <1>. QED  BY <1>2, <1>3, <1>4, <1>5, <1>6 DEF Stored

(* Whoever ends, having written to no row but those it holds, leaves the   *)
(* others what they hold and what they have read.                          *)
LEMMA OthersKeepTheirShelves ==
  ASSUME IInv, TypeOK', NEW t \in Attempts,
         \A u \in Attempts : u # t => pc'[u] = pc[u],
         pc'[t] = "done",
         UNCHANGED <<req, opened, observed>>,
         \A s \in Shelves : /\ holder'[s] = IF holder[s] = t THEN Null ELSE holder[s]
                            /\ sharers'[s] = sharers[s] \ {t}
                            /\ holder[s] # t => balances'[s] = balances[s]
  PROVE  ShelfInv'
  <1> USE DEF IInv
  <1>1. \A u \in Attempts : /\ Kind(u)' = Kind(u) /\ Target(u)' = Target(u)
                            /\ BodyOf(u)' = BodyOf(u) /\ Delta(u)' = Delta(u)
    BY DEF Kind, BodyOf, Target, Delta
  <1>2. ASSUME NEW u \in Attempts, pc'[u] = "commit", Kind(u)' # "record"
        PROVE  holder'[Target(u)'] = u /\ Accepted(u)'
    <2>1. u # t /\ pc[u] = "commit" /\ Kind(u) # "record"
      BY <1>1, <1>2
    <2>2. holder[Target(u)] = u /\ Accepted(u)
      BY <2>1 DEF ShelfInv
    <2>3. Target(u) \in Shelves
      BY <2>1, RequestShape DEF LocalInv, LineInv, Deciding, Claimed, Line, Target
    <2>4. Accepted(u)'
      BY <1>1, <2>1, <2>2, <2>3 DEF Accepted, After, OnHand
    <2>. QED  BY <1>1, <2>1, <2>2, <2>3, <2>4
  <1>3. ASSUME NEW s \in Shelves, NEW u \in Attempts, holder'[s] = u
        PROVE  /\ pc'[u] = "commit" /\ Kind(u)' # "record" /\ Target(u)' = s
               /\ sharers'[s] = {}
    BY <1>1, <1>3, CountsAssumption DEF ShelfInv
  <1>4. ASSUME NEW s \in Shelves, NEW u \in sharers'[s]
        PROVE  /\ pc'[u] = "commit" /\ Kind(u)' = "record" /\ BodyOf(u)'.shelf = s
               /\ observed'[u] = balances'[s]
    <2>1. u \in sharers[s] /\ u # t /\ u \in Attempts
      BY <1>4 DEF TypeOK
    <2>2. holder[s] # t
      BY <2>1 DEF ShelfInv
    <2>. QED  BY <1>1, <2>1, <2>2 DEF ShelfInv
  <1>. QED  BY <1>2, <1>3, <1>4 DEF ShelfInv, TypeOK

(* Whatever ends without writing: refusals, replays, aborts.               *)
LEMMA EndInv ==
  ASSUME IInv, NEW t \in Attempts, NEW a \in Answer, pc[t] \notin {"idle", "done"},
         Finish(t, a), UNCHANGED locals, UNCHANGED tables,
         Release(t) \/ (pc[t] = "lookup" /\ UNCHANGED locks)
  PROVE  IInv'
  <1> USE DEF Finish, IInv
  <1>1. Stored'
    BY TablesFrame
  <1>2. /\ claimant' \in [Ops -> Attempts \cup {Null}]
        /\ lineHolder' \in [Attempts -> Attempts \cup {Null}]
        /\ sharers' \in [Shelves -> SUBSET Attempts]
        /\ holder' \in [Shelves -> Attempts \cup {Null}]
        /\ \A u \in Attempts \ {t} :
             /\ \A o \in Ops : claimant[o] = u => claimant'[o] = u
             /\ \A l \in Attempts : lineHolder[l] = u => lineHolder'[l] = u
    <2>1. CASE Release(t)
      BY <2>1 DEF TypeOK, Release, Free
    <2>2. CASE UNCHANGED locks
      BY <2>2 DEF TypeOK, locks
    <2>. QED  BY <2>1, <2>2
  <1>3. TypeOK'
    BY <1>2 DEF TypeOK, Stage, locals, tables
  <1>4. LocalInv'
    BY DEF TypeOK, LocalInv, locals, tables, Kind, BodyOf
  <1>5. ClaimInv'
    <2> SUFFICES ASSUME NEW u \in Attempts, pc'[u] \in Claimed
                 PROVE  claimant'[OpOf(u)'] = u /\ operations'[OpOf(u)'] = Null
      BY DEF ClaimInv
    <2>1. u # t /\ pc[u] \in Claimed /\ OpOf(u)' = OpOf(u) /\ operations' = operations
      BY DEF TypeOK, Claimed, locals, tables, OpOf
    <2>2. OpOf(u) \in Ops
      BY <2>1, RequestShape DEF LocalInv, Claimed
    <2>. QED  BY <1>2, <2>1, <2>2 DEF ClaimInv
  <1>7. LineInv'
    <2> SUFFICES ASSUME NEW u \in Attempts, Deciding(u)'
                 PROVE  /\ lineHolder'[BodyOf(u).line'] = u
                        /\ opened'[u] = lines'[BodyOf(u).line']
                        /\ opened'[u] \in Line
                        /\ opened'[u].settledBy = Null /\ opened'[u].movement = Null
                        /\ Variance(opened'[u]) # 0
      BY DEF LineInv, Variance
    <2>1. u # t /\ Deciding(u) /\ BodyOf(u)' = BodyOf(u)
          /\ UNCHANGED <<opened, lines>>
      BY DEF TypeOK, Claimed, Deciding, Kind, BodyOf, locals, tables
    <2>2. BodyOf(u).line \in Attempts
      BY <2>1, RequestShape DEF LocalInv, Deciding, Claimed
    <2>. QED  BY <1>2, <2>1, <2>2 DEF LineInv
  <1>6. ShelfInv'
    <2>1. /\ \A s \in Shelves : /\ holder'[s] = IF holder[s] = t THEN Null ELSE holder[s]
                                /\ sharers'[s] = sharers[s] \ {t}
          /\ \A u \in Attempts : u # t => pc'[u] = pc[u]
          /\ pc'[t] = "done" /\ UNCHANGED <<req, opened, observed, balances>>
      BY DEF TypeOK, Release, Free, ShelfInv, locks, locals, tables
    <2>. QED  BY <1>3, <2>1, OthersKeepTheirShelves
  <1>. QED  BY <1>1, <1>3, <1>4, <1>5, <1>6, <1>7 DEF Stored

LEMMA RollbackInv ==
  ASSUME IInv, NEW t \in Attempts, NEW a \in Answer, pc[t] \notin {"idle", "done"},
         Rollback(t, a)
  PROVE  IInv'
  <1>1. Finish(t, a) /\ Release(t) /\ UNCHANGED locals /\ UNCHANGED tables
    BY DEF Rollback
  <1>. QED  BY <1>1, EndInv

LEMMA LookUpInv ==
  ASSUME IInv, NEW t \in Attempts, LookUp(t)
  PROVE  IInv'
  <1> USE DEF LookUp, IInv
  <1>1. req[t] \in Requests
    BY DEF LocalInv
  <1>2. CASE Settled(t)
    <2>1. Replay(t) \in Answer
      BY <1>1, <1>2, ReplayIsAnswer DEF Settled
    <2>. QED  BY <1>2, <2>1, EndInv
  <1>3. CASE ~Settled(t)
    <2>1. /\ pc' = [pc EXCEPT ![t] = IF Kind(t) = "reconcile" THEN "line" ELSE "claim"]
          /\ UNCHANGED <<locals, answer, locks, tables>>
      BY <1>3 DEF Goto
    <2>2. Stored'
      BY TablesFrame
    <2>3. TypeOK'
      BY <2>1 DEF TypeOK, Stage, InTx, locals, locks, tables
    <2>4. LocalInv'
      BY <2>1 DEF TypeOK, LocalInv, locals, tables, Kind, BodyOf
    <2>5. ClaimInv' /\ LineInv'
      BY <2>1 DEF TypeOK, ClaimInv, LineInv, Claimed, Deciding, locals, locks, tables,
                  Kind, BodyOf, OpOf
    <2>6. ShelfInv'
      BY <2>1 DEF TypeOK, ShelfInv, locals, locks, tables, Kind, BodyOf, OpOf, Target,
                  Accepted, After, Delta, OnHand
    <2>. QED  BY <2>2, <2>3, <2>4, <2>5, <2>6 DEF Stored
  <1>. QED  BY <1>2, <1>3

LEMMA OpenLineInv ==
  ASSUME IInv, NEW t \in Attempts, OpenLine(t)
  PROVE  IInv'
  <1> DEFINE l == BodyOf(t).line
  <1> USE DEF OpenLine, CanLockLine, Goto, IInv
  <1>1. req[t] \in Requests /\ Kind(t) = "reconcile" /\ l \in Attempts
    BY RequestShape DEF LocalInv
  <1>2. Stored'
    BY TablesFrame
  <1>3. /\ lines[l] \in Line /\ lines[l].movement = Null /\ lines[l].settledBy = Null
        /\ Variance(lines[l]) # 0
    <2>1. lines[l] \in Line /\ l \in Recorded
      BY <1>1 DEF TypeOK, Recorded
    <2>2. lines[l].settledBy = Null <=> lines[l].movement = Null
      BY <2>1 DEF SettledTogether
    <2>3. CountStatus(lines[l]) = "OPEN"
      OBVIOUS
    <2>4. Variance(lines[l]) # 0 /\ lines[l].movement = Null
      BY <2>3 DEF CountStatus
    <2>. QED  BY <2>1, <2>2, <2>4
  <1>4. TypeOK'
    BY <1>1, <1>3 DEF TypeOK, Stage, InTx, tables
  <1>5. LocalInv'
    BY <1>1 DEF TypeOK, LocalInv, tables, Kind, BodyOf
  <1>6. ClaimInv'
    BY DEF TypeOK, ClaimInv, Claimed, tables, OpOf
  <1>7. LineInv'
    <2> SUFFICES ASSUME NEW u \in Attempts, Deciding(u)'
                 PROVE  /\ lineHolder'[BodyOf(u).line'] = u
                        /\ opened'[u] = lines'[BodyOf(u).line']
                        /\ opened'[u] \in Line
                        /\ opened'[u].settledBy = Null /\ opened'[u].movement = Null
                        /\ Variance(opened'[u]) # 0
      BY DEF LineInv, Variance
    <2>1. BodyOf(u)' = BodyOf(u) /\ lines' = lines
      BY DEF BodyOf, tables
    <2>2. CASE u = t
      BY <1>1, <1>3, <2>1, <2>2 DEF TypeOK
    <2>3. CASE u # t
      <3>1. Deciding(u)
        BY <2>1, <2>3 DEF Deciding, Claimed, Kind, TypeOK
      <3>2. lineHolder[BodyOf(u).line] = u
        BY <3>1 DEF LineInv
      <3>3. BodyOf(u).line # l
        BY <3>2, CountsAssumption
      <3>4. opened'[u] = opened[u]
        BY <2>3 DEF TypeOK
      <3>5. /\ opened[u] = lines[BodyOf(u).line] /\ opened[u] \in Line
            /\ opened[u].settledBy = Null /\ opened[u].movement = Null
            /\ Variance(opened[u]) # 0
        BY <3>1 DEF LineInv
      <3>6. BodyOf(u).line \in Attempts
        BY <3>1, RequestShape DEF LocalInv, Deciding, Claimed
      <3>7. lineHolder'[BodyOf(u).line] = lineHolder[BodyOf(u).line]
        BY <1>1, <3>3, <3>6 DEF TypeOK
      <3>. QED  BY <2>1, <3>2, <3>4, <3>5, <3>7
    <2>. QED  BY <2>2, <2>3
  <1>8. ShelfInv'
    <2>1. \A u \in Attempts : u # t => pc'[u] = pc[u] /\ opened'[u] = opened[u]
      BY DEF TypeOK
    <2>2. pc[t] = "line" /\ pc'[t] = "claim"
      BY DEF TypeOK
    <2>3. \A u \in Attempts : BodyOf(u)' = BodyOf(u) /\ Kind(u)' = Kind(u)
      BY DEF BodyOf, Kind
    <2>4. \A u \in Attempts : u # t => Target(u)' = Target(u) /\ Delta(u)' = Delta(u)
      BY <2>1, <2>3 DEF Target, Delta
    <2>5. UNCHANGED <<movements, balances, operations, lines, holder, sharers, observed>>
      BY DEF tables
    <2>6. \A u \in Attempts : u # t => (Accepted(u)' <=> Accepted(u))
      BY <2>4, <2>5 DEF Accepted, After, OnHand
    <2> HIDE DEF IInv, OpenLine, CanLockLine, Goto
    <2>7. ShelfInv
      BY DEF IInv
    <2>8. ASSUME NEW u \in Attempts, pc'[u] = "commit", Kind(u)' # "record"
          PROVE  holder'[Target(u)'] = u /\ Accepted(u)'
      BY <2>1, <2>2, <2>3, <2>4, <2>5, <2>6, <2>7, <2>8 DEF ShelfInv
    <2>9. ASSUME NEW s \in Shelves, NEW u \in Attempts, holder'[s] = u
          PROVE  pc'[u] = "commit" /\ Kind(u)' # "record" /\ Target(u)' = s /\ sharers'[s] = {}
      BY <2>1, <2>2, <2>3, <2>4, <2>5, <2>7, <2>9 DEF ShelfInv
    <2>10. ASSUME NEW s \in Shelves, NEW u \in sharers'[s]
           PROVE  /\ pc'[u] = "commit" /\ Kind(u)' = "record" /\ BodyOf(u)'.shelf = s
                  /\ observed'[u] = balances'[s]
      <3>1. u \in Attempts /\ u \in sharers[s]
        BY <2>5, <2>10 DEF IInv, TypeOK
      <3>2. pc[u] = "commit" /\ Kind(u) = "record" /\ BodyOf(u).shelf = s /\ observed[u] = balances[s]
        BY <2>7, <3>1 DEF ShelfInv
      <3>. QED  BY <2>1, <2>2, <2>3, <2>5, <3>1, <3>2
    <2>. QED  BY <2>8, <2>9, <2>10 DEF ShelfInv
  <1>. QED  BY <1>2, <1>4, <1>5, <1>6, <1>7, <1>8 DEF Stored

LEMMA ClaimStepInv ==
  ASSUME IInv, NEW t \in Attempts, Claim(t)
  PROVE  IInv'
  <1> USE DEF Claim, Claimable, Goto, IInv
  <1>1. req[t] \in Requests /\ OpOf(t) \in Ops
    BY RequestShape DEF LocalInv
  <1>2. Stored'
    BY TablesFrame
  <1>3. TypeOK'
    BY <1>1 DEF TypeOK, Stage, InTx, locals, tables
  <1>4. LocalInv' /\ LineInv'
    BY <1>1 DEF TypeOK, LocalInv, LineInv, Deciding, Claimed, locals, tables, Kind, BodyOf
  <1>5. ClaimInv'
    BY <1>1, CountsAssumption DEF TypeOK, ClaimInv, Claimed, locals, tables, OpOf
  <1>6. ShelfInv'
    BY DEF TypeOK, ShelfInv, locals, tables, Kind, BodyOf, OpOf, Target, Accepted, After, Delta,
           OnHand
  <1>. QED  BY <1>2, <1>3, <1>4, <1>5, <1>6 DEF Stored

LEMMA ProceedInv ==
  ASSUME IInv, NEW t \in Attempts, Proceed(t)
  PROVE  IInv'
  <1> USE DEF Proceed, Goto, IInv
  <1>1. Stored'
    BY TablesFrame
  <1>2. TypeOK'
    BY DEF TypeOK, Stage, InTx, locals, locks, tables
  <1>3. LocalInv' /\ ClaimInv' /\ LineInv'
    BY DEF TypeOK, LocalInv, ClaimInv, LineInv, Deciding, Claimed, locals, locks, tables, Kind,
           BodyOf, OpOf
  <1>4. ShelfInv'
    BY DEF TypeOK, ShelfInv, locals, locks, tables, Kind, BodyOf, OpOf, Target, Accepted, After,
           Delta, OnHand
  <1>. QED  BY <1>1, <1>2, <1>3, <1>4 DEF Stored

LEMMA SnapshotInv ==
  ASSUME IInv, NEW t \in Attempts, Snapshot(t)
  PROVE  IInv'
  <1> DEFINE z == BodyOf(t).shelf
  <1> USE DEF Snapshot, Goto, IInv
  <1>1. req[t] \in Requests /\ Kind(t) = "record" /\ z \in Shelves
    BY RequestShape DEF LocalInv
  <1>2. Stored'
    BY TablesFrame
  <1>3. OnHand(z) \in Quantity
    BY <1>1, CountsAssumption DEF TypeOK, OnHand, Quantity
  <1>4. TypeOK'
    BY <1>1, <1>3 DEF TypeOK, Stage, InTx, tables
  <1>5. LocalInv'
    BY <1>1, <1>3 DEF TypeOK, LocalInv, tables, Kind, BodyOf
  <1>6. ClaimInv' /\ LineInv'
    BY <1>1 DEF TypeOK, ClaimInv, LineInv, Deciding, Claimed, tables, Kind, BodyOf, OpOf
  <1>7. ShelfInv'
    <2>1. /\ \A u \in Attempts : u # t => pc'[u] = pc[u] /\ observed'[u] = observed[u]
          /\ pc'[t] = "commit" /\ pc[t] = "snapshot" /\ observed'[t] = OnHand(z)
          /\ UNCHANGED <<req, opened, holder, balances>>
      BY DEF TypeOK, tables
    <2>2. \A u \in Attempts : /\ Kind(u)' = Kind(u) /\ Target(u)' = Target(u)
                              /\ BodyOf(u)' = BodyOf(u) /\ Accepted(u)' = Accepted(u)
      BY <2>1 DEF Kind, BodyOf, Target, Accepted, After, Delta, OnHand
    <2>3. \A s \in Shelves, u \in Attempts : u \in sharers'[s] =>
            u \in sharers[s] \/ (u = t /\ s = z /\ balances[s] # Null /\ holder[s] = Null)
      BY DEF TypeOK
    <2>4. ASSUME NEW u \in Attempts, pc'[u] = "commit", Kind(u)' # "record"
          PROVE  holder'[Target(u)'] = u /\ Accepted(u)'
      BY <1>1, <2>1, <2>2, <2>4 DEF ShelfInv
    <2>5. ASSUME NEW s \in Shelves, NEW u \in Attempts, holder'[s] = u
          PROVE  /\ pc'[u] = "commit" /\ Kind(u)' # "record" /\ Target(u)' = s
                 /\ sharers'[s] = {}
      <3>1. pc[u] = "commit" /\ Kind(u) # "record" /\ Target(u) = s /\ sharers[s] = {}
        BY <2>1, <2>5 DEF ShelfInv
      <3>2. sharers'[s] \in SUBSET Attempts
        BY <1>4 DEF TypeOK
      <3>3. sharers'[s] = {}
        BY <2>1, <2>3, <2>5, <3>1, <3>2, CountsAssumption
      <3>. QED  BY <2>1, <2>2, <3>1, <3>3
    <2>6. ASSUME NEW s \in Shelves, NEW u \in sharers'[s]
          PROVE  /\ pc'[u] = "commit" /\ Kind(u)' = "record" /\ BodyOf(u)'.shelf = s
                 /\ observed'[u] = balances'[s]
      <3>1. u \in Attempts
        BY <1>4 DEF TypeOK
      <3>2. CASE u = t /\ s = z /\ balances[s] # Null
        BY <1>1, <2>1, <2>2, <3>1, <3>2 DEF OnHand
      <3>3. CASE u \in sharers[s]
        <4>1. pc[u] = "commit"
          BY <3>3 DEF ShelfInv
        <4>. QED  BY <2>1, <2>2, <3>1, <3>3, <4>1 DEF ShelfInv
      <3>. QED  BY <2>3, <3>1, <3>2, <3>3
    <2>. QED  BY <2>4, <2>5, <2>6 DEF ShelfInv, TypeOK
  <1>. QED  BY <1>2, <1>4, <1>5, <1>6, <1>7 DEF Stored

LEMMA LockShelfInv ==
  ASSUME IInv, NEW t \in Attempts, LockShelf(t)
  PROVE  IInv'
  <1> USE DEF LockShelf, CanLockShelf, Goto, IInv
  <1>1. req[t] \in Requests /\ Kind(t) # "record" /\ Target(t) \in Shelves
    BY RequestShape DEF LocalInv, LineInv, Deciding, Claimed, Line, Target
  <1>2. Stored'
    BY TablesFrame
  <1>3. TypeOK'
    BY <1>1 DEF TypeOK, Stage, InTx, locals, tables
  <1>4. LocalInv' /\ ClaimInv' /\ LineInv'
    BY <1>1 DEF TypeOK, LocalInv, ClaimInv, LineInv, Deciding, Claimed, locals, tables, Kind,
                BodyOf, OpOf
  <1>5. ShelfInv'
    <2>1. /\ \A u \in Attempts : u # t => pc'[u] = pc[u]
          /\ pc'[t] = "commit" /\ pc[t] = "shelf"
          /\ \A s \in Shelves : holder'[s] = IF s = Target(t) THEN t ELSE holder[s]
          /\ holder[Target(t)] = Null /\ sharers[Target(t)] = {}
          /\ UNCHANGED <<req, opened, observed, sharers, balances>>
      BY <1>1 DEF TypeOK, locals, tables
    <2>2. \A u \in Attempts : /\ Kind(u)' = Kind(u) /\ Target(u)' = Target(u)
                              /\ BodyOf(u)' = BodyOf(u) /\ Accepted(u)' = Accepted(u)
      BY <2>1 DEF Kind, BodyOf, Target, Accepted, After, Delta, OnHand
    <2>3. ASSUME NEW u \in Attempts, pc'[u] = "commit", Kind(u)' # "record"
          PROVE  holder'[Target(u)'] = u /\ Accepted(u)'
      <3>1. CASE u = t
        BY <1>1, <2>1, <2>2, <3>1
      <3>2. CASE u # t
        <4>1. holder[Target(u)] = u /\ Accepted(u)
          BY <2>1, <2>2, <2>3, <3>2 DEF ShelfInv
        <4>2. Target(u) \in Shelves
          BY <2>1, <2>2, <2>3, <3>2, RequestShape
             DEF LocalInv, LineInv, Deciding, Claimed, Line, Target
        <4>. QED  BY <2>1, <2>2, <4>1, <4>2, CountsAssumption
      <3>. QED  BY <3>1, <3>2
    <2>4. ASSUME NEW s \in Shelves, NEW u \in Attempts, holder'[s] = u
          PROVE  /\ pc'[u] = "commit" /\ Kind(u)' # "record" /\ Target(u)' = s
                 /\ sharers'[s] = {}
      BY <1>1, <2>1, <2>2, <2>4 DEF ShelfInv
    <2>5. ASSUME NEW s \in Shelves, NEW u \in sharers'[s]
          PROVE  /\ pc'[u] = "commit" /\ Kind(u)' = "record" /\ BodyOf(u)'.shelf = s
                 /\ observed'[u] = balances'[s]
      <3>1. u \in Attempts
        BY <1>3 DEF TypeOK
      <3>. QED  BY <1>1, <2>1, <2>2, <2>5, <3>1 DEF ShelfInv
    <2>. QED  BY <2>3, <2>4, <2>5 DEF ShelfInv, TypeOK
  <1>. QED  BY <1>2, <1>3, <1>4, <1>5 DEF Stored

(* The movement a settled count names is committed, and so is the          *)
(* operation that settled it.                                              *)
LEMMA SettledIsPosted ==
  ASSUME IInv, NEW k \in Recorded, lines[k].movement # Null
  PROVE  /\ lines[k].movement \in Posted
         /\ lines[k].settledBy \in Ops
         /\ DeciderStands(k)
  <1> USE DEF IInv
  <1>1. lines[k] \in Line
    BY DEF TypeOK, Recorded
  <1>2. /\ lines[k].movement \in Attempts /\ lines[k].settledBy \in Ops
        /\ lines[k].shelf \in Shelves /\ Variance(lines[k]) \in Int
    <2>1. lines[k].settledBy # Null
      BY DEF SettledTogether
    <2>2. /\ lines[k].movement \in Attempts /\ lines[k].settledBy \in Ops
          /\ lines[k].shelf \in Shelves
      BY <1>1, <2>1 DEF Line
    <2>3. lines[k].counted \in Int /\ lines[k].expected \in Int
      BY <1>1, CountsAssumption DEF Line, Quantity
    <2>. QED  BY <2>2, <2>3 DEF Variance
  <1>3. movements[lines[k].movement] \in Movement
    <2>1. movements[lines[k].movement] =
            [shelf |-> lines[k].shelf, delta |-> Variance(lines[k]),
             op |-> lines[k].settledBy, kind |-> "reconcile"]
      BY DEF SettledTogether
    <2>. QED  BY <1>2, <2>1 DEF Movement
  <1>4. DeciderStands(k)
    BY DEF SettledTogether
  <1>. QED  BY <1>2, <1>3, <1>4, CountsAssumption DEF Posted

LEMMA CommitRecordInv ==
  ASSUME IInv, NEW t \in Attempts, CommitRecord(t)
  PROVE  IInv'
  <1> DEFINE n == [shelf |-> BodyOf(t).shelf, expected |-> observed[t],
                   counted |-> BodyOf(t).counted, op |-> OpOf(t),
                   settledBy |-> Null, movement |-> Null]
             p == [body |-> BodyOf(t), result |-> t]
  <1> USE DEF CommitRecord, Finish, IInv
  <1>1. /\ pc[t] = "commit" /\ Kind(t) = "record" /\ req[t] \in Requests
        /\ OpOf(t) \in Ops /\ operations[OpOf(t)] = Null
        /\ lines[t] = Null /\ movements[t] = Null
    BY RequestShape DEF LocalInv, ClaimInv, Claimed
  <1>2. n \in Line /\ p \in Operation /\ n # Null /\ p # Null
    BY <1>1, RequestShape, CountsAssumption DEF LocalInv, Line, Operation
  <1>3. /\ lines' = [lines EXCEPT ![t] = n]
        /\ operations' = [operations EXCEPT ![OpOf(t)] = p]
        /\ UNCHANGED <<movements, balances, req, observed, opened>>
        /\ pc' = [pc EXCEPT ![t] = "done"]
    BY DEF locals
  <1>4. PICK a \in Answer : answer' = [answer EXCEPT ![t] = a]
    BY DEF Ok, Reply, Answer, AnswerCodes
  <1>5. TypeOK'
    BY <1>1, <1>2, <1>3, <1>4 DEF TypeOK, Stage, Release, Free
  <1>6. LocalInv'
    BY <1>3 DEF TypeOK, LocalInv, Kind, BodyOf
  <1>7. ClaimInv'
    BY <1>1, <1>3, RequestShape DEF TypeOK, LocalInv, ClaimInv, Claimed, Release, Free, OpOf
  <1>8. LineInv'
    <2> SUFFICES ASSUME NEW u \in Attempts, Deciding(u)'
                 PROVE  /\ lineHolder'[BodyOf(u).line'] = u
                        /\ opened'[u] = lines'[BodyOf(u).line']
                        /\ opened'[u] \in Line
                        /\ opened'[u].settledBy = Null /\ opened'[u].movement = Null
                        /\ Variance(opened'[u]) # 0
      BY DEF LineInv, Variance
    <2>1. u # t /\ Deciding(u) /\ BodyOf(u)' = BodyOf(u)
      BY <1>3 DEF TypeOK, Claimed, Deciding, Kind, BodyOf
    <2>2. BodyOf(u).line \in Attempts
      BY <2>1, RequestShape DEF LocalInv, Deciding, Claimed
    <2>3. /\ lineHolder[BodyOf(u).line] = u
          /\ opened[u] = lines[BodyOf(u).line] /\ opened[u] \in Line
          /\ opened[u].settledBy = Null /\ opened[u].movement = Null
          /\ Variance(opened[u]) # 0
      BY <2>1 DEF LineInv
    <2>4. BodyOf(u).line # t
      BY <1>1, <2>3, CountsAssumption
    <2>5. lineHolder'[BodyOf(u).line] = u /\ lines'[BodyOf(u).line] = lines[BodyOf(u).line]
      BY <1>3, <2>1, <2>2, <2>3, <2>4 DEF TypeOK, Release, Free
    <2>. QED  BY <1>3, <2>1, <2>3, <2>5
  <1>9. ShelfInv'
    <2>1. /\ \A u \in Attempts : u # t => pc'[u] = pc[u]
          /\ pc'[t] = "done"
          /\ \A s \in Shelves : /\ holder'[s] = IF holder[s] = t THEN Null ELSE holder[s]
                                /\ sharers'[s] = sharers[s] \ {t}
      BY <1>3 DEF TypeOK, Release, Free
    <2>. QED  BY <1>3, <1>5, <2>1, OthersKeepTheirShelves
  <1>10. SettledTogether'
    <2>1. /\ lines'[t] = n /\ \A l \in Attempts \ {t} : lines'[l] = lines[l]
          /\ operations'[OpOf(t)] = p
          /\ \A o \in Ops \ {OpOf(t)} : operations'[o] = operations[o]
          /\ UNCHANGED Posted /\ Recorded' = Recorded \cup {t} /\ t \notin Recorded
      BY <1>1, <1>2, <1>3 DEF TypeOK, Posted, Recorded
    <2>2. \A l \in Recorded : lines[l] \in Line
      BY DEF TypeOK, Recorded
    <2>3. RecordedOnce'
      <3>1. \A l \in Recorded : lines[l].op \in Ops \ {OpOf(t)}
        BY <1>1, <2>2 DEF SettledTogether, RecordedOnce, Line
      <3>. QED  BY <1>1, <1>2, <2>1, <3>1 DEF SettledTogether, RecordedOnce, Recorded, Kind
    <2>4. ASSUME NEW l \in Recorded'
          PROVE  /\ lines'[l].settledBy = Null <=> lines'[l].movement = Null
                 /\ lines'[l].movement # Null =>
                      /\ CountStatus(lines'[l]) = "RECONCILED"
                      /\ movements'[lines'[l].movement] =
                           [shelf |-> lines'[l].shelf, delta |-> Variance(lines'[l]),
                            op |-> lines'[l].settledBy, kind |-> "reconcile"]
                      /\ DeciderStands(l)'
      <3>1. CASE l = t
        BY <2>1, <3>1
      <3>2. CASE l # t
        <4>1. l \in Recorded /\ lines'[l] = lines[l]
          BY <2>1, <2>4, <3>2 DEF Recorded
        <4>2. lines[l].movement # Null => DeciderStands(l)'
          <5>1. lines[l].movement # Null =>
                  /\ lines[l].settledBy \in Ops \ {OpOf(t)} /\ DeciderStands(l)
            BY <1>1, <4>1, SettledIsPosted DEF DeciderStands
          <5>. QED  BY <2>1, <4>1, <5>1 DEF DeciderStands
        <4>. QED  BY <1>3, <4>1, <4>2 DEF SettledTogether
      <3>. QED  BY <3>1, <3>2
    <2>5. ASSUME NEW m \in Posted', movements'[m].kind = "reconcile"
          PROVE  \E l \in Recorded' :
                   /\ lines'[l].movement = m
                   /\ \A k \in Recorded' : lines'[k].movement = m => k = l
      <3>1. PICK l \in Recorded : /\ lines[l].movement = m
                                  /\ \A k \in Recorded : lines[k].movement = m => k = l
        BY <1>3, <2>1, <2>5 DEF SettledTogether
      <3>2. m # Null /\ l # t /\ l \in Attempts
        BY <2>1, <2>5, CountsAssumption DEF Posted, Recorded
      <3>. QED  BY <2>1, <3>1, <3>2 DEF Recorded
    <2>6. ASSUME NEW o \in Ops, operations'[o] # Null, operations'[o].body.kind = "reconcile"
          PROVE  LET l == operations'[o].body.line IN
                 l \in Recorded' /\ lines'[l].settledBy = o
      <3>1. o # OpOf(t)
        BY <1>1, <2>1, <2>6 DEF Kind
      <3>. QED  BY <2>1, <2>6, <3>1 DEF SettledTogether, Recorded
    <2>. QED  BY <2>3, <2>4, <2>5, <2>6 DEF SettledTogether, CountStatus, Variance
  <1>11. StockIsExplained'
    <2>1. ASSUME NEW s \in Shelves
          PROVE  OnHand(s)' = SumOver(DeltaOf, CommandsOn(s))' + SumOver(VarianceOf, SettledOn(s))'
      <3>1. OnHand(s)' = OnHand(s) /\ DeltaOf' = DeltaOf /\ CommandsOn(s)' = CommandsOn(s)
        BY <1>3 DEF OnHand, DeltaOf, CommandsOn, Posted
      <3>2. SettledOn(s)' = SettledOn(s) /\ t \notin SettledOn(s)
        BY <1>1, <1>2, <1>3 DEF TypeOK, SettledOn, Recorded
      <3>3. \A l \in SettledOn(s) : VarianceOf'[l] = VarianceOf[l]
        BY <1>3, <3>2 DEF VarianceOf, SettledOn, Recorded, TypeOK
      <3>4. IsFiniteSet(SettledOn(s))
        BY FS_Subset DEF SettledOn
      <3>5. SumOver(VarianceOf', SettledOn(s)) = SumOver(VarianceOf, SettledOn(s))
        BY <3>3, <3>4, SumCongruence
      <3>. QED  BY <3>1, <3>2, <3>5, StockInSums DEF Explained
    <2>. QED  BY <2>1, StockInSumsNext DEF Explained
  <1>12. IsFiniteSet(Posted)' /\ IsFiniteSet(Recorded)'
    <2>1. Posted' = Posted /\ Recorded' = Recorded \cup {t}
      BY <1>2, <1>3 DEF TypeOK, Posted, Recorded
    <2>. QED  BY <2>1, FS_AddElement
  <1>. QED  BY <1>5, <1>6, <1>7, <1>8, <1>9, <1>10, <1>11, <1>12

(* What is so when a posting commits.                                      *)
LEMMA PostingFacts ==
  ASSUME IInv, NEW t \in Attempts, CommitPosting(t)
  PROVE  /\ req[t] \in Requests /\ OpOf(t) \in Ops /\ Kind(t) \in {"post", "reconcile"}
         /\ operations[OpOf(t)] = Null
         /\ lines[t] = Null /\ movements[t] = Null
         /\ Target(t) \in Shelves /\ Delta(t) \in Int /\ After(t) \in Quantity
         /\ holder[Target(t)] = t
         /\ Kind(t) = "reconcile" =>
              /\ BodyOf(t).line \in Attempts /\ BodyOf(t).line # t
              /\ lineHolder[BodyOf(t).line] = t
              /\ lines[BodyOf(t).line] = opened[t] /\ opened[t] \in Line
              /\ opened[t].settledBy = Null /\ opened[t].movement = Null
              /\ Variance(opened[t]) # 0
         /\ ~SettledMeanwhile(t)
  <1> USE DEF IInv
  <1>1. /\ pc[t] = "commit" /\ req[t] \in Requests /\ OpOf(t) \in Ops
        /\ Kind(t) \in {"post", "reconcile"}
        /\ operations[OpOf(t)] = Null /\ lines[t] = Null /\ movements[t] = Null
    BY RequestShape DEF CommitPosting, LocalInv, ClaimInv, Claimed
  <1>2. Kind(t) = "reconcile" =>
              /\ BodyOf(t).line \in Attempts
              /\ lineHolder[BodyOf(t).line] = t
              /\ lines[BodyOf(t).line] = opened[t] /\ opened[t] \in Line
              /\ opened[t].settledBy = Null /\ opened[t].movement = Null
              /\ Variance(opened[t]) # 0
    BY <1>1, RequestShape DEF LineInv, Deciding, Claimed
  <1>3. Kind(t) = "reconcile" => BodyOf(t).line # t
    BY <1>1, <1>2, CountsAssumption
  <1>4. Target(t) \in Shelves /\ Delta(t) \in Int
    BY <1>1, <1>2, RequestShape, CountsAssumption DEF Target, Delta, Line, Variance, Quantity
  <1>5. holder[Target(t)] = t /\ After(t) \in Quantity
    BY <1>1 DEF ShelfInv, Accepted
  <1>. QED  BY <1>1, <1>2, <1>3, <1>4, <1>5 DEF SettledMeanwhile

LEMMA CommitPostingInv ==
  ASSUME IInv, NEW t \in Attempts, CommitPosting(t)
  PROVE  IInv'
  <1> DEFINE n == [shelf |-> Target(t), delta |-> Delta(t), op |-> OpOf(t), kind |-> Kind(t)]
             p == [body |-> BodyOf(t), result |-> t]
             l == BodyOf(t).line
             o == OpOf(t)
             z == Target(t)
             decides == Kind(t) = "reconcile"
  <1> USE DEF IInv
  <1>1. /\ req[t] \in Requests /\ o \in Ops /\ Kind(t) \in {"post", "reconcile"}
        /\ operations[o] = Null
        /\ lines[t] = Null /\ movements[t] = Null
        /\ z \in Shelves /\ Delta(t) \in Int /\ After(t) \in Quantity
        /\ holder[z] = t
        /\ decides => /\ l \in Attempts /\ l # t /\ lineHolder[l] = t
                      /\ lines[l] = opened[t] /\ opened[t] \in Line
                      /\ opened[t].settledBy = Null /\ opened[t].movement = Null
                      /\ Variance(opened[t]) # 0
    BY PostingFacts
  <1>2. n \in Movement /\ p \in Operation /\ n # Null /\ p # Null
    <2>1. n \in Movement /\ p \in Operation
      BY <1>1, RequestShape DEF Movement, Operation
    <2>. QED  BY <2>1, CountsAssumption
  <1>3. /\ movements' = [movements EXCEPT ![t] = n]
        /\ balances' = [balances EXCEPT ![z] = After(t)]
        /\ operations' = [operations EXCEPT ![o] = p]
        /\ Settle(t) /\ Release(t)
        /\ UNCHANGED <<req, observed, opened>>
        /\ pc' = [pc EXCEPT ![t] = "done"]
    BY PostingFacts DEF CommitPosting, Finish, locals
  <1>4. PICK a \in Answer : answer' = [answer EXCEPT ![t] = a]
    <2>1. PICK a \in {Ok(IF decides THEN l ELSE t), Reply("LOST")} :
            answer' = [answer EXCEPT ![t] = a]
      BY PostingFacts DEF CommitPosting, Finish
    <2>2. Ok(IF decides THEN l ELSE t) \in Answer /\ Reply("LOST") \in Answer
      BY <1>1 DEF Ok, Reply, Answer, AnswerCodes
    <2>. QED  BY <2>1, <2>2
  <1>5. ASSUME NEW k \in Attempts
        PROVE  lines'[k] = IF decides /\ k = l
                           THEN [lines[k] EXCEPT !.settledBy = o, !.movement = t]
                           ELSE lines[k]
    <2>1. lines \in [Attempts -> Line \cup {Null}]
      BY DEF TypeOK
    <2>2. IF decides THEN lines' = [lines EXCEPT ![l].settledBy = o, ![l].movement = t]
          ELSE lines' = lines
      BY <1>3 DEF Settle
    <2> HIDE DEF decides, l, o
    <2>. QED  BY <2>1, <2>2
  <1>6. decides => /\ lines'[l] \in Line /\ lines'[l] # Null
                   /\ lines'[l].settledBy = o /\ lines'[l].movement = t
                   /\ lines'[l].shelf = opened[t].shelf /\ lines'[l].op = opened[t].op
                   /\ Variance(lines'[l]) = Variance(opened[t])
    <2> SUFFICES ASSUME decides PROVE lines'[l] \in Line /\ lines'[l] # Null
                   /\ lines'[l].settledBy = o /\ lines'[l].movement = t
                   /\ lines'[l].shelf = opened[t].shelf /\ lines'[l].op = opened[t].op
                   /\ Variance(lines'[l]) = Variance(opened[t])
      OBVIOUS
    <2>1. lines'[l] = [opened[t] EXCEPT !.settledBy = o, !.movement = t]
      BY <1>1, <1>5
    <2>2. lines'[l] \in Line /\ lines'[l].settledBy = o /\ lines'[l].movement = t
          /\ lines'[l].shelf = opened[t].shelf /\ lines'[l].op = opened[t].op
          /\ lines'[l].counted = opened[t].counted /\ lines'[l].expected = opened[t].expected
      BY <1>1, <2>1 DEF Line
    <2>. QED  BY <2>2, CountsAssumption DEF Variance
  <1>7. TypeOK'
    <2>1. lines' \in [Attempts -> Line \cup {Null}]
      <3>1. \A k \in Attempts : lines'[k] \in Line \cup {Null}
        BY <1>5, <1>6 DEF TypeOK
      <3>2. lines' = [k \in Attempts |-> lines'[k]]
        BY <1>3 DEF Settle, TypeOK
      <3>. QED  BY <3>1, <3>2
    <2>. QED  BY <1>1, <1>2, <1>3, <1>4, <2>1 DEF TypeOK, Stage, Release, Free
  <1>8. LocalInv'
    <2>1. \A k \in Attempts : lines[k] = Null => lines'[k] = Null
      BY <1>1, <1>5, CountsAssumption
    <2>2. \A u \in Attempts : u # t => pc'[u] = pc[u] /\ movements'[u] = movements[u]
      BY <1>3 DEF TypeOK
    <2>3. pc'[t] = "done" /\ \A u \in Attempts : Kind(u)' = Kind(u)
      BY <1>3 DEF TypeOK, Kind, BodyOf
    <2>4. req' = req /\ observed' = observed
      BY <1>3
    <2>5. ASSUME NEW u \in Attempts
          PROVE  /\ pc'[u] # "idle" => req'[u] \in Requests
                 /\ pc'[u] # "done" => lines'[u] = Null /\ movements'[u] = Null
                 /\ pc'[u] = "line" => Kind(u)' = "reconcile"
                 /\ pc'[u] = "snapshot" => Kind(u)' = "record"
                 /\ pc'[u] = "shelf" => Kind(u)' # "record"
                 /\ pc'[u] = "commit" /\ Kind(u)' = "record" => observed'[u] \in Quantity
      <3>1. CASE u = t
        BY <1>1, <2>3, <2>4, <3>1
      <3>2. CASE u # t
        <4>1. pc'[u] = pc[u] /\ movements'[u] = movements[u] /\ Kind(u)' = Kind(u)
          BY <2>2, <2>3, <3>2
        <4>. QED  BY <2>1, <2>4, <4>1 DEF LocalInv
      <3>. QED  BY <3>1, <3>2
    <2>. QED  BY <2>5 DEF LocalInv
  <1>9. ClaimInv'
    <2> SUFFICES ASSUME NEW u \in Attempts, pc'[u] \in Claimed
                 PROVE  claimant'[OpOf(u)'] = u /\ operations'[OpOf(u)'] = Null
      BY DEF ClaimInv
    <2>1. u # t /\ pc[u] \in Claimed /\ OpOf(u)' = OpOf(u)
      BY <1>3 DEF TypeOK, Claimed, OpOf
    <2>2. OpOf(u) \in Ops
      BY <2>1, RequestShape DEF LocalInv, Claimed
    <2>3. claimant[OpOf(u)] = u /\ operations[OpOf(u)] = Null /\ claimant[o] = t
      BY <2>1, PostingFacts DEF CommitPosting, ClaimInv, Claimed
    <2>4. claimant'[OpOf(u)] = u
      BY <1>3, <2>1, <2>2, <2>3 DEF TypeOK, Release, Free
    <2>. QED  BY <1>3, <2>1, <2>2, <2>3, <2>4 DEF TypeOK
  <1>10. LineInv'
    <2> SUFFICES ASSUME NEW u \in Attempts, Deciding(u)'
                 PROVE  /\ lineHolder'[BodyOf(u).line'] = u
                        /\ opened'[u] = lines'[BodyOf(u).line']
                        /\ opened'[u] \in Line
                        /\ opened'[u].settledBy = Null /\ opened'[u].movement = Null
                        /\ Variance(opened'[u]) # 0
      BY DEF LineInv, Variance
    <2>1. u # t /\ Deciding(u) /\ BodyOf(u)' = BodyOf(u)
      BY <1>3 DEF TypeOK, Claimed, Deciding, Kind, BodyOf
    <2>2. BodyOf(u).line \in Attempts
      BY <2>1, RequestShape DEF LocalInv, Deciding, Claimed
    <2>3. /\ lineHolder[BodyOf(u).line] = u
          /\ opened[u] = lines[BodyOf(u).line] /\ opened[u] \in Line
          /\ opened[u].settledBy = Null /\ opened[u].movement = Null
          /\ Variance(opened[u]) # 0
      BY <2>1 DEF LineInv
    <2>4. decides => BodyOf(u).line # l
      BY <1>1, <2>1, <2>3
    <2>5. lineHolder'[BodyOf(u).line] = u /\ lines'[BodyOf(u).line] = lines[BodyOf(u).line]
      BY <1>3, <1>5, <2>1, <2>2, <2>3, <2>4 DEF TypeOK, Release, Free
    <2>. QED  BY <1>3, <2>1, <2>3, <2>5
  <1>11. ShelfInv'
    <2>1. /\ \A u \in Attempts : u # t => pc'[u] = pc[u]
          /\ pc'[t] = "done"
          /\ \A s \in Shelves : /\ holder'[s] = IF holder[s] = t THEN Null ELSE holder[s]
                                /\ sharers'[s] = sharers[s] \ {t}
                                /\ holder[s] # t => balances'[s] = balances[s]
      BY <1>1, <1>3 DEF TypeOK, Release, Free
    <2>. QED  BY <1>3, <1>7, <2>1, OthersKeepTheirShelves
  <1>12. /\ movements'[t] = n /\ \A m \in Attempts \ {t} : movements'[m] = movements[m]
         /\ operations'[o] = p /\ \A q \in Ops \ {o} : operations'[q] = operations[q]
         /\ Posted' = Posted \cup {t} /\ t \notin Posted
         /\ Recorded' = Recorded /\ t \notin Recorded
    <2>1. /\ movements'[t] = n /\ \A m \in Attempts \ {t} : movements'[m] = movements[m]
          /\ operations'[o] = p /\ \A q \in Ops \ {o} : operations'[q] = operations[q]
      BY <1>1, <1>3 DEF TypeOK
    <2>2. ASSUME NEW k \in Attempts
          PROVE  lines'[k] # Null <=> lines[k] # Null
      <3>1. CASE decides /\ k = l
        BY <1>1, <1>6, <3>1, CountsAssumption
      <3>2. CASE ~(decides /\ k = l)
        BY <1>5, <3>2
      <3>. QED  BY <3>1, <3>2
    <2>. QED  BY <1>1, <1>2, <2>1, <2>2 DEF Posted, Recorded
  <1>13. SettledTogether'
    <2>1. RecordedOnce'
      <3>1. ASSUME NEW k \in Recorded
            PROVE  lines[k].op \in Ops \ {o} /\ lines'[k].op = lines[k].op
        <4>1. lines[k].op \in Ops
          BY DEF TypeOK, Recorded, Line
        <4>2. lines[k].op # o
          BY <1>1 DEF SettledTogether, RecordedOnce
        <4>3. lines'[k].op = lines[k].op
          BY <1>1, <1>5, <1>6 DEF Recorded
        <4>. QED  BY <4>1, <4>2, <4>3
      <3>. QED  BY <1>12, <3>1 DEF SettledTogether, RecordedOnce
    <2>2. ASSUME NEW k \in Recorded
          PROVE  /\ lines'[k].settledBy = Null <=> lines'[k].movement = Null
                 /\ lines'[k].movement # Null =>
                      /\ CountStatus(lines'[k]) = "RECONCILED"
                      /\ movements'[lines'[k].movement] =
                           [shelf |-> lines'[k].shelf, delta |-> Variance(lines'[k]),
                            op |-> lines'[k].settledBy, kind |-> "reconcile"]
                      /\ DeciderStands(k)'
      <3>1. CASE decides /\ k = l
        <4>1. lines'[k].settledBy # Null /\ lines'[k].movement # Null
              /\ CountStatus(lines'[k]) = "RECONCILED"
          BY <1>1, <1>6, <3>1, CountsAssumption DEF CountStatus
        <4>2. movements'[lines'[k].movement] =
                [shelf |-> lines'[k].shelf, delta |-> Variance(lines'[k]),
                 op |-> lines'[k].settledBy, kind |-> "reconcile"]
          BY <1>6, <1>12, <3>1 DEF Target, Delta
        <4>3. DeciderStands(k)'
          BY <1>2, <1>6, <1>12, <3>1 DEF DeciderStands, Kind
        <4>. QED  BY <4>1, <4>2, <4>3
      <3>2. CASE ~(decides /\ k = l)
        <4>1. lines'[k] = lines[k] /\ lines[k] \in Line
          BY <1>5, <3>2 DEF Recorded, TypeOK
        <4>2. lines[k].movement # Null => lines[k].movement \in Posted
          BY SettledIsPosted
        <4>3. lines[k].movement # Null => movements'[lines[k].movement] = movements[lines[k].movement]
          BY <1>12, <4>2 DEF Posted
        <4>4. lines[k].movement # Null => DeciderStands(k)'
          <5>1. lines[k].movement # Null =>
                  lines[k].settledBy \in Ops \ {o} /\ DeciderStands(k)
            BY <1>1, SettledIsPosted DEF DeciderStands
          <5>. QED  BY <1>12, <4>1, <5>1 DEF DeciderStands
        <4>. QED  BY <4>1, <4>3, <4>4 DEF SettledTogether
      <3>. QED  BY <3>1, <3>2
    <2>3. \A k \in Recorded : lines'[k].movement = t => decides /\ k = l
      <3>1. \A k \in Recorded : lines[k].movement # t
        <4>1. t \in Attempts /\ t # Null /\ t \notin Posted
          BY <1>12, CountsAssumption
        <4>. QED  BY <4>1, SettledIsPosted
      <3>. QED  BY <1>5, <3>1 DEF Recorded
    <2>4. ASSUME NEW m \in Posted', movements'[m].kind = "reconcile"
          PROVE  \E k \in Recorded :
                   /\ lines'[k].movement = m
                   /\ \A j \in Recorded : lines'[j].movement = m => j = k
      <3>1. CASE m = t
        <4>1. decides /\ l \in Recorded
          BY <1>1, <1>12, <2>4, <3>1, CountsAssumption DEF Recorded
        <4>. QED  BY <1>6, <2>3, <3>1, <4>1
      <3>2. CASE m # t
        <4>1. m \in Posted /\ movements'[m] = movements[m]
          BY <1>12, <2>4, <3>2 DEF Posted
        <4>2. PICK k \in Recorded : /\ lines[k].movement = m
                                    /\ \A j \in Recorded : lines[j].movement = m => j = k
          BY <2>4, <4>1 DEF SettledTogether
        <4>3. m # Null
          BY <4>1, CountsAssumption DEF Posted
        <4>4. lines'[k] = lines[k]
          BY <1>1, <1>5, <4>2, <4>3 DEF Recorded
        <4>5. \A j \in Recorded : lines'[j].movement = m => lines[j].movement = m
          BY <1>5, <1>6, <3>2 DEF Recorded
        <4>. QED  BY <4>2, <4>4, <4>5
      <3>. QED  BY <3>1, <3>2
    <2>5. ASSUME NEW q \in Ops, operations'[q] # Null, operations'[q].body.kind = "reconcile"
          PROVE  LET k == operations'[q].body.line IN
                 k \in Recorded /\ lines'[k].settledBy = q
      <3>1. CASE q = o
        <4>1. decides /\ operations'[q].body.line = l
          BY <1>12, <2>5, <3>1 DEF Kind
        <4>. QED  BY <1>1, <1>6, <3>1, <4>1, CountsAssumption DEF Recorded
      <3>2. CASE q # o
        <4> DEFINE k == operations[q].body.line
        <4>1. operations'[q] = operations[q] /\ k \in Recorded /\ lines[k].settledBy = q
          BY <1>12, <2>5, <3>2 DEF SettledTogether
        <4>2. q # Null /\ k \in Attempts
          BY <4>1, CountsAssumption DEF Recorded
        <4>3. decides => k # l
          BY <1>1, <4>1, <4>2
        <4>4. lines'[k] = lines[k]
          BY <1>5, <4>2, <4>3
        <4>. QED  BY <4>1, <4>4
      <3>. QED  BY <3>1, <3>2
    <2>. QED  BY <1>12, <2>1, <2>2, <2>4, <2>5 DEF SettledTogether, CountStatus, Variance
  <1>14. StockIsExplained'
    <2> SUFFICES ASSUME NEW s \in Shelves
                 PROVE  OnHand(s)' =
                          SumOver(DeltaOf', CommandsOn(s)') + SumOver(VarianceOf', SettledOn(s)')
      BY StockInSumsNext DEF Explained
    <2>1. /\ IsFiniteSet(CommandsOn(s)) /\ IsFiniteSet(SettledOn(s))
          /\ CommandsOn(s) \subseteq Posted /\ SettledOn(s) \subseteq Recorded
      BY FS_Subset DEF CommandsOn, SettledOn
    <2>2. /\ \A m \in Posted : DeltaOf'[m] = DeltaOf[m] /\ DeltaOf[m] \in Int
          /\ DeltaOf'[t] = Delta(t)
      BY <1>2, <1>12 DEF DeltaOf, Posted, TypeOK, Movement
    <2>3. \A k \in Recorded : VarianceOf'[k] = VarianceOf[k] /\ VarianceOf[k] \in Int
      <3>1. ASSUME NEW k \in Recorded
            PROVE  Variance(lines'[k]) = Variance(lines[k]) /\ Variance(lines[k]) \in Int
        <4>1. Variance(lines[k]) \in Int
          BY CountsAssumption DEF Variance, Recorded, TypeOK, Line, Quantity
        <4>2. Variance(lines'[k]) = Variance(lines[k])
          BY <1>1, <1>5, <1>6 DEF Recorded
        <4>. QED  BY <4>1, <4>2
      <3>. QED  BY <3>1 DEF VarianceOf, Recorded
    <2>4. /\ SumOver(DeltaOf', CommandsOn(s)) = SumOver(DeltaOf, CommandsOn(s))
          /\ SumOver(VarianceOf', SettledOn(s)) = SumOver(VarianceOf, SettledOn(s))
          /\ SumOver(DeltaOf, CommandsOn(s)) \in Int /\ SumOver(VarianceOf, SettledOn(s)) \in Int
      <3>1. /\ SumOver(DeltaOf', CommandsOn(s)) = SumOver(DeltaOf, CommandsOn(s))
            /\ SumOver(DeltaOf, CommandsOn(s)) \in Int
        BY <2>1, <2>2, SumCongruence, SumIsInt
      <3>2. /\ SumOver(VarianceOf', SettledOn(s)) = SumOver(VarianceOf, SettledOn(s))
            /\ SumOver(VarianceOf, SettledOn(s)) \in Int
        BY <2>1, <2>3, SumCongruence, SumIsInt
      <3>. QED  BY <3>1, <3>2
    <2>5. OnHand(s) = SumOver(DeltaOf, CommandsOn(s)) + SumOver(VarianceOf, SettledOn(s))
      BY StockInSums DEF Explained
    <2>6. /\ s # z => OnHand(s)' = OnHand(s)
          /\ s = z => OnHand(s)' = OnHand(s) + Delta(t)
      <3>1. After(t) # Null /\ After(t) = OnHand(z) + Delta(t)
        BY <1>1, CountsAssumption DEF After
      <3>. QED  BY <1>1, <1>3, <3>1 DEF OnHand, TypeOK
    <2>7. /\ CommandsOn(s)' = IF s = z /\ ~decides THEN CommandsOn(s) \cup {t} ELSE CommandsOn(s)
          /\ t \notin CommandsOn(s)
      <3>1. \A m \in Posted : movements'[m] = movements[m]
        BY <1>12 DEF Posted
      <3>2. t \in CommandsOn(s)' <=> s = z /\ ~decides
        BY <1>1, <1>2, <1>12 DEF CommandsOn, Posted
      <3>3. \A m \in Posted : m \in CommandsOn(s)' <=> m \in CommandsOn(s)
        BY <1>12, <3>1 DEF CommandsOn
      <3>4. CommandsOn(s)' \subseteq Posted \cup {t}
        BY <1>12 DEF CommandsOn
      <3>5. t \notin CommandsOn(s)
        BY <1>12 DEF CommandsOn
      <3>. QED  BY <2>1, <3>2, <3>3, <3>4, <3>5
    <2>8. /\ SettledOn(s)' = IF s = z /\ decides THEN SettledOn(s) \cup {l} ELSE SettledOn(s)
          /\ decides => l \notin SettledOn(s) /\ l \in Recorded
      <3>1. decides => /\ l \notin SettledOn(s) /\ l \in Recorded
                       /\ l \in SettledOn(s)' <=> s = z
        BY <1>1, <1>6, <1>12, CountsAssumption DEF SettledOn, Recorded, Target
      <3>2. \A k \in Recorded : ~(decides /\ k = l) =>
              (k \in SettledOn(s)' <=> k \in SettledOn(s))
        BY <1>5, <1>12 DEF SettledOn, Recorded
      <3>3. SettledOn(s)' \subseteq Recorded
        BY <1>12 DEF SettledOn
      <3>4. CASE s = z /\ decides
        <4>1. \A k \in Recorded : k \in SettledOn(s)' <=> k \in SettledOn(s) \cup {l}
          BY <3>1, <3>2, <3>4
        <4>. QED  BY <2>1, <3>1, <3>3, <3>4, <4>1
      <3>5. CASE ~(s = z /\ decides)
        <4>1. \A k \in Recorded : k \in SettledOn(s)' <=> k \in SettledOn(s)
          BY <3>1, <3>2, <3>5
        <4>. QED  BY <2>1, <3>1, <3>3, <3>5, <4>1
      <3>. QED  BY <3>4, <3>5
    <2>9. CASE s # z
      BY <2>4, <2>5, <2>6, <2>7, <2>8, <2>9
    <2>10. CASE s = z /\ ~decides
      <3>1. SumOver(DeltaOf', CommandsOn(s) \cup {t}) = Delta(t) + SumOver(DeltaOf', CommandsOn(s))
        BY <1>1, <2>1, <2>2, <2>7, SumAdd
      <3>. QED  BY <1>1, <2>4, <2>5, <2>6, <2>7, <2>8, <2>10, <3>1
    <2>11. CASE s = z /\ decides
      <3>1. SumOver(VarianceOf', SettledOn(s) \cup {l})
              = VarianceOf'[l] + SumOver(VarianceOf', SettledOn(s))
        BY <2>1, <2>3, <2>8, <2>11, SumAdd
      <3>2. VarianceOf'[l] = Delta(t)
        BY <1>1, <1>6, <2>11 DEF VarianceOf, Delta
      <3>. QED  BY <1>1, <2>4, <2>5, <2>6, <2>7, <2>8, <2>11, <3>1, <3>2
    <2>. QED  BY <2>9, <2>10, <2>11
  <1>15. IsFiniteSet(Posted)' /\ IsFiniteSet(Recorded)'
    BY <1>12, FS_AddElement
  <1>. QED  BY <1>7, <1>8, <1>9, <1>10, <1>11, <1>13, <1>14, <1>15

-----------------------------------------------------------------------------
LEMMA NextInv ==
  ASSUME IInv, [Next]_vars
  PROVE  IInv'
  <1>1. ASSUME NEW t \in Attempts, Step(t)
        PROVE  IInv'
    <2>1. CASE LookUp(t)         BY <2>1, LookUpInv
    <2>2. CASE OpenLine(t)       BY <2>2, OpenLineInv
    <2>3. CASE LineIsSettled(t)
      <3>1. req[t] \in Requests /\ Kind(t) = "reconcile" /\ pc[t] = "line"
        BY <2>3 DEF LineIsSettled, CanLockLine, IInv, LocalInv
      <3>2. SettledAnswer(t) \in Answer
        BY <3>1, RequestShape DEF SettledAnswer, Replay, Reply, Ok, Answer, AnswerCodes
      <3>. QED  BY <2>3, <3>1, <3>2, RollbackInv DEF LineIsSettled
    <2>4. CASE NoSuchLine(t)
      <3>1. Reply("NOT_FOUND") \in Answer
        BY DEF Reply, Answer, AnswerCodes
      <3>. QED  BY <2>4, <3>1, RollbackInv DEF NoSuchLine
    <2>5. CASE Claim(t)          BY <2>5, ClaimStepInv
    <2>6. CASE ClaimLost(t)
      <3>1. Replay(t) \in Answer /\ pc[t] = "claim"
        BY <2>6, ReplayIsAnswer DEF ClaimLost, Claimable, IInv, LocalInv
      <3>. QED  BY <2>6, <3>1, RollbackInv DEF ClaimLost
    <2>7. CASE Proceed(t)        BY <2>7, ProceedInv
    <2>8. CASE Refuse(t)
      <3>1. Reply("INELIGIBLE") \in Answer
        BY DEF Reply, Answer, AnswerCodes
      <3>. QED  BY <2>8, <3>1, RollbackInv DEF Refuse
    <2>9. CASE Snapshot(t)       BY <2>9, SnapshotInv
    <2>10. CASE CommitRecord(t)  BY <2>10, CommitRecordInv
    <2>11. CASE LockShelf(t)     BY <2>11, LockShelfInv
    <2>12. CASE Reject(t)
      <3>1. Reply("INSUFFICIENT_STOCK") \in Answer /\ Reply("OUT_OF_RANGE") \in Answer
        BY DEF Reply, Answer, AnswerCodes
      <3>. QED  BY <2>12, <3>1, RollbackInv DEF Reject, CanLockShelf
    <2>13. CASE CommitPosting(t) BY <2>13, CommitPostingInv
    <2>. QED
      BY <1>1, <2>1, <2>2, <2>3, <2>4, <2>5, <2>6, <2>7, <2>8, <2>9, <2>10, <2>11,
         <2>12, <2>13 DEF Step
  <1>2. ASSUME NEW t \in Attempts, Abort(t)
        PROVE  IInv'
    <2>1. Reply("LOST") \in Answer
      BY DEF Reply, Answer, AnswerCodes
    <2>. QED  BY <1>2, <2>1, RollbackInv DEF Abort, InTx
  <1>3. ASSUME UNCHANGED vars
        PROVE  IInv'
    <2>1. UNCHANGED <<pc, req, observed, opened, answer, claimant, lineHolder, sharers,
                      holder, operations, lines, movements, balances>>
      BY <1>3 DEF vars, locals, locks, tables
    <2>2. Stored'
      BY <2>1, TablesFrame DEF tables
    <2>3. TypeOK' /\ LocalInv' /\ ClaimInv'
      BY <2>1 DEF IInv, TypeOK, LocalInv, ClaimInv, Kind, BodyOf, OpOf
    <2>4. LineInv'
      BY <2>1 DEF IInv, LineInv, Deciding, Kind, BodyOf, Variance
    <2>5. ShelfInv'
      BY <2>1 DEF IInv, ShelfInv, Target, Accepted, After, Delta, OnHand, Kind, BodyOf, Variance
    <2>. QED  BY <2>2, <2>3, <2>4, <2>5 DEF IInv, Stored
  <1>. QED  BY <1>1, <1>2, <1>3, ArriveInv DEF Next

(* On every schedule of requests, commits and aborts, each attempt knows   *)
(* its request, holds the locks its statement presupposes, and the four    *)
(* tables of posting and counting agree with one another.                  *)
THEOREM CountsInvariant == Spec => []IInv
  BY InitInv, NextInv, PTL DEF Spec

(* Every table column and local of a count keeps its type.                 *)
THEOREM CountsTypes == Spec => []TypeOK
  <1>1. IInv => TypeOK
    BY DEF IInv
  <1>. QED  BY <1>1, CountsInvariant, PTL

(* INV-9 (reconcileCountLine, in the transaction of the posting): a        *)
(* decision and its movement exist together or not at all.                 *)
THEOREM DecidedWithItsMovement == Spec => []SettledTogether
  <1>1. IInv => SettledTogether
    BY DEF IInv
  <1>. QED  BY <1>1, CountsInvariant, PTL

(* What lies on a shelf is the sum of the stock commands posted to it and  *)
(* of the discrepancies accepted on it, for any number of either and in    *)
(* any order.                                                              *)
THEOREM EveryUnitIsExplained == Spec => []StockIsExplained
  <1>1. IInv => StockIsExplained
    BY DEF IInv
  <1>. QED  BY <1>1, CountsInvariant, PTL
-----------------------------------------------------------------------------
(* A repetition that is over has been answered as its first attempt was,   *)
(* or has lost its answer.                                                 *)
LEMMA RepeatStep ==
  ASSUME IInv, [Next]_vars, NEW t \in Attempts, pc[t] # "done", pc'[t] = "done",
         operations[OpOf(t)] # Null, operations[OpOf(t)].body = BodyOf(t)
  PROVE  answer'[t] \in {Reply("LOST"), Replay(t)}
  <1> USE DEF IInv
  <1>1. pc[t] \notin Claimed
    BY DEF ClaimInv
  <1>2. pc \in [Attempts -> Stage] /\ answer \in [Attempts -> Answer \cup {Null}]
    BY DEF TypeOK
  <1>3. PICK u \in Attempts : Arrive(u) \/ Step(u) \/ Abort(u)
    BY DEF Next, vars
  <1>4. u = t
    <2>1. \E stage : pc' = [pc EXCEPT ![u] = stage]
      BY <1>3 DEF Arrive, Step, Abort, LookUp, OpenLine, LineIsSettled, NoSuchLine, Claim,
         ClaimLost, Proceed, Refuse, Snapshot, CommitRecord, LockShelf, Reject,
         CommitPosting, Rollback, Finish, Goto
    <2>. QED  BY <1>2, <2>1
  <1>5. ASSUME NEW a, Finish(t, a)
        PROVE  answer'[t] = a
    BY <1>2, <1>5 DEF Finish
  <1>6. CASE Arrive(t)         BY <1>2, <1>6 DEF Arrive, Goto
  <1>7. CASE LookUp(t)         BY <1>2, <1>5, <1>7 DEF LookUp, Goto
  <1>8. CASE OpenLine(t)       BY <1>2, <1>8 DEF OpenLine, Goto
  <1>9. CASE LineIsSettled(t)
    <2>1. req[t] \in Requests /\ Kind(t) = "reconcile"
      BY <1>9 DEF LineIsSettled, CanLockLine, LocalInv
    <2>2. lines[BodyOf(t).line].settledBy = OpOf(t)
      BY <2>1, RequestShape DEF SettledTogether, Kind
    <2>. QED  BY <1>5, <1>9, <2>2 DEF LineIsSettled, Rollback, SettledAnswer
  <1>10. CASE NoSuchLine(t)
    <2>1. req[t] \in Requests /\ Kind(t) = "reconcile"
      BY <1>10 DEF NoSuchLine, LocalInv
    <2>2. lines[BodyOf(t).line] # Null
      BY <2>1, RequestShape DEF SettledTogether, Kind, Recorded
    <2>. QED  BY <1>10, <2>2 DEF NoSuchLine
  <1>11. CASE Claim(t)         BY <1>11 DEF Claim
  <1>12. CASE ClaimLost(t)     BY <1>5, <1>12 DEF ClaimLost, Rollback
  <1>13. CASE Proceed(t) \/ Refuse(t) \/ Snapshot(t) \/ CommitRecord(t) \/ LockShelf(t)
                \/ Reject(t) \/ CommitPosting(t)
    BY <1>1, <1>13 DEF Proceed, Refuse, Snapshot, CommitRecord, LockShelf, CanLockShelf,
       Reject, CommitPosting, Claimed
  <1>14. CASE Abort(t)         BY <1>5, <1>14 DEF Abort, Rollback
  <1>. QED
    BY <1>3, <1>4, <1>6, <1>7, <1>8, <1>9, <1>10, <1>11, <1>12, <1>13, <1>14 DEF Step

(* INV-7 for counts (findRecordedCount, findSettledReconciliation, and     *)
(* alreadySettled behind the lock): an attempt that ends while its         *)
(* operation is committed for the same body is answered with the count     *)
(* that operation made or settled, and never told of a conflict.           *)
THEOREM RepeatedDecisionIsAnswered == Spec => RepeatIsAnswered
  <1>1. IInv /\ [Next]_vars =>
          [\A t \in Attempts :
             /\ pc[t] # "done" /\ pc'[t] = "done"
             /\ operations[OpOf(t)] # Null
             /\ operations[OpOf(t)].body = BodyOf(t)
             => answer'[t] \in {Reply("LOST"), Replay(t)}]_vars
    BY RepeatStep
  <1>. QED  BY <1>1, CountsInvariant, PTL DEF Spec, RepeatIsAnswered

(* A line that appears is the one its own attempt records, and its         *)
(* expected quantity is what the shelf holds under the reader's lock.      *)
LEMMA RecordStep ==
  ASSUME IInv, [Next]_vars, NEW t \in Attempts, RecordsNow(t),
         t \in sharers[BodyOf(t).shelf]
  PROVE  lines'[t].expected = OnHand(BodyOf(t).shelf)
  <1> USE DEF IInv
  <1>1. lines[t] = Null /\ lines'[t] # Null
    BY DEF RecordsNow
  <1>2. lines \in [Attempts -> Line \cup {Null}]
    BY DEF TypeOK
  <1>3. PICK u \in Attempts : CommitRecord(u) \/ CommitPosting(u)
    BY <1>1 DEF Next, Step, vars, tables, Arrive, LookUp, OpenLine, LineIsSettled,
       NoSuchLine, Claim, ClaimLost, Proceed, Refuse, Snapshot, LockShelf, Reject, Abort,
       Rollback
  <1>4. ~CommitPosting(u)
    <2> SUFFICES ASSUME CommitPosting(u) PROVE FALSE
      OBVIOUS
    <2>1. Settle(u) /\ (Kind(u) = "reconcile" => BodyOf(u).line # t)
      BY <1>1, PostingFacts, CountsAssumption DEF CommitPosting
    <2>. QED  BY <1>1, <1>2, <2>1 DEF Settle
  <1>5. CommitRecord(t)
    BY <1>1, <1>2, <1>3, <1>4 DEF CommitRecord
  <1>6. /\ req[t] \in Requests /\ Kind(t) = "record" /\ observed[t] \in Quantity
        /\ lines'[t].expected = observed[t]
    BY <1>2, <1>5 DEF CommitRecord, LocalInv
  <1>7. BodyOf(t).shelf \in Shelves
    BY <1>6, RequestShape
  <1>8. observed[t] = balances[BodyOf(t).shelf]
    BY <1>7 DEF ShelfInv
  <1>. QED  BY <1>6, <1>8, CountsAssumption DEF OnHand

(* INV-9 (lockShelfQuantity): where the shelf has a balance row, the       *)
(* expected quantity of a count is the one its shelf has at the moment the *)
(* count is recorded.                                                      *)
THEOREM ExpectedStillStands == Spec => ExpectedIsCurrent
  <1>1. IInv /\ [Next]_vars =>
          [\A t \in Attempts :
             RecordsNow(t) /\ t \in sharers[BodyOf(t).shelf]
               => lines'[t].expected = OnHand(BodyOf(t).shelf)]_vars
    BY RecordStep
  <1>. QED  BY <1>1, CountsInvariant, PTL DEF Spec, ExpectedIsCurrent
-----------------------------------------------------------------------------
(* What a client may build on (CommandPromise).                            *)

(* A request that has not arrived is not known, and nobody has an answer   *)
(* before its request is over.                                             *)
Unheard == \A t \in Attempts : /\ pc[t] = "idle" => req[t] = Null
                               /\ pc[t] # "done" => answer[t] = Null

LEMMA UnheardStep == IInv /\ Unheard /\ [Next]_vars => Unheard'
  <1> SUFFICES ASSUME IInv, Unheard, [Next]_vars PROVE Unheard'
    OBVIOUS
  <1>1. /\ pc \in [Attempts -> Stage] /\ req \in [Attempts -> Requests \cup {Null}]
        /\ answer \in [Attempts -> Answer \cup {Null}]
    BY DEF IInv, TypeOK
  <1>2. CASE UNCHANGED vars
    BY <1>2 DEF Unheard, vars, locals
  <1>3. ASSUME NEW t \in Attempts, Arrive(t) PROVE Unheard'
    BY <1>1, <1>3 DEF Unheard, Arrive, Goto
  <1>4. ASSUME NEW t \in Attempts, Step(t) \/ Abort(t) PROVE Unheard'
    <2>1. /\ req' = req /\ pc[t] \notin {"idle", "done"}
          /\ \/ UNCHANGED answer /\ \E stage \in InTx : Goto(t, stage)
             \/ \E a : Finish(t, a)
      <3>1. CASE LookUp(t) \/ OpenLine(t) \/ Claim(t) \/ Proceed(t) \/ Snapshot(t) \/ LockShelf(t)
        BY <3>1 DEF LookUp, OpenLine, CanLockLine, Claim, Claimable, Proceed, Snapshot,
           LockShelf, CanLockShelf, InTx, locals
      <3>2. CASE LineIsSettled(t) \/ NoSuchLine(t) \/ ClaimLost(t) \/ Refuse(t) \/ Reject(t)
                   \/ Abort(t)
        BY <3>2 DEF LineIsSettled, CanLockLine, NoSuchLine, ClaimLost, Claimable, Refuse,
           Reject, CanLockShelf, Abort, InTx, Rollback, locals
      <3>3. CASE CommitRecord(t) \/ CommitPosting(t)
        BY <3>3 DEF CommitRecord, CommitPosting, Rollback, locals
      <3>. QED  BY <1>4, <3>1, <3>2, <3>3 DEF Step
    <2>2. CASE UNCHANGED answer /\ \E stage \in InTx : Goto(t, stage)
      BY <1>1, <2>1, <2>2 DEF Unheard, Goto, InTx
    <2>3. CASE \E a : Finish(t, a)
      BY <1>1, <2>1, <2>3 DEF Unheard, Finish
    <2>. QED  BY <2>1, <2>2, <2>3
  <1>. QED  BY <1>2, <1>3, <1>4 DEF Next

LEMMA PromiseInit == Init => Promise!Init
  BY DEF Init, Promise!Init, EntryOf, Heard

(* A step that answers nobody and records nothing is none for the client.  *)
LEMMA PromiseSame ==
  ASSUME UNCHANGED <<req, answer, operations>>
  PROVE  UNCHANGED Promise!promiseVars
  BY DEF Promise!promiseVars, EntryOf, Heard

LEMMA PromiseAsk ==
  ASSUME Unheard, NEW t \in Attempts, Arrive(t)
  PROVE  Promise!Ask(t)
  <1>1. PICK r \in Requests : req' = [req EXCEPT ![t] = r]
    BY DEF Arrive
  <1>2. req[t] = Null
    BY DEF Arrive, Unheard
  <1>3. UNCHANGED <<answer, operations>>
    BY DEF Arrive, tables
  <1>. QED  BY <1>1, <1>2, <1>3 DEF Promise!Ask, EntryOf, Heard

(* What a client is shown under an id is there when the operation is, and  *)
(* has its body.                                                           *)
LEMMA EntryFacts ==
  ASSUME IInv, NEW o \in Ops
  PROVE  /\ EntryOf(o) = Null <=> operations[o] = Null
         /\ operations[o] # Null =>
              /\ EntryOf(o) = Shown(operations[o])
              /\ EntryOf(o).body = operations[o].body
  <1>1. CASE operations[o] = Null
    BY <1>1 DEF EntryOf
  <1>2. CASE operations[o] # Null
    <2> DEFINE done == operations[o]
               id == IF done.body.kind = "reconcile" THEN done.body.line ELSE done.result
    <2>1. done \in Operation
      BY <1>2 DEF IInv, TypeOK
    <2>2. done.body \in Body /\ done.result \in Attempts
      BY <2>1 DEF Operation
    <2>3. done.body.kind = "reconcile" => done.body.line \in Attempts
      BY <2>2 DEF Body, PostBody, RecordBody, ReconcileBody
    <2>4. id \in Attempts
      BY <2>2, <2>3
    <2>5. Shown(done) = [body |-> done.body, result |-> id]
      BY DEF Shown
    <2> HIDE DEF id
    <2>6. Shown(done) \in [body : Body, result : Attempts]
      BY <2>2, <2>4, <2>5
    <2>. QED  BY <1>2, <2>5, <2>6, EntryAssumption DEF EntryOf
  <1>. QED  BY <1>1, <1>2

(* Whoever is at a statement has asked and is waiting, and what it is told *)
(* is what its answer says.                                                *)
LEMMA PromiseWaits ==
  ASSUME IInv, Unheard, NEW t \in Attempts, pc[t] \in {"lookup"} \cup InTx
  PROVE  /\ req[t] \in Requests /\ req[t] # Null /\ OpOf(t) \in Ops
         /\ [u \in Attempts |-> Heard(u)][t] = Null
         /\ Promise!Entry(t) = EntryOf(OpOf(t))
  <1>1. req[t] \in Requests /\ answer[t] = Null
    BY DEF IInv, LocalInv, Unheard, InTx
  <1>2. req[t] # Null /\ OpOf(t) \in Ops
    BY <1>1, RequestShape, CountsAssumption
  <1>3. Promise!Entry(t) = EntryOf(OpOf(t))
    BY <1>2 DEF Promise!Entry, OpOf
  <1>. QED  BY <1>1, <1>2, <1>3 DEF Heard

LEMMA PromiseTells ==
  ASSUME IInv, NEW t \in Attempts, NEW a \in Answer,
         answer' = [answer EXCEPT ![t] = a], UNCHANGED req
  PROVE  Promise!Tell(t, Word(a.code), a.row)
  <1> DEFINE heard == [word |-> Word(a.code), result |-> a.row]
  <1>1. answer \in [Attempts -> Answer \cup {Null}]
    BY DEF IInv, TypeOK
  <1>2. a # Null
    BY CountsAssumption
  <1>3. \A u \in Attempts : Heard(u)' = IF u = t THEN heard ELSE Heard(u)
    BY <1>1, <1>2 DEF Heard
  <1> HIDE DEF heard
  <1>4. [u \in Attempts |-> Heard(u)]' =
          [[u \in Attempts |-> Heard(u)] EXCEPT ![t] = heard]
    BY <1>3
  <1>. QED  BY <1>4 DEF Promise!Tell, heard

LEMMA PromiseKept ==
  ASSUME UNCHANGED operations
  PROVE  [o \in Ops |-> EntryOf(o)]' = [o \in Ops |-> EntryOf(o)]
  BY DEF EntryOf

(* A command whose id has a committed row is answered from that row.       *)
LEMMA PromiseRepeat ==
  ASSUME IInv, Unheard, NEW t \in Attempts, pc[t] \in {"lookup"} \cup InTx,
         operations[OpOf(t)] # Null,
         Finish(t, Replay(t)), UNCHANGED <<req, operations>>
  PROVE  Promise!Answer(t)
  <1> DEFINE b == operations[OpOf(t)].body
             a == Replay(t)
  <1>1. /\ req[t] \in Requests /\ req[t] # Null /\ OpOf(t) \in Ops
        /\ [u \in Attempts |-> Heard(u)][t] = Null
        /\ Promise!Entry(t) = EntryOf(OpOf(t))
    BY PromiseWaits
  <1>2. /\ Promise!Entry(t) = Shown(operations[OpOf(t)])
        /\ Promise!Entry(t).body = b /\ Promise!Entry(t) # Null
    BY <1>1, EntryFacts
  <1>3. Promise!IsRecorded(t) <=> b = BodyOf(t)
    BY <1>2 DEF Promise!IsRecorded, BodyOf
  <1>4. a \in Answer
    BY <1>1, ReplayIsAnswer DEF IInv
  <1>5. Promise!Tell(t, Word(a.code), a.row)
    BY <1>4, PromiseTells DEF Finish
  <1>6. CASE b = BodyOf(t)
    <2>1. a.code = "OK" /\ a.row = Shown(operations[OpOf(t)]).result
      BY <1>6 DEF Replay, Ok, Shown, Kind
    <2>2. Word(a.code) = "recorded" /\ a.row = Promise!Entry(t).result
      BY <1>2, <2>1 DEF Word
    <2>3. Promise!Repeat(t)
      BY <1>3, <1>5, <1>6, <2>2, PromiseKept DEF Promise!Repeat
    <2>. QED  BY <1>1, <2>3 DEF Promise!Answer
  <1>7. CASE b # BodyOf(t)
    <2>1. Word(a.code) = "replayed" /\ a.row = Null
      BY <1>7 DEF Replay, Reply, Word
    <2>2. Promise!Replay(t)
      BY <1>2, <1>3, <1>5, <1>7, <2>1, PromiseKept DEF Promise!Replay
    <2>. QED  BY <1>1, <2>2 DEF Promise!Answer
  <1>. QED  BY <1>6, <1>7

(* An attempt that rolls back while its body is not recorded under its id  *)
(* may say no; one that says nothing may do so anyway.                     *)
LEMMA PromiseRollback ==
  ASSUME IInv, Unheard, NEW t \in Attempts, NEW code \in AnswerCodes,
         pc[t] \in {"lookup"} \cup InTx, Rollback(t, Reply(code)),
         code \notin {"OK", "REPLAYED_WITH_DIFFERENT_BODY"},
         \/ code = "LOST"
         \/ operations[OpOf(t)] = Null
         \/ operations[OpOf(t)].body # BodyOf(t)
  PROVE  Promise!Answer(t)
  <1>1. /\ req[t] # Null /\ OpOf(t) \in Ops
        /\ [u \in Attempts |-> Heard(u)][t] = Null
        /\ Promise!Entry(t) = EntryOf(OpOf(t))
    BY PromiseWaits
  <1>2. Reply(code) \in Answer /\ Reply(code).code = code /\ Reply(code).row = Null
    BY DEF Reply, Answer
  <1>3. UNCHANGED <<req, operations>> /\ answer' = [answer EXCEPT ![t] = Reply(code)]
    BY DEF Rollback, Finish, locals, tables
  <1>4. Promise!Tell(t, Word(code), Null)
    BY <1>2, <1>3, PromiseTells
  <1>5. CASE code \in Faults
    <2>1. Word(code) = "fault"
      BY <1>5 DEF Word
    <2>2. Promise!Fail(t)
      BY <1>3, <1>4, <2>1, PromiseKept DEF Promise!Fail
    <2>. QED  BY <1>1, <2>2 DEF Promise!Answer
  <1>6. CASE code \notin Faults
    <2>1. Word(code) = "refused"
      BY <1>6 DEF Word
    <2>2. ~Promise!IsRecorded(t)
      BY <1>1, <1>6, EntryFacts DEF Promise!IsRecorded, BodyOf, Faults
    <2>3. Promise!Refuse(t)
      BY <1>3, <1>4, <2>1, <2>2, PromiseKept DEF Promise!Refuse
    <2>. QED  BY <1>1, <2>3 DEF Promise!Answer
  <1>. QED  BY <1>5, <1>6

(* A decision that is committed has its count settled by it: a decision    *)
(* that finds no count, or one that somebody else settled, is not the one. *)
LEMMA NotDecided ==
  ASSUME IInv, NEW t \in Attempts, req[t] \in Requests, Kind(t) = "reconcile",
         \/ lines[BodyOf(t).line] = Null
         \/ lines[BodyOf(t).line].settledBy # OpOf(t)
  PROVE  operations[OpOf(t)] = Null \/ operations[OpOf(t)].body # BodyOf(t)
  <1> SUFFICES ASSUME operations[OpOf(t)] # Null, operations[OpOf(t)].body = BodyOf(t)
               PROVE  FALSE
    OBVIOUS
  <1>1. OpOf(t) \in Ops
    BY RequestShape
  <1>. QED  BY <1>1 DEF IInv, SettledTogether, Kind, Recorded

(* The operation that settled a count is committed.                        *)
LEMMA DeciderCommitted ==
  ASSUME IInv, NEW l \in Attempts, lines[l] # Null, NEW o \in Ops, lines[l].settledBy = o
  PROVE  operations[o] # Null
  <1>1. o # Null
    BY CountsAssumption
  <1>2. l \in Recorded /\ lines[l].movement # Null
    BY <1>1 DEF IInv, SettledTogether, Recorded
  <1>. QED  BY <1>2, SettledIsPosted DEF DeciderStands

LEMMA PromiseSettled ==
  ASSUME IInv, Unheard, NEW t \in Attempts, LineIsSettled(t)
  PROVE  Promise!Answer(t)
  <1>1. /\ pc[t] = "line" /\ lines[BodyOf(t).line] # Null
        /\ Rollback(t, SettledAnswer(t))
    BY DEF LineIsSettled, CanLockLine
  <1>2. /\ req[t] \in Requests /\ Kind(t) = "reconcile"
        /\ OpOf(t) \in Ops /\ BodyOf(t).line \in Attempts
    BY <1>1, RequestShape DEF IInv, LocalInv
  <1>3. CASE lines[BodyOf(t).line].settledBy = OpOf(t)
    <2>1. operations[OpOf(t)] # Null
      BY <1>1, <1>2, <1>3, DeciderCommitted
    <2>. QED  BY <1>1, <1>3, <2>1, PromiseRepeat DEF InTx, Rollback, SettledAnswer, locals, tables
  <1>4. CASE lines[BodyOf(t).line].settledBy # OpOf(t)
    <2>1. operations[OpOf(t)] = Null \/ operations[OpOf(t)].body # BodyOf(t)
      BY <1>2, <1>4, NotDecided
    <2>2. "CONFLICT" \in AnswerCodes
      BY DEF AnswerCodes
    <2>. QED  BY <1>1, <1>4, <2>1, <2>2, PromiseRollback DEF InTx, SettledAnswer
  <1>. QED  BY <1>3, <1>4

LEMMA PromiseNoSuchLine ==
  ASSUME IInv, Unheard, NEW t \in Attempts, NoSuchLine(t)
  PROVE  Promise!Answer(t)
  <1>1. pc[t] = "line" /\ lines[BodyOf(t).line] = Null /\ Rollback(t, Reply("NOT_FOUND"))
    BY DEF NoSuchLine
  <1>2. req[t] \in Requests /\ Kind(t) = "reconcile"
    BY <1>1 DEF IInv, LocalInv
  <1>3. operations[OpOf(t)] = Null \/ operations[OpOf(t)].body # BodyOf(t)
    BY <1>1, <1>2, NotDecided
  <1>4. "NOT_FOUND" \in AnswerCodes
    BY DEF AnswerCodes
  <1>. QED  BY <1>1, <1>3, <1>4, PromiseRollback DEF InTx

(* A commit records the body under its id, shows the client its row, and   *)
(* answers in the same step.                                               *)
LEMMA PromiseRecord ==
  ASSUME IInv, Unheard, NEW t \in Attempts, NEW id \in Attempts, pc[t] = "commit",
         id = IF Kind(t) = "reconcile" THEN BodyOf(t).line ELSE t,
         operations' = [operations EXCEPT ![OpOf(t)] = [body |-> BodyOf(t), result |-> t]],
         \E a \in {Ok(id), Reply("LOST")} : Finish(t, a),
         UNCHANGED req
  PROVE  Promise!Answer(t)
  <1> DEFINE o == OpOf(t)
             done == [body |-> BodyOf(t), result |-> t]
  <1>1. /\ req[t] # Null /\ o \in Ops /\ req[t] \in Requests
        /\ [u \in Attempts |-> Heard(u)][t] = Null
        /\ Promise!Entry(t) = EntryOf(o)
    BY PromiseWaits DEF InTx
  <1>2. operations[o] = Null
    BY DEF IInv, ClaimInv, Claimed
  <1>3. operations \in [Ops -> Operation \cup {Null}] /\ done # Null
    <2>1. BodyOf(t) \in Body
      BY <1>1, RequestShape
    <2>2. done \in Operation
      BY <2>1 DEF Operation
    <2>. QED  BY <2>2, CountsAssumption DEF IInv, TypeOK
  <1>4. Shown(done) = [body |-> BodyOf(t), result |-> id]
    BY DEF Shown, Kind
  <1> HIDE DEF done
  <1>5. [p \in Ops |-> EntryOf(p)]' = [[p \in Ops |-> EntryOf(p)] EXCEPT ![o] = Shown(done)]
    <2>1. \A p \in Ops : EntryOf(p)' = IF p = o THEN Shown(done) ELSE EntryOf(p)
      BY <1>3 DEF EntryOf, done
    <2>. QED  BY <2>1
  <1>6. Promise!Tell(t, "recorded", id) \/ Promise!Tell(t, "fault", Null)
    <2>1. PICK a \in {Ok(id), Reply("LOST")} : answer' = [answer EXCEPT ![t] = a]
      BY DEF Finish
    <2>2. /\ a \in Answer
          /\ \/ a.code = "OK" /\ a.row = id
             \/ a.code = "LOST" /\ a.row = Null
      BY <2>1 DEF Answer, AnswerCodes, Reply, Ok
    <2>3. Promise!Tell(t, Word(a.code), a.row)
      BY <2>1, <2>2, PromiseTells
    <2>4. Word("OK") = "recorded" /\ Word("LOST") = "fault"
      BY DEF Word, Faults
    <2>. QED  BY <2>2, <2>3, <2>4
  <1>7. Promise!Entry(t) = Null
    BY <1>1, <1>2 DEF EntryOf
  <1>8. Promise!Record(t)
    BY <1>4, <1>5, <1>6, <1>7 DEF Promise!Record, OpOf, BodyOf
  <1>. QED  BY <1>1, <1>8 DEF Promise!Answer

LEMMA PromiseStep ==
  ASSUME IInv, Unheard, NEW t \in Attempts, Arrive(t) \/ Step(t) \/ Abort(t)
  PROVE  Promise!Ask(t) \/ Promise!Answer(t) \/ UNCHANGED Promise!promiseVars
  <1>1. CASE Arrive(t)
    BY <1>1, PromiseAsk
  <1>2. CASE LookUp(t)
    <2>1. CASE Settled(t)
      BY <1>2, <2>1, PromiseRepeat DEF LookUp, Settled, locals, tables
    <2>2. CASE ~Settled(t)
      BY <1>2, <2>2, PromiseSame DEF LookUp, locals, tables
    <2>. QED  BY <2>1, <2>2
  <1>3. CASE LineIsSettled(t)     BY <1>3, PromiseSettled
  <1>4. CASE NoSuchLine(t)        BY <1>4, PromiseNoSuchLine
  <1>5. CASE ClaimLost(t)
    BY <1>5, PromiseRepeat DEF ClaimLost, Claimable, InTx, Rollback, locals, tables
  <1>6. CASE Refuse(t)
    <2>1. operations[OpOf(t)] = Null /\ "INELIGIBLE" \in AnswerCodes
      BY <1>6 DEF Refuse, IInv, ClaimInv, Claimed, AnswerCodes
    <2>. QED  BY <1>6, <2>1, PromiseRollback DEF Refuse, InTx
  <1>7. CASE Reject(t)
    <2>1. operations[OpOf(t)] = Null /\ pc[t] = "shelf"
      BY <1>7 DEF Reject, CanLockShelf, IInv, ClaimInv, Claimed
    <2>2. PICK code \in {"INSUFFICIENT_STOCK", "OUT_OF_RANGE"} : Rollback(t, Reply(code))
      BY <1>7 DEF Reject
    <2>3. code \in AnswerCodes
      BY <2>2 DEF AnswerCodes
    <2>. QED  BY <2>1, <2>2, <2>3, PromiseRollback DEF InTx
  <1>8. CASE CommitRecord(t)
    <2>1. /\ pc[t] = "commit" /\ Kind(t) # "reconcile"
          /\ operations' = [operations EXCEPT ![OpOf(t)] = [body |-> BodyOf(t), result |-> t]]
          /\ \E a \in {Ok(t), Reply("LOST")} : Finish(t, a)
          /\ UNCHANGED req
      BY <1>8 DEF CommitRecord, locals
    <2>. QED  BY <2>1, PromiseRecord
  <1>9. CASE CommitPosting(t)
    <2>1. /\ pc[t] = "commit" /\ ~SettledMeanwhile(t)
          /\ Kind(t) = "reconcile" => BodyOf(t).line \in Attempts
      BY <1>9, PostingFacts DEF CommitPosting
    <2> DEFINE id == IF Kind(t) = "reconcile" THEN BodyOf(t).line ELSE t
    <2>2. /\ operations' = [operations EXCEPT ![OpOf(t)] = [body |-> BodyOf(t), result |-> t]]
          /\ \E a \in {Ok(id), Reply("LOST")} : Finish(t, a)
          /\ UNCHANGED req
      BY <1>9, <2>1 DEF CommitPosting, locals
    <2>3. id \in Attempts
      BY <2>1
    <2>4. id = IF Kind(t) = "reconcile" THEN BodyOf(t).line ELSE t
      OBVIOUS
    <2> HIDE DEF id
    <2>. QED  BY <2>1, <2>2, <2>3, <2>4, PromiseRecord
  <1>10. CASE Abort(t)
    <2>1. "LOST" \in AnswerCodes
      BY DEF AnswerCodes
    <2>. QED  BY <1>10, <2>1, PromiseRollback DEF Abort
  <1>11. CASE OpenLine(t) \/ Claim(t) \/ Proceed(t) \/ Snapshot(t) \/ LockShelf(t)
    BY <1>11, PromiseSame DEF OpenLine, Claim, Proceed, Snapshot, LockShelf, locals, tables
  <1>. QED
    BY <1>1, <1>2, <1>3, <1>4, <1>5, <1>6, <1>7, <1>8, <1>9, <1>10, <1>11 DEF Step

(* INV-7, seen from the client: a recording or a decision, whoever else    *)
(* decides on the same count, is recorded and answered as if at one        *)
(* moment, and is refused only while it is not recorded.                   *)
THEOREM CountsKeepPromise == Spec => KeepsPromise
  <1>1. Init => Unheard
    BY DEF Init, Unheard
  <1>2. IInv /\ Unheard /\ [Next]_vars => [Promise!Next]_(Promise!promiseVars)
    <2> SUFFICES ASSUME IInv, Unheard, [Next]_vars
                 PROVE  [Promise!Next]_(Promise!promiseVars)
      OBVIOUS
    <2>1. CASE UNCHANGED vars
      BY <2>1, PromiseSame DEF vars, locals, tables
    <2>2. CASE Next
      <3>1. PICK t \in Attempts : Arrive(t) \/ Step(t) \/ Abort(t)
        BY <2>2 DEF Next
      <3>. QED  BY <3>1, PromiseStep DEF Promise!Next
    <2>. QED  BY <2>1, <2>2
  <1>. QED
    BY PromiseInit, UnheardStep, CountsInvariant, <1>1, <1>2, PTL
       DEF Spec, KeepsPromise, Promise!Spec
===============================================================================
