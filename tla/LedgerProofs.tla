---------------------------- MODULE LedgerProofs ----------------------------
(***************************************************************************)
(* Machine-checked proofs about the posting engine, for any number of      *)
(* attempts, operation ids and shelves.                                    *)
(***************************************************************************)
EXTENDS LedgerProperties, FiniteSums

LEMMA InitInv == Init => IInv
  <1> SUFFICES ASSUME Init PROVE IInv
    OBVIOUS
  <1> USE DEF Init
  <1>1. TypeOK
    BY DEF TypeOK, Stage
  <1>2. LocalInv /\ JobInv /\ ClaimInv /\ LockInv
    BY DEF LocalInv, JobInv, ClaimInv, LockInv, InTx, Resolved, Decided
  <1>3. ChainInv /\ UndoInv /\ AppliedOnce
    BY DEF ChainInv, ChainUnbroken, UndoInv, AppliedOnce, Posted, PostedOn
  <1>4. AnswersAgree /\ NeverInternal
    BY NullAssumption DEF AnswersAgree, NeverInternal, Reply, Answer, AnswerCodes
  <1>. QED  BY <1>1, <1>2, <1>3, <1>4 DEF IInv

(* A step that leaves the tables alone leaves alone whatever only they     *)
(* decide.                                                                 *)
LEMMA TablesFrame ==
  ASSUME IInv, UNCHANGED tables
  PROVE  ChainInv' /\ UndoInv' /\ AppliedOnce'
  <1>1. ChainInv'
    BY DEF IInv, tables, ChainInv, ChainUnbroken, Posted, PostedOn
  <1>2. UndoInv'
    BY DEF IInv, tables, UndoInv, Posted
  <1>3. AppliedOnce'
    BY DEF IInv, tables, AppliedOnce, Posted
  <1>. QED  BY <1>1, <1>2, <1>3

(* What a stored row may be answered with.                                 *)
LEMMA ReplayIsTrue ==
  ASSUME IInv, NEW t \in Attempts, req[t] \in Requests,
         operations[req[t].op] # Null
  PROVE  LET a == ReplayAnswer(req[t].op, req[t].body) IN
         /\ a \in Answer
         /\ a # Reply("INTERNAL")
         /\ a.code = "OK" => /\ a.movement = operations[req[t].op].result
                             /\ a.movement \in Posted
                             /\ movements[a.movement].op = req[t].op
                             /\ operations[req[t].op].body = req[t].body
  <1> DEFINE o == req[t].op
             found == operations[o]
  <1>1. o \in Ops
    BY RequestsAssumption DEF Request
  <1>2. /\ found.result \in Posted /\ movements[found.result] # Null
        /\ movements[found.result].op = o
    BY <1>1 DEF IInv, AppliedOnce, Posted
  <1>3. found.result \in Attempts /\ found.result # Null
    BY <1>2, NullAssumption DEF Posted
  <1> HIDE DEF found, o
  <1>4. ReplayAnswer(o, req[t].body) =
          IF found.body # req[t].body THEN Reply("REPLAYED_WITH_DIFFERENT_BODY")
          ELSE [code |-> "OK", movement |-> found.result]
    BY <1>2, <1>3 DEF ReplayAnswer, found
  <1>5. /\ Reply("REPLAYED_WITH_DIFFERENT_BODY") \in Answer
        /\ [code |-> "OK", movement |-> found.result] \in Answer
    BY <1>3 DEF Reply, Answer, AnswerCodes
  <1>. QED  BY <1>2, <1>4, <1>5 DEF Reply, found, o
-----------------------------------------------------------------------------
(* One lemma for each kind of step.                                        *)

LEMMA ArriveInv ==
  ASSUME IInv, NEW t \in Attempts, Arrive(t)
  PROVE  IInv'
  <1> USE DEF Arrive, Goto, IInv, tables
  <1>1. PICK r \in Requests : req' = [req EXCEPT ![t] = r]
    OBVIOUS
  <1>2. ChainInv' /\ UndoInv' /\ AppliedOnce'
    BY TablesFrame DEF tables
  <1>3. TypeOK'
    BY <1>1 DEF TypeOK, Stage, BeforeTx
  <1>4. LocalInv' /\ JobInv'
    BY <1>1 DEF TypeOK, LocalInv, JobInv, Accepted, After, AlreadyReversed,
                ReversalsOf, Resolved, Decided
  <1>5. ClaimInv' /\ LockInv'
    BY <1>1 DEF TypeOK, ClaimInv, LockInv, BalanceOf, InTx, Decided
  <1>6. AnswersAgree' /\ NeverInternal'
    <2>1. answer[t] = Null
      BY <1>1 DEF LocalInv
    <2>2. /\ UNCHANGED <<answer, movements, operations>>
          /\ \A u \in Attempts : u # t => req'[u] = req[u]
      BY DEF TypeOK
    <2>3. NeverInternal'
      BY <2>2 DEF NeverInternal, Reply
    <2>4. Posted' = Posted
      BY <2>2 DEF Posted
    <2>. QED  BY <2>1, <2>2, <2>3, <2>4 DEF AnswersAgree
  <1>. QED  BY <1>2, <1>3, <1>4, <1>5, <1>6

LEMMA LookUpInv ==
  ASSUME IInv, NEW t \in Attempts, LookUp(t)
  PROVE  IInv'
  <1> USE DEF LookUp, IInv, tables, local
  <1> DEFINE a == ReplayAnswer(req[t].op, req[t].body)
  <1>1. ChainInv' /\ UndoInv' /\ AppliedOnce'
    BY TablesFrame DEF tables
  <1>2. req[t] \in Requests
    BY DEF LocalInv
  <1>3. \/ /\ Finish(t, a)
           /\ a \in Answer /\ a # Reply("INTERNAL")
           /\ a.code = "OK" => /\ a.movement \in Posted
                               /\ movements[a.movement].op = req[t].op
                               /\ operations[req[t].op].body = req[t].body
        \/ Goto(t, "claim") /\ UNCHANGED answer
    BY <1>2, ReplayIsTrue
  <1>4. TypeOK'
    BY <1>3 DEF TypeOK, Stage, BeforeTx, Finish, Goto
  <1>5. LocalInv' /\ JobInv'
    <2>1. LocalInv'
      BY <1>3 DEF TypeOK, LocalInv, Accepted, After, AlreadyReversed,
         ReversalsOf, Resolved, Decided, Finish, Goto
    <2>2. JobInv'
      BY <1>3 DEF TypeOK, JobInv, Resolved, Finish, Goto
    <2>. QED  BY <2>1, <2>2
  <1>6. ClaimInv' /\ LockInv'
    BY <1>3 DEF TypeOK, ClaimInv, LockInv, BalanceOf, InTx, Decided, Finish,
                Goto
  <1>7. AnswersAgree' /\ NeverInternal'
    BY <1>3 DEF TypeOK, AnswersAgree, NeverInternal, Posted, Finish, Goto,
                Reply
  <1>. QED  BY <1>1, <1>4, <1>5, <1>6, <1>7

LEMMA ClaimStepInv ==
  ASSUME IInv, NEW t \in Attempts, Claim(t)
  PROVE  IInv'
  <1> USE DEF Claim, IInv, tables, local
  <1> DEFINE a == ReplayAnswer(req[t].op, req[t].body)
  <1>1. ChainInv' /\ UndoInv' /\ AppliedOnce'
    BY TablesFrame DEF tables
  <1>2. req[t] \in Requests /\ req[t].op \in Ops
    BY RequestsAssumption DEF LocalInv, Request
  <1>3. CASE operations[req[t].op] = Null
    <2>1. /\ claimant[req[t].op] = Null
          /\ claimant' = [claimant EXCEPT ![req[t].op] = t]
          /\ Goto(t, "precondition") /\ UNCHANGED answer
      BY <1>3
    <2>2. TypeOK'
      BY <1>2, <2>1 DEF TypeOK, Stage, InTx, Goto
    <2>3. LocalInv' /\ JobInv'
      BY <2>1 DEF TypeOK, LocalInv, JobInv, Accepted, After, AlreadyReversed,
                  ReversalsOf, Resolved, Decided, Goto
    <2>4. ClaimInv'
      BY <1>2, <1>3, <2>1, NullAssumption DEF TypeOK, ClaimInv, InTx, Goto
    <2>5. LockInv'
      BY <2>1 DEF TypeOK, LockInv, BalanceOf, Decided, Goto
    <2>6. AnswersAgree' /\ NeverInternal'
      BY <2>1 DEF AnswersAgree, NeverInternal, Posted
    <2>. QED  BY <1>1, <2>2, <2>3, <2>4, <2>5, <2>6
  <1>4. CASE operations[req[t].op] # Null
    <2>1. Finish(t, a) /\ UNCHANGED claimant
      BY <1>4
    <2>2. /\ a \in Answer /\ a # Reply("INTERNAL")
          /\ a.code = "OK" => /\ a.movement \in Posted
                              /\ movements[a.movement].op = req[t].op
                              /\ operations[req[t].op].body = req[t].body
      BY <1>2, <1>4, ReplayIsTrue
    <2>3. TypeOK'
      BY <2>1, <2>2 DEF TypeOK, Stage, Finish
    <2>4. LocalInv' /\ JobInv'
      BY <2>1 DEF TypeOK, LocalInv, JobInv, Accepted, After, AlreadyReversed,
                  ReversalsOf, Resolved, Decided, Finish
    <2>5. ClaimInv' /\ LockInv'
      BY <2>1 DEF TypeOK, ClaimInv, LockInv, BalanceOf, InTx, Decided, Finish
    <2>6. AnswersAgree' /\ NeverInternal'
      BY <2>1, <2>2 DEF TypeOK, AnswersAgree, NeverInternal, Posted, Finish
    <2>. QED  BY <1>1, <2>3, <2>4, <2>5, <2>6
  <1>. QED  BY <1>3, <1>4

(* Refuse, Reject and Abort end the same way.                              *)
LEMMA RollbackInv ==
  ASSUME IInv, NEW t \in Attempts, NEW code \in AnswerCodes \ {"OK", "INTERNAL"},
         pc[t] # "idle", Rollback(t, code)
  PROVE  IInv'
  <1> USE DEF Rollback, Finish, Release, IInv, tables, local
  <1>1. ChainInv' /\ UndoInv' /\ AppliedOnce'
    BY TablesFrame DEF tables
  <1>2. /\ Reply(code) \in Answer /\ Reply(code).code # "OK"
        /\ Reply(code) # Reply("INTERNAL")
    BY DEF Reply, Answer
  <1>3. TypeOK'
    BY <1>2 DEF TypeOK, Stage
  <1>4. LocalInv' /\ JobInv'
    BY DEF TypeOK, LocalInv, JobInv, Accepted, After, AlreadyReversed,
           ReversalsOf, Resolved, Decided
  <1>5. ClaimInv' /\ LockInv'
    BY RequestsAssumption, NullAssumption
       DEF TypeOK, LocalInv, ClaimInv, LockInv, BalanceOf, InTx, Decided,
           Resolved, Request, Job
  <1>6. AnswersAgree' /\ NeverInternal'
    BY <1>2 DEF TypeOK, AnswersAgree, NeverInternal, Posted
  <1>. QED  BY <1>1, <1>3, <1>4, <1>5, <1>6

LEMMA ProceedInv ==
  ASSUME IInv, NEW t \in Attempts, Proceed(t)
  PROVE  IInv'
  <1> USE DEF Proceed, Goto, IInv, tables
  <1>1. ChainInv' /\ UndoInv' /\ AppliedOnce'
    BY TablesFrame DEF tables
  <1>2. req[t].body \in Body
    BY RequestsAssumption DEF LocalInv, Request
  <1>3. PICK j \in Job :
          /\ job' = [job EXCEPT ![t] = j]
          /\ j.reverses = Null => j.delta \in Deltas
          /\ j.reverses # Null => /\ movements[j.reverses] # Null
                                  /\ movements[j.reverses].reverses = Null
                                  /\ movements[j.reverses].shelf = j.shelf
                                  /\ movements[j.reverses].delta = -j.delta
    <2>1. CASE req[t].body.kind = "post"
      <3> DEFINE j == [shelf |-> req[t].body.shelf,
                       delta |-> req[t].body.delta, reverses |-> Null]
      <3>1. req[t].body.shelf \in Shelves /\ req[t].body.delta \in Deltas
        BY <1>2, <2>1 DEF Body, PostBody, ReverseBody
      <3>2. j \in Job /\ job' = [job EXCEPT ![t] = j]
        BY <2>1, <3>1, DeltasAssumption DEF Job
      <3>. QED  BY <3>1, <3>2
    <2>2. CASE req[t].body.kind = "reverse"
      <3> DEFINE j == [shelf |-> Original(t).shelf,
                       delta |-> -Original(t).delta,
                       reverses |-> req[t].body.target]
      <3>1. req[t].body.target \in Attempts
        BY <1>2, <2>2 DEF Body, PostBody, ReverseBody
      <3>2. Original(t) \in Movement /\ Original(t) # Null
            /\ Original(t).reverses = Null
        BY <2>2, <3>1 DEF Reversible, Original, IsReversal, TypeOK
      <3>3. j \in Job /\ -j.delta = Original(t).delta
        BY <3>1, <3>2 DEF Movement, Job
      <3>4. job' = [job EXCEPT ![t] = j]
        BY <2>2
      <3>5. j.reverses # Null
        BY <3>1, NullAssumption
      <3>. QED  BY <3>1, <3>2, <3>3, <3>4, <3>5 DEF Original
    <2>. QED  BY <1>2, <2>1, <2>2 DEF Body, PostBody, ReverseBody
  <1>4. TypeOK'
    BY <1>3 DEF TypeOK, Stage, InTx
  <1>5. LocalInv' /\ JobInv'
    BY <1>3 DEF TypeOK, LocalInv, JobInv, Accepted, After, AlreadyReversed,
                ReversalsOf, Resolved, Decided
  <1>6. ClaimInv' /\ LockInv'
    BY <1>3 DEF TypeOK, ClaimInv, LockInv, BalanceOf, InTx, Decided
  <1>7. AnswersAgree' /\ NeverInternal'
    BY DEF AnswersAgree, NeverInternal, Posted
  <1>. QED  BY <1>1, <1>4, <1>5, <1>6, <1>7

(* The three statements that look for the balance row.                     *)
LEMMA BalanceStepInv ==
  ASSUME IInv, NEW t \in Attempts,
         LockBalance(t) \/ CreateBalance(t) \/ RelockBalance(t)
  PROVE  IInv'
  <1> USE DEF LockBalance, CreateBalance, RelockBalance, Goto, IInv, tables,
              local
  <1>1. ChainInv' /\ UndoInv' /\ AppliedOnce'
    BY TablesFrame DEF tables
  <1>2. job[t] \in Job /\ job[t].shelf \in Shelves
    BY DEF LocalInv, Resolved, Job
  <1>3. ZeroBalance \in Balance
    BY QuantityAssumption DEF ZeroBalance, Balance, Quantity
  <1>4. TypeOK'
    BY <1>2, <1>3 DEF TypeOK, Stage, InTx
  <1>5. LocalInv' /\ JobInv'
    <2>1. LocalInv'
      BY <1>2, <1>3 DEF TypeOK, LocalInv, Accepted, After, AlreadyReversed,
         ReversalsOf, Resolved, Decided
    <2>2. JobInv'
      BY <1>2 DEF TypeOK, JobInv, Resolved
    <2>. QED  BY <2>1, <2>2
  <1>6. ClaimInv'
    BY DEF TypeOK, ClaimInv, InTx
  <1>7. LockInv'
    <2>1. \A u \in Attempts : pc[u] \in Resolved => job[u].shelf \in Shelves
      BY DEF LocalInv, Job
    <2>2. UNCHANGED <<job, balances>>
      OBVIOUS
    <2>3. CASE CreateBalance(t)
      <3>1. ASSUME NEW u \in Attempts, pc'[u] \in Decided
            PROVE  holder'[job[u].shelf] = u /\ row'[u] = BalanceOf(job[u].shelf)
        BY <2>1, <2>3, <3>1, NullAssumption
           DEF TypeOK, LockInv, Decided, Resolved
      <3>2. ASSUME NEW u \in Attempts, pc'[u] = "relock"
            PROVE  (holder'[job[u].shelf] = u) <=> (balances[job[u].shelf] = Null)
        BY <1>2, <2>1, <2>3, <3>2, NullAssumption
           DEF TypeOK, LockInv, Decided, Resolved
      <3>3. ASSUME NEW s \in Shelves, holder'[s] # Null
            PROVE  pc'[holder'[s]] \in {"relock"} \cup Decided
                     /\ job[holder'[s]].shelf = s
        BY <1>2, <2>3, <3>3, NullAssumption DEF TypeOK, LockInv, Decided
      <3>. QED  BY <2>2, <3>1, <3>2, <3>3 DEF LockInv, BalanceOf
    <2>4. CASE LockBalance(t) /\ balances[job[t].shelf] = Null
      BY <2>4 DEF TypeOK, LockInv, BalanceOf, Decided
    <2>5. CASE (LockBalance(t) /\ balances[job[t].shelf] # Null) \/ RelockBalance(t)
      <3>1. /\ pc' = [pc EXCEPT ![t] = "decide"]
            /\ row' = [row EXCEPT ![t] = BalanceOf(job[t].shelf)]
            /\ holder[job[t].shelf] \in {Null, t}
            /\ holder' = [holder EXCEPT ![job[t].shelf] = t]
        BY <1>2, <2>5 DEF TypeOK, LockInv, BalanceOf
      <3>2. ASSUME NEW u \in Attempts, pc'[u] \in Decided
            PROVE  holder'[job[u].shelf] = u /\ row'[u] = BalanceOf(job[u].shelf)
        BY <1>2, <2>1, <3>1, <3>2, NullAssumption
           DEF TypeOK, LockInv, Decided, Resolved
      <3>3. ASSUME NEW u \in Attempts, pc'[u] = "relock"
            PROVE  (holder'[job[u].shelf] = u) <=> (balances[job[u].shelf] = Null)
        BY <1>2, <2>1, <2>5, <3>1, <3>3, NullAssumption
           DEF TypeOK, LockInv, Decided, Resolved
      <3>4. ASSUME NEW s \in Shelves, holder'[s] # Null
            PROVE  pc'[holder'[s]] \in {"relock"} \cup Decided
                     /\ job[holder'[s]].shelf = s
        BY <1>2, <3>1, <3>4, NullAssumption DEF TypeOK, LockInv, Decided
      <3>. QED  BY <2>2, <3>2, <3>3, <3>4 DEF LockInv, BalanceOf
    <2>. QED  BY <2>3, <2>4, <2>5
  <1>8. AnswersAgree' /\ NeverInternal'
    BY DEF AnswersAgree, NeverInternal, Posted
  <1>. QED  BY <1>1, <1>4, <1>5, <1>6, <1>7, <1>8

LEMMA WriteInv ==
  ASSUME IInv, NEW t \in Attempts, Write(t)
  PROVE  IInv'
  <1> USE DEF Write, Goto, IInv, tables, local
  <1>1. ChainInv' /\ UndoInv' /\ AppliedOnce'
    BY TablesFrame DEF tables
  <1>2. TypeOK'
    BY DEF TypeOK, Stage, InTx
  <1>3. LocalInv' /\ JobInv'
    BY DEF TypeOK, LocalInv, JobInv, Accepted, After, AlreadyReversed,
           ReversalsOf, Resolved, Decided
  <1>4. ClaimInv' /\ LockInv'
    BY DEF TypeOK, ClaimInv, LockInv, BalanceOf, InTx, Decided
  <1>5. AnswersAgree' /\ NeverInternal'
    BY DEF AnswersAgree, NeverInternal, Posted
  <1>. QED  BY <1>1, <1>2, <1>3, <1>4, <1>5

(* What an attempt about to commit may rely on: it alone owns its          *)
(* operation id and its balance row, and its movement extends the chain.   *)
LEMMA CommitFacts ==
  ASSUME IInv, NEW t \in Attempts, pc[t] = "commit"
  PROVE  /\ req[t] \in Requests /\ req[t].op \in Ops
         /\ req[t].body \in Body
         /\ job[t] \in Job /\ job[t].shelf \in Shelves
         /\ row[t] \in Balance /\ row[t] = BalanceOf(job[t].shelf)
         /\ operations[req[t].op] = Null
         /\ movements[t] = Null
         /\ MovementRow(t) \in Movement
         /\ After(t) \in Quantity
         /\ ~AlreadyReversed(t)
         /\ \A u \in Attempts \ {t} :
              pc[u] \in Decided => job[u].shelf # job[t].shelf
         /\ \A u \in Attempts \ {t} :
              pc[u] \in InTx => req[u].op # req[t].op
  <1> USE DEF IInv
  <1>1. /\ req[t] \in Requests /\ req[t].op \in Ops /\ req[t].body \in Body
        /\ job[t] \in Job /\ row[t] \in Balance /\ movements[t] = Null
        /\ Accepted(t)
    BY RequestsAssumption DEF LocalInv, Request, Resolved, Decided
  <1>2. job[t].shelf \in Shelves
    BY <1>1 DEF Job
  <1>3. row[t] = BalanceOf(job[t].shelf) /\ holder[job[t].shelf] = t
    BY DEF LockInv, Decided
  <1>4. claimant[req[t].op] = t /\ operations[req[t].op] = Null
    BY <1>1, NullAssumption DEF ClaimInv, InTx
  <1>5. MovementRow(t) \in Movement
    BY <1>1, <1>2 DEF MovementRow, Movement, Accepted, Job, Balance
  <1>6. \A u \in Attempts \ {t} :
          pc[u] \in Decided => job[u].shelf # job[t].shelf
    BY <1>3 DEF LockInv
  <1>7. \A u \in Attempts \ {t} : pc[u] \in InTx => req[u].op # req[t].op
    BY <1>4 DEF ClaimInv
  <1>. QED  BY <1>1, <1>2, <1>3, <1>4, <1>5, <1>6, <1>7 DEF Accepted

LEMMA CommitInv ==
  ASSUME IInv, NEW t \in Attempts, Commit(t)
  PROVE  IInv'
  <1> DEFINE s == job[t].shelf
             o == req[t].op
             n == MovementRow(t)
  <1> USE DEF IInv, local
  <1>1. pc[t] = "commit"
    BY DEF Commit
  <1>2. /\ req[t] \in Requests /\ o \in Ops /\ req[t].body \in Body
        /\ job[t] \in Job /\ s \in Shelves
        /\ row[t] \in Balance /\ row[t] = BalanceOf(s)
        /\ operations[o] = Null /\ movements[t] = Null
        /\ n \in Movement /\ After(t) \in Quantity /\ ~AlreadyReversed(t)
        /\ \A u \in Attempts \ {t} : pc[u] \in Decided => job[u].shelf # s
        /\ \A u \in Attempts \ {t} : pc[u] \in InTx => req[u].op # o
    BY <1>1, CommitFacts
  <1>3. /\ movements' = [movements EXCEPT ![t] = n]
        /\ balances' = [balances EXCEPT ![s] = [qty |-> After(t), last |-> t]]
        /\ operations' = [operations EXCEPT ![o] =
                            [body |-> req[t].body, result |-> t]]
        /\ pc' = [pc EXCEPT ![t] = "done"]
        /\ claimant' = [p \in Ops |-> IF claimant[p] = t THEN Null ELSE claimant[p]]
        /\ holder' = [x \in Shelves |-> IF holder[x] = t THEN Null ELSE holder[x]]
        /\ UNCHANGED <<req, job, row>>
    BY DEF Commit, Finish, Release
  <1>4. PICK a \in {[code |-> "OK", movement |-> t], Reply("LOST")} :
          answer' = [answer EXCEPT ![t] = a]
    BY DEF Commit, Finish
  <1>5. /\ movements'[t] = n /\ n # Null
        /\ n.shelf = s /\ n.delta = job[t].delta /\ n.before = row[t].qty
        /\ n.after = n.before + n.delta /\ n.prev = row[t].last
        /\ n.op = o /\ n.reverses = job[t].reverses
    BY <1>2, <1>3, NullAssumption
       DEF MovementRow, After, TypeOK, Balance, Job, Quantity
  <1>6. /\ \A m \in Attempts \ {t} : movements'[m] = movements[m]
        /\ Posted' = Posted \cup {t} /\ t \notin Posted
        /\ \A m \in Posted : m \in Attempts /\ m # t /\ movements'[m] = movements[m]
    BY <1>2, <1>3, <1>5 DEF TypeOK, Posted
  <1>7. TypeOK'
    BY <1>2, <1>3, <1>4, QuantityAssumption
       DEF TypeOK, Stage, Balance, Operation, Answer, AnswerCodes, Reply
  <1>8. ChainInv'
    <2>1. \/ /\ n.prev = Null /\ n.before = 0
             /\ \A m \in Posted : movements[m].shelf # s
          \/ /\ n.prev \in Posted /\ movements[n.prev].shelf = s
             /\ movements[n.prev].after = n.before
             /\ \A m \in Posted : movements[m].prev # n.prev
      <3>1. CASE balances[s] = Null
        BY <1>2, <1>5, <3>1 DEF BalanceOf, ZeroBalance, ChainInv
      <3>2. CASE balances[s] # Null
        BY <1>2, <1>5, <3>2 DEF BalanceOf, ChainInv, ChainUnbroken, PostedOn
      <3>. QED  BY <3>1, <3>2
    <2>2. \A m \in Posted : movements[m].prev # Null =>
            /\ movements[m].prev \in Posted
            /\ movements'[movements[m].prev] = movements[movements[m].prev]
            /\ movements[movements[m].prev].shelf = movements[m].shelf
      BY <1>6 DEF ChainInv
    <2>3. \A m \in Posted : movements[m].prev # t
      BY <1>2, <1>6, <2>2, NullAssumption
    <2>4. ASSUME NEW m \in Posted'
          PROVE  LET r == movements'[m] IN
                 /\ r.after = r.before + r.delta
                 /\ r.before = IF r.prev = Null THEN 0 ELSE movements'[r.prev].after
                 /\ r.prev # Null => /\ r.prev \in Posted'
                                     /\ movements'[r.prev].shelf = r.shelf
      <3>1. CASE m = t
        BY <1>5, <1>6, <2>1, <3>1, NullAssumption DEF Posted
      <3>2. CASE m \in Posted
        BY <1>6, <2>2, <3>2 DEF ChainInv, ChainUnbroken
      <3>. QED  BY <1>6, <3>1, <3>2
    <2>5. ASSUME NEW x \in Shelves, balances'[x] # Null
          PROVE  /\ balances'[x].last \in PostedOn(x)'
                 /\ balances'[x].qty = movements'[balances'[x].last].after
                 /\ \A m \in Posted' : movements'[m].prev # balances'[x].last
      <3>1. CASE x = s
        <4>1. balances'[x] = [qty |-> After(t), last |-> t] /\ n.after = After(t)
          BY <1>2, <1>3, <3>1 DEF TypeOK, MovementRow
        <4>2. n.prev # t
          BY <1>6, <2>1, NullAssumption
        <4>. QED  BY <1>5, <1>6, <2>3, <3>1, <4>1, <4>2 DEF PostedOn
      <3>2. CASE x # s
        <4>1. balances'[x] = balances[x] /\ balances[x].last \in PostedOn(x)
          BY <1>2, <1>3, <2>5, <3>2 DEF TypeOK, ChainInv, ChainUnbroken
        <4>2. balances[x].last \in Posted /\ movements[balances[x].last].shelf = x
          BY <4>1 DEF PostedOn
        <4>3. n.prev # balances[x].last
          BY <2>1, <3>2, <4>2, NullAssumption DEF Posted
        <4>4. /\ balances[x].qty = movements[balances[x].last].after
              /\ \A m \in Posted : movements[m].prev # balances[x].last
          BY <2>5, <4>1 DEF ChainInv, ChainUnbroken
        <4>. QED  BY <1>5, <1>6, <4>1, <4>2, <4>3, <4>4 DEF PostedOn
      <3>. QED  BY <3>1, <3>2
    <2>6. \A m \in Posted' : balances'[movements'[m].shelf] # Null
      <3>1. balances'[s] # Null
        BY <1>2, <1>3, <1>7, NullAssumption DEF TypeOK, Balance, Quantity
      <3>. QED  BY <1>2, <1>3, <1>5, <1>6, <3>1 DEF TypeOK, ChainInv
    <2>7. ASSUME NEW m \in Posted', NEW k \in Posted',
                 movements'[m].prev = movements'[k].prev,
                 movements'[m].shelf = movements'[k].shelf
          PROVE  m = k
      <3>1. CASE m \in Posted /\ k \in Posted
        BY <1>6, <2>7, <3>1 DEF ChainInv
      <3>2. CASE m = t \/ k = t
        BY <1>5, <1>6, <2>1, <2>7, <3>2, NullAssumption DEF Posted
      <3>. QED  BY <1>6, <3>1, <3>2
    <2>8. ASSUME NEW x \in Shelves, balances'[x] # Null,
                 NEW m \in PostedOn(x)', m # balances'[x].last
          PROVE  \E k \in PostedOn(x)' : movements'[k].prev = m
      <3>1. \A k \in PostedOn(x) : k \in PostedOn(x)' /\ movements'[k] = movements[k]
        BY <1>6 DEF PostedOn
      <3>2. CASE x = s
        <4>1. balances'[x].last = t
          BY <1>2, <1>3, <3>2 DEF TypeOK
        <4>2. m \in PostedOn(x)
          BY <1>6, <2>8, <4>1 DEF PostedOn
        <4>3. balances[s] # Null /\ n.prev = balances[s].last
          BY <1>2, <1>5, <3>2, <4>2 DEF ChainInv, PostedOn, BalanceOf
        <4>4. CASE m = n.prev
          BY <1>5, <1>6, <3>2, <4>4 DEF PostedOn
        <4>5. CASE m # n.prev
          <5>1. PICK k \in PostedOn(x) : movements[k].prev = m
            BY <1>2, <3>2, <4>2, <4>3, <4>5 DEF ChainInv, ChainUnbroken
          <5>. QED  BY <3>1, <5>1
        <4>. QED  BY <4>4, <4>5
      <3>3. CASE x # s
        <4>1. balances'[x] = balances[x]
          BY <1>2, <1>3, <3>3 DEF TypeOK
        <4>2. m \in PostedOn(x)
          BY <1>5, <1>6, <3>3 DEF PostedOn
        <4>3. PICK k \in PostedOn(x) : movements[k].prev = m
          BY <2>8, <4>1, <4>2 DEF ChainInv, ChainUnbroken
        <4>. QED  BY <3>1, <4>3
      <3>. QED  BY <3>2, <3>3
    <2>. QED  BY <2>4, <2>5, <2>6, <2>7, <2>8 DEF ChainInv, ChainUnbroken
  <1>9. UndoInv'
    <2>1. n.reverses = Null => n.delta \in Deltas
      BY <1>1, <1>5 DEF JobInv, Resolved
    <2>2. n.reverses # Null =>
            /\ n.reverses \in Posted
            /\ movements[n.reverses].reverses = Null
            /\ movements[n.reverses].shelf = s
            /\ movements[n.reverses].delta = -n.delta
            /\ \A m \in Posted : movements[m].reverses # n.reverses
      BY <1>1, <1>2, <1>5
         DEF JobInv, Resolved, Job, Posted, AlreadyReversed, ReversalsOf
    <2>. QED  BY <1>5, <1>6, <2>1, <2>2 DEF UndoInv
  <1>10. AppliedOnce'
    <2> DEFINE done == [body |-> req[t].body, result |-> t]
    <2>1. done \in Operation /\ done # Null /\ operations'[o] = done
      BY <1>2, <1>3, NullAssumption DEF TypeOK, Operation
    <2>2. \A p \in Ops \ {o} : operations'[p] = operations[p]
      BY <1>2, <1>3 DEF TypeOK
    <2>3. \A m \in Posted : movements[m].op \in Ops \ {o}
      <3>1. \A m \in Posted : movements[m].op # o
        BY <1>2 DEF AppliedOnce
      <3>2. \A m \in Posted : movements[m] \in Movement
        BY DEF TypeOK, Posted
      <3>. QED  BY <3>1, <3>2 DEF Movement
    <2>4. \A p \in Ops : operations[p] # Null => operations[p].result \in Posted
      BY DEF AppliedOnce
    <2> HIDE DEF done
    <2>5. done.result = t
      BY DEF done
    <2>. QED  BY <1>2, <1>5, <1>6, <2>1, <2>2, <2>3, <2>4, <2>5 DEF AppliedOnce
  <1>11. AnswersAgree' /\ NeverInternal'
    BY <1>2, <1>3, <1>4, <1>5, <1>6, NullAssumption
       DEF TypeOK, AnswersAgree, NeverInternal, AppliedOnce, Reply, Answer, Operation
  <1>12. LocalInv'
    <2>1. ASSUME NEW u \in Attempts \ {t}, pc[u] = "commit"
          PROVE  Accepted(u)'
      <3>1. Accepted(u) /\ job[u] \in Job /\ job[u].shelf # s
        BY <1>2, <2>1 DEF LocalInv, Resolved, Decided
      <3>2. After(u)' = After(u)
        BY <1>3 DEF After
      <3>3. CASE job[u].reverses = Null
        BY <1>3, <3>1, <3>2, <3>3 DEF Accepted, AlreadyReversed
      <3>4. CASE job[u].reverses # Null
        <4>1. ReversalsOf(job[u].reverses) = {}
          BY <3>1, <3>4 DEF Accepted, AlreadyReversed
        <4>2. n.reverses # job[u].reverses
          BY <1>1, <1>5, <2>1, <3>1, <3>4 DEF JobInv, Resolved
        <4>3. ReversalsOf(job[u].reverses)' = {}
          BY <1>3, <1>5, <1>6, <4>1, <4>2 DEF ReversalsOf
        <4>. QED  BY <1>3, <3>1, <3>2, <4>3 DEF Accepted, AlreadyReversed
      <3>. QED  BY <3>3, <3>4
    <2>2. ASSUME NEW u \in Attempts
          PROVE  /\ pc'[u] # "idle" => req[u] \in Requests
                 /\ pc'[u] # "done" => movements'[u] = Null /\ answer'[u] = Null
                 /\ pc'[u] \in Resolved => job[u] \in Job
                 /\ pc'[u] \in Decided => row[u] \in Balance
      BY <1>2, <1>3, <1>4, <1>6 DEF TypeOK, LocalInv, Resolved, Decided
    <2>3. \A u \in Attempts : pc'[u] = "commit" => u # t /\ pc[u] = "commit"
      BY <1>3 DEF TypeOK
    <2>. QED  BY <1>3, <2>1, <2>2, <2>3 DEF LocalInv
  <1>13. JobInv'
    BY <1>3, <1>5, <1>6 DEF TypeOK, LocalInv, JobInv, Resolved, Job, Posted
  <1>14. ClaimInv'
    <2>1. ASSUME NEW u \in Attempts, pc'[u] \in InTx
          PROVE  claimant'[req[u].op] = u
      <3>1. u # t /\ pc[u] \in InTx
        BY <1>3, <2>1 DEF TypeOK, InTx
      <3>2. req[u].op \in Ops
        BY <3>1, RequestsAssumption DEF LocalInv, Request, InTx
      <3>. QED  BY <1>3, <3>1, <3>2 DEF ClaimInv
    <2>2. ASSUME NEW p \in Ops, claimant'[p] # Null
          PROVE  pc'[claimant'[p]] \in InTx /\ req[claimant'[p]].op = p
                   /\ operations'[p] = Null
      <3>1. claimant'[p] = claimant[p] /\ claimant[p] \in Attempts \ {t}
        BY <1>3, <2>2 DEF TypeOK
      <3>2. pc[claimant[p]] \in InTx /\ req[claimant[p]].op = p /\ operations[p] = Null
        BY <3>1, NullAssumption DEF ClaimInv
      <3>. QED  BY <1>2, <1>3, <3>1, <3>2 DEF TypeOK
    <2>. QED  BY <1>3, <2>1, <2>2 DEF ClaimInv
  <1>15. LockInv'
    <2>1. \A u \in Attempts : pc[u] \in Resolved => job[u].shelf \in Shelves
      BY DEF LocalInv, Job
    <2>2. ASSUME NEW u \in Attempts, pc'[u] \in Decided
          PROVE  holder'[job[u].shelf] = u /\ row[u] = BalanceOf(job[u].shelf)'
      <3>1. u # t /\ pc[u] \in Decided /\ job[u].shelf # s
        BY <1>2, <1>3, <2>2 DEF TypeOK, Decided
      <3>2. job[u].shelf \in Shelves
        BY <2>1, <3>1 DEF Resolved, Decided
      <3>3. balances'[job[u].shelf] = balances[job[u].shelf]
        BY <1>3, <3>1, <3>2 DEF TypeOK
      <3>. QED  BY <1>3, <3>1, <3>2, <3>3 DEF LockInv, BalanceOf
    <2>3. ASSUME NEW u \in Attempts, pc'[u] = "relock"
          PROVE  (holder'[job[u].shelf] = u) <=> (balances'[job[u].shelf] = Null)
      <3>1. u # t /\ pc[u] = "relock" /\ job[u].shelf \in Shelves
        BY <1>3, <2>1, <2>3 DEF TypeOK, Resolved
      <3>2. (holder[job[u].shelf] = u) <=> (balances[job[u].shelf] = Null)
        BY <3>1 DEF LockInv
      <3>3. CASE job[u].shelf # s
        BY <1>3, <3>1, <3>2, <3>3, NullAssumption DEF TypeOK
      <3>4. CASE job[u].shelf = s
        <4>1. holder[s] = t
          BY <1>1 DEF LockInv, Decided
        <4>2. balances'[s] # Null
          BY <1>2, <1>3, <1>7, NullAssumption DEF TypeOK, Balance, Quantity
        <4>. QED  BY <1>3, <3>1, <3>4, <4>1, <4>2, NullAssumption
      <3>. QED  BY <3>3, <3>4
    <2>4. ASSUME NEW x \in Shelves, holder'[x] # Null
          PROVE  pc'[holder'[x]] \in {"relock"} \cup Decided
                   /\ job[holder'[x]].shelf = x
      <3>1. holder'[x] = holder[x] /\ holder[x] \in Attempts \ {t}
        BY <1>3, <2>4 DEF TypeOK
      <3>. QED  BY <1>3, <3>1, NullAssumption DEF LockInv, TypeOK
    <2>. QED  BY <1>3, <2>2, <2>3, <2>4 DEF LockInv
  <1>. QED  BY <1>7, <1>8, <1>9, <1>10, <1>11, <1>12, <1>13, <1>14, <1>15
-----------------------------------------------------------------------------
LEMMA StepInv == IInv /\ [Next]_vars => IInv'
  <1> SUFFICES ASSUME IInv, [Next]_vars PROVE IInv'
    OBVIOUS
  <1>1. CASE UNCHANGED vars
    <2>1. TypeOK' /\ ClaimInv' /\ NeverInternal'
      BY <1>1 DEF vars, tables, local, IInv, TypeOK, ClaimInv, NeverInternal
    <2>2. LocalInv'
      BY <1>1 DEF vars, tables, local, IInv, LocalInv, Accepted, After,
         AlreadyReversed, ReversalsOf
    <2>3. JobInv' /\ LockInv'
      BY <1>1 DEF vars, tables, local, IInv, JobInv, LockInv, BalanceOf
    <2>4. ChainInv' /\ UndoInv' /\ AppliedOnce'
      BY <1>1, TablesFrame DEF vars
    <2>5. AnswersAgree'
      BY <1>1 DEF vars, tables, local, IInv, AnswersAgree, Posted
    <2>. QED  BY <2>1, <2>2, <2>3, <2>4, <2>5 DEF IInv
  <1>2. CASE Next
    <2>1. PICK t \in Attempts : Arrive(t) \/ Step(t) \/ Abort(t)
      BY <1>2 DEF Next
    <2>2. CASE Arrive(t)
      BY <2>2, ArriveInv
    <2>3. CASE LookUp(t)
      BY <2>3, LookUpInv
    <2>4. CASE Claim(t)
      BY <2>4, ClaimStepInv
    <2>5. CASE Proceed(t)
      BY <2>5, ProceedInv
    <2>6. CASE Refuse(t)
      <3>1. RefusalCode(t) \in AnswerCodes \ {"OK", "INTERNAL"}
        BY DEF RefusalCode, AnswerCodes
      <3>. QED  BY <2>6, <3>1, RollbackInv DEF Refuse
    <2>7. CASE LockBalance(t) \/ CreateBalance(t) \/ RelockBalance(t)
      BY <2>7, BalanceStepInv
    <2>8. CASE Write(t)
      BY <2>8, WriteInv
    <2>9. CASE Reject(t)
      <3>1. RejectionCode(t) \in AnswerCodes \ {"OK", "INTERNAL"}
        BY DEF RejectionCode, AnswerCodes
      <3>. QED  BY <2>9, <3>1, RollbackInv DEF Reject
    <2>10. CASE Commit(t)
      BY <2>10, CommitInv
    <2>11. CASE Abort(t)
      <3>1. "LOST" \in AnswerCodes \ {"OK", "INTERNAL"}
        BY DEF AnswerCodes
      <3>. QED  BY <2>11, <3>1, RollbackInv DEF Abort, BeforeTx, InTx
    <2>. QED
      BY <2>1, <2>2, <2>3, <2>4, <2>5, <2>6, <2>7, <2>8, <2>9, <2>10, <2>11
         DEF Step
  <1>. QED  BY <1>1, <1>2

(* The strengthened invariant holds in every reachable state.              *)
THEOREM EngineInvariant == Spec => []IInv
  BY InitInv, StepInv, PTL DEF Spec

(* The variables keep their types (tables hold rows, locks name attempts). *)
THEOREM TypeCorrect == Spec => []TypeOK
  <1>1. IInv => TypeOK
    BY DEF IInv
  <1>. QED  BY EngineInvariant, <1>1, PTL

(* INV-3, INV-4: the account of every shelf is unbroken and its balance    *)
(* row is the end of it, whatever interleaves in ledgerService.ts.         *)
THEOREM ChainIsUnbroken == Spec => []ChainUnbroken
  <1>1. IInv => ChainUnbroken
    BY DEF IInv, ChainInv
  <1>. QED  BY EngineInvariant, <1>1, PTL

(* INV-7: an operation id posts at most one movement, however often and    *)
(* however concurrently it is sent.                                        *)
THEOREM PostedAtMostOnce == Spec => []AppliedOnce
  <1>1. IInv => AppliedOnce
    BY DEF IInv
  <1>. QED  BY EngineInvariant, <1>1, PTL

(* INV-7: everybody who is told OK about an operation id is told the same. *)
THEOREM AnswersAreTheMovement == Spec => []AnswersAgree
  <1>1. IInv => AnswersAgree
    BY DEF IInv
  <1>. QED  BY EngineInvariant, <1>1, PTL

(* The engine's own "refusing to guess" branches are dead code.            *)
THEOREM NoInternalError == Spec => []NeverInternal
  <1>1. IInv => NeverInternal
    BY DEF IInv
  <1>. QED  BY EngineInvariant, <1>1, PTL

(* INV-2, INV-4: no insert ever reaches a unique or foreign key of the     *)
(* ledger that would refuse it.                                            *)
THEOREM KeysNeverViolated == Spec => []SchemaKeys
  <1>1. ASSUME IInv PROVE SchemaKeys
    <2> USE <1>1 DEF IInv
    <2>1. \A m \in Posted : RowOf(m) = movements[m]
      BY DEF Posted, RowOf
    <2>2. ASSUME NEW t \in Attempts, pc[t] = "commit"
          PROVE  /\ t \notin Posted /\ RowOf(t) = MovementRow(t)
                 /\ RowOf(t).shelf = job[t].shelf
                 /\ RowOf(t).reverses = job[t].reverses
                 /\ RowOf(t).prev = BalanceOf(job[t].shelf).last
                 /\ ~AlreadyReversed(t) /\ job[t].shelf \in Shelves
                 /\ job[t] \in Job
                 /\ \A u \in Attempts \ {t} :
                      pc[u] \in Decided => job[u].shelf # job[t].shelf
      BY <2>2, CommitFacts DEF Posted, RowOf, MovementRow
    <2>3. ASSUME NEW t \in Attempts, pc[t] = "commit"
          PROVE  /\ RowOf(t).prev # Null =>
                       /\ RowOf(t).prev \in Posted
                       /\ movements[RowOf(t).prev].shelf = RowOf(t).shelf
                 /\ \A m \in Posted :
                       movements[m].shelf = RowOf(t).shelf =>
                         movements[m].prev # RowOf(t).prev
      <3>1. CASE balances[job[t].shelf] = Null
        BY <2>2, <2>3, <3>1 DEF BalanceOf, ZeroBalance, ChainInv
      <3>2. CASE balances[job[t].shelf] # Null
        BY <2>2, <2>3, <3>2 DEF BalanceOf, ChainInv, ChainUnbroken, PostedOn
      <3>. QED  BY <3>1, <3>2
    <2>4. ASSUME NEW t \in Attempts, pc[t] = "commit", RowOf(t).reverses # Null
          PROVE  /\ RowOf(t).reverses \in Posted
                 /\ movements[RowOf(t).reverses].shelf = RowOf(t).shelf
                 /\ movements[RowOf(t).reverses].reverses = Null
                 /\ \A m \in Posted : movements[m].reverses # RowOf(t).reverses
      BY <2>2, <2>4
         DEF JobInv, Resolved, Job, Posted, AlreadyReversed, ReversalsOf
    <2>5. ASSUME NEW m \in Inserted
          PROVE  m \in Posted \/ (m \in Attempts /\ pc[m] = "commit")
      BY DEF Inserted
    <2>6. ASSUME NEW m \in Inserted, NEW n \in Inserted,
                 RowOf(m).prev = RowOf(n).prev, RowOf(m).shelf = RowOf(n).shelf
          PROVE  m = n
      BY <2>1, <2>2, <2>3, <2>5, <2>6 DEF ChainInv, Decided
    <2>7. ASSUME NEW m \in Inserted, NEW n \in Inserted,
                 RowOf(m).reverses = RowOf(n).reverses, RowOf(m).reverses # Null
          PROVE  m = n
      <3>1. CASE m \in Posted /\ n \in Posted
        BY <2>1, <2>7, <3>1 DEF UndoInv
      <3>2. CASE m \notin Posted /\ n \notin Posted
        BY <2>2, <2>4, <2>5, <2>7, <3>2 DEF Decided
      <3>. QED  BY <2>1, <2>4, <2>5, <2>7, <3>1, <3>2
    <2>8. ASSUME NEW m \in Inserted
          PROVE  /\ RowOf(m).prev # Null =>
                       /\ RowOf(m).prev \in Posted
                       /\ movements[RowOf(m).prev].shelf = RowOf(m).shelf
                 /\ RowOf(m).reverses # Null =>
                       /\ RowOf(m).reverses \in Posted
                       /\ movements[RowOf(m).reverses].shelf = RowOf(m).shelf
                       /\ movements[RowOf(m).reverses].reverses = Null
      BY <2>1, <2>3, <2>4, <2>5 DEF ChainInv, UndoInv
    <2>. QED  BY <2>6, <2>7, <2>8 DEF SchemaKeys
  <1>. QED  BY EngineInvariant, <1>1, PTL
-----------------------------------------------------------------------------
LEMMA OnlyCommitWrites ==
  [Next]_vars => UNCHANGED tables \/ \E t \in Attempts : Commit(t)
  BY DEF Next, vars, Arrive, Step, LookUp, Claim, Proceed, Refuse, LockBalance,
         CreateBalance, RelockBalance, Write, Reject, Abort, Rollback, tables

(* What a commit leaves in the tables: one more movement, one more         *)
(* completed operation, and one shelf moved by the delta of the movement.  *)
LEMMA CommitPosts ==
  ASSUME IInv, NEW t \in Attempts, Commit(t)
  PROVE  /\ t \notin Posted /\ Posted' = Posted \cup {t}
         /\ \A m \in Attempts \ {t} : movements'[m] = movements[m]
         /\ movements'[t] = MovementRow(t) /\ MovementRow(t) \in Movement
         /\ MovementRow(t).shelf = job[t].shelf /\ job[t].shelf \in Shelves
         /\ MovementRow(t).prev = BalanceOf(job[t].shelf).last
         /\ \A o \in Ops : operations[o] # Null => operations'[o] = operations[o]
         /\ \A x \in Shelves : x # job[t].shelf => balances'[x] = balances[x]
         /\ \A x \in Shelves : x = job[t].shelf =>
              OnHand(x)' = OnHand(x) + MovementRow(t).delta
         /\ \A m \in Posted : movements'[m] = movements[m]
         /\ \A s \in Shelves : balances'[s] # balances[s] =>
              \E m \in Attempts :
                /\ Posted' = Posted \cup {m}
                /\ m \notin Posted
                /\ movements'[m].shelf = s
                /\ movements'[m].prev =
                     IF balances[s] = Null THEN Null ELSE balances[s].last
                /\ OnHand(s)' = OnHand(s) + movements'[m].delta
  <1> DEFINE s == job[t].shelf
             n == MovementRow(t)
  <1>1. /\ req[t].op \in Ops /\ s \in Shelves
        /\ operations[req[t].op] = Null /\ movements[t] = Null
        /\ n \in Movement /\ row[t] = BalanceOf(s) /\ After(t) \in Quantity
    BY CommitFacts DEF Commit
  <1>2. /\ movements' = [movements EXCEPT ![t] = n]
        /\ balances' = [balances EXCEPT ![s] = [qty |-> After(t), last |-> t]]
        /\ operations' = [operations EXCEPT ![req[t].op] =
                            [body |-> req[t].body, result |-> t]]
    BY DEF Commit
  <1>3. n # Null /\ n.shelf = s /\ n.prev = BalanceOf(s).last
        /\ After(t) = OnHand(s) + n.delta
    BY <1>1, NullAssumption
       DEF MovementRow, After, BalanceOf, OnHand, ZeroBalance
  <1>4. /\ movements'[t] = n
        /\ \A m \in Attempts \ {t} : movements'[m] = movements[m]
        /\ t \notin Posted /\ Posted' = Posted \cup {t}
    BY <1>1, <1>2, <1>3 DEF IInv, TypeOK, Posted
  <1>5. \A o \in Ops : operations[o] # Null => operations'[o] = operations[o]
    BY <1>1, <1>2 DEF IInv, TypeOK
  <1>6. /\ \A x \in Shelves : x = s => OnHand(x)' = After(t)
        /\ \A x \in Shelves : x # s => balances'[x] = balances[x]
    <2>1. /\ balances'[s] = [qty |-> After(t), last |-> t]
          /\ \A x \in Shelves : x # s => balances'[x] = balances[x]
      BY <1>1, <1>2 DEF IInv, TypeOK
    <2>2. [qty |-> After(t), last |-> t] \in Balance
      BY <1>1 DEF Balance
    <2>. QED  BY <2>1, <2>2, NullAssumption DEF OnHand
  <1>7. \A x \in Shelves : balances'[x] # balances[x] =>
          /\ x = s
          /\ n.prev = IF balances[x] = Null THEN Null ELSE balances[x].last
          /\ OnHand(x)' = OnHand(x) + n.delta
    BY <1>3, <1>6 DEF BalanceOf, ZeroBalance
  <1> HIDE DEF n, s
  <1>8. \A x \in Shelves : balances'[x] # balances[x] =>
              \E m \in Attempts :
                /\ Posted' = Posted \cup {m}
                /\ m \notin Posted
                /\ movements'[m].shelf = x
                /\ movements'[m].prev =
                     IF balances[x] = Null THEN Null ELSE balances[x].last
                /\ OnHand(x)' = OnHand(x) + movements'[m].delta
    BY <1>3, <1>4, <1>7
  <1>. QED  BY <1>1, <1>3, <1>4, <1>5, <1>6, <1>8 DEF n, s, Posted

(* INV-1, INV-5: what is posted stays, and stock moves only with, and by,  *)
(* the movement that says so.                                              *)
THEOREM StockMovesOnlyWithLedger == Spec => StockMovesWithLedger
  <1> DEFINE A == /\ \A m \in Posted : movements'[m] = movements[m]
                  /\ \A o \in Ops :
                       operations[o] # Null => operations'[o] = operations[o]
                  /\ \A s \in Shelves : balances'[s] # balances[s] =>
                       \E m \in Attempts :
                         /\ Posted' = Posted \cup {m}
                         /\ m \notin Posted
                         /\ movements'[m].shelf = s
                         /\ movements'[m].prev =
                              IF balances[s] = Null THEN Null ELSE balances[s].last
                         /\ OnHand(s)' = OnHand(s) + movements'[m].delta
  <1>1. ASSUME IInv, [Next]_vars PROVE A
    <2>1. CASE UNCHANGED tables
      BY <2>1 DEF tables
    <2>2. ASSUME NEW t \in Attempts, Commit(t) PROVE A
      BY <1>1, <2>2, CommitPosts
    <2>. QED  BY <1>1, <2>1, <2>2, OnlyCommitWrites
  <1>2. IInv /\ [Next]_vars => [A]_vars
    BY <1>1
  <1>. QED  BY EngineInvariant, <1>2, PTL DEF Spec, StockMovesWithLedger

-----------------------------------------------------------------------------
(* INV-6 with a function to sum.                                           *)
DeltaOf == [m \in Attempts |-> movements[m].delta]

Projected == \A s \in Shelves : OnHand(s) = SumOver(DeltaOf, PostedOn(s))

LEMMA LedgerInSums == ProjectionIsLedger <=> Projected
  <1> SUFFICES ASSUME NEW s \in Shelves
               PROVE  MapThenSumSet(LAMBDA m : movements[m].delta, PostedOn(s))
                        = SumOver(DeltaOf, PostedOn(s))
    BY DEF ProjectionIsLedger, Projected
  <1>1. PostedOn(s) \subseteq Attempts
    BY DEF PostedOn, Posted
  <1>. QED  BY <1>1 DEF DeltaOf, SumOver, MapThenSumSet, MapThenFoldSet

(* Only finitely many movements have been posted, so they have a sum, and  *)
(* a commit adds its delta to the sum of its own shelf and to no other.    *)
SumInv == IsFiniteSet(Posted) /\ Projected

LEMMA SumInit == Init => SumInv
  <1> SUFFICES ASSUME Init PROVE SumInv
    OBVIOUS
  <1>1. Posted = {} /\ \A s \in Shelves : PostedOn(s) = {} /\ OnHand(s) = 0
    BY DEF Init, Posted, PostedOn, OnHand
  <1>2. IsFiniteSet({}) /\ SumOver(DeltaOf, {}) = 0
    BY FS_EmptySet, SumUnfold
  <1>. QED  BY <1>1, <1>2 DEF SumInv, Projected

LEMMA SumStep ==
  ASSUME IInv, SumInv, [Next]_vars
  PROVE  SumInv'
  <1>1. CASE UNCHANGED tables
    <2>1. UNCHANGED <<movements, balances>>
      BY <1>1 DEF tables
    <2>. QED  BY <2>1 DEF SumInv, Projected, Posted, PostedOn, OnHand, DeltaOf
  <1>2. ASSUME NEW t \in Attempts, Commit(t)
        PROVE  SumInv'
    <2> DEFINE z == job[t].shelf
               d == MovementRow(t).delta
    <2>1. /\ t \notin Posted /\ Posted' = Posted \cup {t}
          /\ \A m \in Posted : movements'[m] = movements[m]
          /\ movements'[t].shelf = z /\ movements'[t].delta = d
          /\ z \in Shelves /\ d \in Int
          /\ \A x \in Shelves : OnHand(x)' = IF x = z THEN OnHand(x) + d ELSE OnHand(x)
      BY <1>2, CommitPosts DEF OnHand, Movement
    <2> HIDE DEF z, d
    <2>2. IsFiniteSet(Posted)'
      BY <2>1, FS_AddElement DEF SumInv
    <2>3. ASSUME NEW x \in Shelves
          PROVE  OnHand(x)' = SumOver(DeltaOf', PostedOn(x)')
      <3>1. /\ PostedOn(x)' = IF x = z THEN PostedOn(x) \cup {t} ELSE PostedOn(x)
            /\ t \notin PostedOn(x) /\ PostedOn(x) \subseteq Posted
            /\ IsFiniteSet(PostedOn(x))
        <4>1. PostedOn(x) \subseteq Posted /\ t \notin PostedOn(x)
          BY <2>1 DEF PostedOn
        <4>2. PostedOn(x)' = IF x = z THEN PostedOn(x) \cup {t} ELSE PostedOn(x)
          BY <2>1 DEF PostedOn
        <4>. QED  BY <4>1, <4>2, FS_Subset DEF SumInv
      <3>2. /\ \A m \in Posted : DeltaOf'[m] = DeltaOf[m] /\ DeltaOf[m] \in Int
            /\ DeltaOf'[t] = d
        BY <2>1 DEF DeltaOf, Posted, IInv, TypeOK, Movement
      <3>3. SumOver(DeltaOf', PostedOn(x)) = SumOver(DeltaOf, PostedOn(x))
        BY <3>1, <3>2, SumCongruence
      <3>4. SumOver(DeltaOf', PostedOn(x) \cup {t}) = d + SumOver(DeltaOf', PostedOn(x))
        <4>1. \A m \in PostedOn(x) \cup {t} : DeltaOf'[m] \in Int
          BY <2>1, <3>1, <3>2
        <4>. QED  BY <3>1, <3>2, <4>1, SumAdd
      <3>5. OnHand(x) = SumOver(DeltaOf, PostedOn(x)) /\ SumOver(DeltaOf, PostedOn(x)) \in Int
        BY <3>1, <3>2, SumIsInt DEF SumInv, Projected
      <3>6. CASE x = z
        BY <2>1, <3>1, <3>3, <3>4, <3>5, <3>6
      <3>7. CASE x # z
        BY <2>1, <3>1, <3>3, <3>5, <3>7
      <3>. QED  BY <3>6, <3>7
    <2>. QED  BY <2>2, <2>3 DEF SumInv, Projected
  <1>. QED  BY <1>1, <1>2, OnlyCommitWrites

(* INV-6: the quantity of a balance row is the sum of the deltas ever      *)
(* posted to its shelf, however many there are and whatever raced.         *)
THEOREM BalanceIsTheSum == Spec => []ProjectionIsLedger
  <1>1. Spec => []SumInv
    BY SumInit, SumStep, EngineInvariant, PTL DEF Spec
  <1>2. SumInv => ProjectionIsLedger
    BY LedgerInSums DEF SumInv
  <1>. QED  BY <1>1, <1>2, PTL

(* INV-2: a movement and the reversals that name it together moved what    *)
(* the movement moved, or nothing.                                         *)
THEOREM ReversalsAreWhole == Spec => []ReversedWhole
  <1>1. ASSUME IInv, NEW m \in Posted
        PROVE  MapThenSumSet(LAMBDA r : movements[r].delta, ReversalsOf(m))
                 \in {0, -movements[m].delta}
    <2>1. ReversalsOf(m) \subseteq Attempts /\ ReversalsOf(m) \subseteq Posted
      BY DEF ReversalsOf, Posted
    <2>2. MapThenSumSet(LAMBDA r : movements[r].delta, ReversalsOf(m))
            = SumOver(DeltaOf, ReversalsOf(m))
      BY <2>1 DEF DeltaOf, SumOver, MapThenSumSet, MapThenFoldSet
    <2>3. m # Null /\ movements[m].delta \in Int
      BY <1>1, NullAssumption DEF Posted, IInv, TypeOK, Movement
    <2>4. \A r \in ReversalsOf(m) : /\ DeltaOf[r] = -movements[m].delta
                                    /\ ReversalsOf(m) = {r}
      <3>1. \A r \in ReversalsOf(m) : movements[r].reverses = m /\ r \in Posted
        BY DEF ReversalsOf, Posted
      <3>2. \A r \in ReversalsOf(m) : movements[m].delta = -movements[r].delta
        BY <1>1, <2>3, <3>1 DEF IInv, UndoInv
      <3>3. \A r \in ReversalsOf(m) : movements[r].delta \in Int
        BY <1>1, <3>1 DEF IInv, TypeOK, Posted, Movement
      <3>4. \A r \in ReversalsOf(m) : DeltaOf[r] = -movements[m].delta
        BY <2>1, <3>2, <3>3 DEF DeltaOf
      <3>5. \A r, q \in ReversalsOf(m) : r = q
        BY <1>1, <2>3, <3>1 DEF IInv, UndoInv
      <3>. QED  BY <3>4, <3>5
    <2>5. CASE ReversalsOf(m) = {}
      BY <2>2, <2>5, FS_EmptySet, SumUnfold
    <2>6. CASE ReversalsOf(m) # {}
      <3>1. PICK r \in ReversalsOf(m) : TRUE
        BY <2>6
      <3>2. DeltaOf[r] = -movements[m].delta /\ ReversalsOf(m) = {r} /\ DeltaOf[r] \in Int
        BY <2>3, <2>4
      <3>. QED  BY <2>2, <3>2, SumOfOne
    <2>. QED  BY <2>5, <2>6
  <1>2. IInv => ReversedWhole
    BY <1>1 DEF ReversedWhole
  <1>. QED  BY EngineInvariant, <1>2, PTL

(* INV-8: INSUFFICIENT_STOCK is never said on the strength of a stale      *)
(* quantity.                                                               *)
THEOREM RefusalsAreForCause == Spec => RefusedForCause
  <1> DEFINE A == \A t \in Attempts : Ends(t, "INSUFFICIENT_STOCK") =>
                    OnHand(job[t].shelf) + job[t].delta < 0
  <1>1. ASSUME IInv, Next, NEW t \in Attempts, Ends(t, "INSUFFICIENT_STOCK")
        PROVE  OnHand(job[t].shelf) + job[t].delta < 0
    <2>1. answer[t] = Null /\ answer'[t] # Null
          /\ answer'[t].code = "INSUFFICIENT_STOCK"
      <3>1. Reply("INSUFFICIENT_STOCK") \in Answer
        BY DEF Reply, Answer, AnswerCodes
      <3>. QED  BY <1>1, <3>1, NullAssumption DEF Ends, Reply
    <2>2. answer \in [Attempts -> Answer \cup {Null}]
      BY <1>1 DEF IInv, TypeOK
    <2>3. PICK u \in Attempts : Arrive(u) \/ Step(u) \/ Abort(u)
      BY <1>1 DEF Next
    <2>4. Reject(u) /\ u = t /\ RejectionCode(t) = "INSUFFICIENT_STOCK"
      <3>1. CASE Arrive(u) \/ LockBalance(u) \/ CreateBalance(u) \/ RelockBalance(u) \/ Write(u)
        BY <2>1, <3>1 DEF Arrive, LockBalance, CreateBalance, RelockBalance, Write
      <3>2. CASE LookUp(u) \/ Claim(u) \/ Proceed(u) \/ Refuse(u)
        <4>1. ASSUME NEW a, a.code # "INSUFFICIENT_STOCK", Finish(u, a)
              PROVE  FALSE
          BY <2>1, <2>2, <4>1 DEF Finish
        <4>2. /\ RefusalCode(u) # "INSUFFICIENT_STOCK"
              /\ Reply(RefusalCode(u)).code = RefusalCode(u)
          BY DEF RefusalCode, Reply
        <4>3. ReplayAnswer(req[u].op, req[u].body).code # "INSUFFICIENT_STOCK"
          BY DEF ReplayAnswer, Reply
        <4>4. CASE LookUp(u) \/ Claim(u)
          BY <2>1, <4>1, <4>3, <4>4 DEF LookUp, Claim
        <4>5. CASE Proceed(u)
          BY <2>1, <4>5 DEF Proceed
        <4>6. CASE Refuse(u)
          BY <4>1, <4>2, <4>6 DEF Refuse, Rollback
        <4>. QED  BY <3>2, <4>4, <4>5, <4>6
      <3>3. CASE Commit(u) \/ Abort(u)
        BY <2>1, <2>2, <3>3 DEF Commit, Abort, Rollback, Finish, Reply
      <3>4. CASE Reject(u)
        BY <2>1, <2>2, <3>4 DEF Reject, Rollback, Finish, Reply
      <3>. QED  BY <2>3, <3>1, <3>2, <3>3, <3>4 DEF Step
    <2>5. After(t) < 0 /\ pc[t] = "decide"
      BY <2>4 DEF RejectionCode, Reject
    <2>6. row[t] = BalanceOf(job[t].shelf)
      BY <1>1, <2>5 DEF IInv, LockInv, Decided
    <2>. QED  BY <2>5, <2>6 DEF After, BalanceOf, OnHand, ZeroBalance
  <1>2. IInv /\ [Next]_vars => [A]_vars
    BY <1>1
  <1>. QED  BY EngineInvariant, <1>2, PTL DEF Spec, RefusedForCause

(* INV-7: a repetition of an applied command is answered with what it did. *)
THEOREM RepeatsAreAnswered == Spec => RepeatIsAnswered
  <1> DEFINE A == \A t \in Attempts :
                    /\ pc[t] # "done" /\ pc'[t] = "done"
                    /\ operations[req[t].op] # Null
                    /\ operations[req[t].op].body = req[t].body
                    => answer'[t] \in {Reply("LOST"),
                         [code |-> "OK",
                          movement |-> operations[req[t].op].result]}
  <1>1. ASSUME IInv, Next, NEW t \in Attempts,
               pc[t] # "done", pc'[t] = "done",
               operations[req[t].op] # Null,
               operations[req[t].op].body = req[t].body
        PROVE  answer'[t] \in {Reply("LOST"),
                 [code |-> "OK", movement |-> operations[req[t].op].result]}
    <2>1. PICK u \in Attempts : Arrive(u) \/ Step(u) \/ Abort(u)
      BY <1>1 DEF Next
    <2>2. pc \in [Attempts -> Stage] /\ answer \in [Attempts -> Answer \cup {Null}]
      BY <1>1 DEF IInv, TypeOK
    <2>3. u = t /\ ~Arrive(t) /\ pc[t] # "idle"
      BY <1>1, <2>1, <2>2
         DEF Arrive, Step, Abort, LookUp, Claim, Proceed, Refuse, LockBalance,
             CreateBalance, RelockBalance, Write, Reject, Commit, Rollback,
             Finish, Goto, BeforeTx, InTx
    <2>4. pc[t] \notin InTx
      <3>1. pc[t] \in InTx => operations[req[t].op] = Null
        BY <1>1, <2>3, NullAssumption, RequestsAssumption
           DEF IInv, ClaimInv, LocalInv, Request
      <3>. QED  BY <1>1, <3>1
    <2>5. req[t].op \in Ops
      BY <1>1, <2>3, RequestsAssumption DEF IInv, LocalInv, Request
    <2>6. ReplayAnswer(req[t].op, req[t].body) =
            [code |-> "OK", movement |-> operations[req[t].op].result]
      BY <1>1, <2>5, NullAssumption DEF IInv, AppliedOnce, Posted, ReplayAnswer
    <2>7. LookUp(t) \/ Claim(t) \/ Abort(t)
      BY <2>1, <2>3, <2>4
         DEF Step, Proceed, Refuse, LockBalance, CreateBalance, RelockBalance,
             Write, Reject, Commit, InTx
    <2>. QED
      BY <1>1, <2>2, <2>6, <2>7
         DEF LookUp, Claim, Abort, Rollback, Finish, Goto
  <1>2. IInv /\ [Next]_vars => [A]_vars
    BY <1>1
  <1>. QED  BY EngineInvariant, <1>2, PTL DEF Spec, RepeatIsAnswered
-----------------------------------------------------------------------------
LEMMA RefinesInit == Init => Book!Init
  BY DEF Init, Book!Init, EntryOf, OnHand

LEMMA RefinesCommit ==
  ASSUME IInv, NEW t \in Attempts, Commit(t)
  PROVE  Book!Next
  <1> DEFINE s == job[t].shelf
             o == req[t].op
             d == job[t].delta
             x == job[t].reverses
             n == MovementRow(t)
  <1> USE DEF IInv
  <1>1. pc[t] = "commit"
    BY DEF Commit
  <1>2. /\ o \in Ops /\ s \in Shelves /\ job[t] \in Job
        /\ operations[o] = Null /\ movements[t] = Null
        /\ n \in Movement /\ row[t] = BalanceOf(s) /\ After(t) \in Quantity
        /\ ~AlreadyReversed(t)
    BY <1>1, CommitFacts
  <1>3. /\ movements' = [movements EXCEPT ![t] = n]
        /\ balances' = [balances EXCEPT ![s] = [qty |-> After(t), last |-> t]]
        /\ operations' = [operations EXCEPT ![o] =
                            [body |-> req[t].body, result |-> t]]
    BY DEF Commit
  <1>4. /\ n # Null /\ n.shelf = s /\ n.delta = d /\ n.reverses = x
        /\ n.after = OnHand(s) + d /\ After(t) = OnHand(s) + d
    BY <1>2, NullAssumption DEF MovementRow, After, BalanceOf, OnHand, ZeroBalance
  <1>5. /\ movements'[t] = n
        /\ \A m \in Posted : m # t /\ movements'[m] = movements[m]
    BY <1>2, <1>3 DEF TypeOK, Posted
  <1>6. /\ x # Null => x \in Posted
        /\ \A m \in Posted : movements[m].reverses # Null =>
             movements[m].reverses \in Posted
    BY <1>1, <1>2 DEF JobInv, Resolved, Job, Posted, UndoInv
  <1>7. \A p \in Ops \ {o} : EntryOf(p)' = EntryOf(p)
    <2>1. ASSUME NEW p \in Ops \ {o}, operations[p] # Null
          PROVE  EntryOf(p)' = EntryOf(p)
      <3>1. operations[p].result \in Posted /\ operations'[p] = operations[p]
        BY <1>2, <1>3, <2>1 DEF AppliedOnce, TypeOK
      <3>. QED  BY <1>5, <1>6, <2>1, <3>1 DEF EntryOf
    <2>2. ASSUME NEW p \in Ops \ {o}, operations[p] = Null
          PROVE  EntryOf(p)' = EntryOf(p)
      BY <1>3, <2>2 DEF EntryOf, TypeOK
    <2>. QED  BY <2>1, <2>2
  <1>8. /\ EntryOf(o) = Null
        /\ \A p \in Ops : p = o =>
             EntryOf(p)' = [shelf |-> s, delta |-> d,
                            undoes |-> IF x = Null THEN Null ELSE movements[x].op,
                            left |-> OnHand(s) + d]
    <2>1. operations'[o] # Null /\ operations'[o].result = t
      <3>1. operations'[o] = [body |-> req[t].body, result |-> t]
        BY <1>2, <1>3 DEF TypeOK
      <3>2. operations'[o] \in Operation
        BY <1>1, <3>1, CommitFacts DEF Operation
      <3>. QED  BY <3>1, <3>2, NullAssumption
    <2>2. EntryOf(o) = Null
      BY <1>2 DEF EntryOf
    <2>3. ASSUME NEW p \in Ops, p = o
          PROVE  EntryOf(p)' =
                   [shelf |-> n.shelf, delta |-> n.delta,
                    undoes |-> IF n.reverses = Null THEN Null
                               ELSE movements'[n.reverses].op,
                    left |-> n.after]
      BY <1>5, <2>1, <2>3 DEF EntryOf
    <2>4. x # Null => movements'[x] = movements[x]
      BY <1>5, <1>6
    <2>. QED  BY <1>4, <2>2, <2>3, <2>4
  <1>9. [p \in Ops |-> EntryOf(p)]' =
          [[p \in Ops |-> EntryOf(p)] EXCEPT ![o] =
             [shelf |-> s, delta |-> d,
              undoes |-> IF x = Null THEN Null ELSE movements[x].op,
              left |-> OnHand(s) + d]]
    <2>1. [p \in Ops |-> EntryOf(p)]' = [p \in Ops |-> EntryOf(p)']
      OBVIOUS
    <2>2. \A p \in Ops : EntryOf(p)' =
            IF p = o
            THEN [shelf |-> s, delta |-> d,
                  undoes |-> IF x = Null THEN Null ELSE movements[x].op,
                  left |-> OnHand(s) + d]
            ELSE EntryOf(p)
      BY <1>7, <1>8
    <2>. QED  BY <1>2, <2>1, <2>2
  <1>10. [z \in Shelves |-> OnHand(z)]' =
           [[z \in Shelves |-> OnHand(z)] EXCEPT ![s] = @ + d]
    <2>1. balances'[s].qty = OnHand(s) + d /\ balances'[s] # Null
      <3>1. balances'[s] = [qty |-> After(t), last |-> t]
        BY <1>2, <1>3 DEF TypeOK
      <3>2. balances'[s] \in Balance
        BY <1>2, <3>1 DEF Balance
      <3>. QED  BY <1>4, <3>1, <3>2, NullAssumption
    <2>2. \A z \in Shelves \ {s} : balances'[z] = balances[z]
      BY <1>2, <1>3 DEF TypeOK
    <2>. QED  BY <1>2, <2>1, <2>2 DEF OnHand
  <1>11. Book!Fits(s, d)
    BY <1>2, <1>4 DEF Book!Fits, Quantity
  <1>12. CASE x = Null
    <2>1. d \in Deltas
      BY <1>1, <1>12 DEF JobInv, Resolved
    <2>2. Book!Post(o, s, d)
      BY <1>2, <1>8, <1>9, <1>10, <1>11, <1>12, <2>1 DEF Book!Post, Book!Enter
    <2>. QED  BY <1>2, <2>1, <2>2 DEF Book!Next
  <1>13. CASE x # Null
    <2> DEFINE target == movements[x].op
    <2>1. /\ x \in Posted /\ movements[x].reverses = Null
          /\ movements[x].shelf = s /\ movements[x].delta = -d
      BY <1>1, <1>6, <1>13 DEF JobInv, Resolved
    <2>2. target \in Ops /\ operations[target] # Null
          /\ operations[target].result = x
      BY <2>1 DEF AppliedOnce, TypeOK, Posted, Movement
    <2>3. EntryOf(target) = [shelf |-> s, delta |-> -d, undoes |-> Null,
                             left |-> movements[x].after]
      BY <2>1, <2>2 DEF EntryOf
    <2>4. EntryOf(target) # Null
      <3>1. EntryOf(target) \in Book!Entry
        BY <1>2, <2>1, <2>3
           DEF Book!Entry, Job, TypeOK, Posted, Movement, Quantity
      <3>. QED  BY <3>1, EntryAssumption
    <2>5. ASSUME NEW p \in Ops, EntryOf(p) # Null, EntryOf(p).undoes = target
          PROVE  FALSE
      <3> DEFINE m == operations[p].result
      <3>1. /\ m \in Posted
            /\ EntryOf(p).undoes = IF movements[m].reverses = Null THEN Null
                                   ELSE movements[movements[m].reverses].op
        BY <2>5 DEF EntryOf, AppliedOnce
      <3>2. movements[m].reverses # Null
        BY <2>2, <2>5, <3>1, NullAssumption
      <3>3. movements[m].reverses \in Posted
              /\ movements[movements[m].reverses].op = movements[x].op
        BY <1>6, <2>5, <3>1, <3>2
      <3>4. movements[m].reverses = x
        BY <2>1, <3>3 DEF AppliedOnce
      <3>5. m \in Attempts /\ movements[m] # Null
        BY <3>1 DEF Posted
      <3>. QED  BY <1>2, <1>13, <3>4, <3>5 DEF AlreadyReversed, ReversalsOf
    <2>6. -(-d) = d
      BY <1>2 DEF Job
    <2>7. Book!Enter(o, s, d, target)
      BY <1>2, <1>8, <1>9, <1>10, <1>11, <1>13 DEF Book!Enter
    <2>8. Book!Undo(o, target)
      <3>1. EntryOf(target).shelf = s /\ -EntryOf(target).delta = d /\ EntryOf(target).undoes = Null
        BY <2>3, <2>6
      <3> HIDE DEF d, s, o, target
      <3>. QED  BY <2>2, <2>4, <2>5, <2>7, <3>1 DEF Book!Undo, Book!Undone
    <2>. QED  BY <1>2, <2>2, <2>8 DEF Book!Next
  <1>. QED  BY <1>12, <1>13

(* The posting engine, whatever its interleavings, is the atomic book of   *)
(* entries that StockBook describes.                                       *)
THEOREM EngineImplementsBook == Spec => ImplementsStockBook
  <1>1. ASSUME IInv, [Next]_vars PROVE [Book!Next]_(Book!bookVars)
    <2>1. CASE UNCHANGED tables
      BY <2>1 DEF tables, Book!bookVars, EntryOf, OnHand
    <2>. QED  BY <1>1, <2>1, OnlyCommitWrites, RefinesCommit
  <1>. QED
    BY RefinesInit, EngineInvariant, <1>1, PTL
       DEF Spec, ImplementsStockBook, Book!Spec
-----------------------------------------------------------------------------
(* What a client may build on (CommandPromise).                            *)

(* A request that has not arrived is not known.                            *)
Unasked == \A t \in Attempts : pc[t] = "idle" => req[t] = Null

LEMMA UnaskedStep == IInv /\ Unasked /\ [Next]_vars => Unasked'
  <1> SUFFICES ASSUME IInv, Unasked, [Next]_vars PROVE Unasked'
    OBVIOUS
  <1>1. pc \in [Attempts -> Stage] /\ req \in [Attempts -> Requests \cup {Null}]
    BY DEF IInv, TypeOK
  <1>2. CASE UNCHANGED vars
    BY <1>2 DEF Unasked, vars, local
  <1>3. ASSUME NEW t \in Attempts, Arrive(t) PROVE Unasked'
    BY <1>1, <1>3 DEF Unasked, Arrive, Goto
  <1>4. ASSUME NEW t \in Attempts, Step(t) \/ Abort(t) PROVE Unasked'
    <2>1. req' = req /\ \E stage \in Stage \ {"idle"} : pc' = [pc EXCEPT ![t] = stage]
      BY <1>4
         DEF Step, Abort, LookUp, Claim, Proceed, Refuse, LockBalance, CreateBalance,
             RelockBalance, Write, Reject, Commit, Rollback, Finish, Goto, Stage,
             BeforeTx, InTx, local
    <2>. QED  BY <1>1, <2>1 DEF Unasked
  <1>. QED  BY <1>2, <1>3, <1>4 DEF Next

LEMMA PromiseInit == Init => Promise!Init
  BY DEF Init, Promise!Init, Heard

(* A step that answers nobody and records nothing is none for the client.  *)
LEMMA PromiseSame ==
  ASSUME UNCHANGED <<req, answer, operations>>
  PROVE  UNCHANGED Promise!promiseVars
  BY DEF Promise!promiseVars, Heard

LEMMA PromiseAsk ==
  ASSUME IInv, Unasked, NEW t \in Attempts, Arrive(t)
  PROVE  Promise!Ask(t)
  <1>1. PICK r \in Requests : req' = [req EXCEPT ![t] = r]
    BY DEF Arrive
  <1>2. req[t] = Null
    BY DEF Arrive, Unasked
  <1>3. UNCHANGED <<answer, operations>>
    BY DEF Arrive, tables
  <1>. QED  BY <1>1, <1>2, <1>3 DEF Promise!Ask, Heard

(* Whoever is at a statement has asked and is waiting, and what it is told *)
(* is what its answer says.                                                *)
LEMMA PromiseWaits ==
  ASSUME IInv, NEW t \in Attempts, pc[t] \in BeforeTx \cup InTx
  PROVE  /\ req[t] # Null /\ req[t].op \in Ops
         /\ [u \in Attempts |-> Heard(u)][t] = Null
         /\ Promise!Entry(t) = operations[req[t].op]
  <1>1. req[t] \in Requests /\ answer[t] = Null
    BY DEF IInv, LocalInv, BeforeTx, InTx
  <1>2. req[t] # Null /\ req[t].op \in Ops
    BY <1>1, RequestsAssumption, NullAssumption DEF Request
  <1>3. Promise!Entry(t) = operations[req[t].op]
    BY DEF Promise!Entry
  <1>. QED  BY <1>1, <1>2, <1>3 DEF Heard

LEMMA PromiseTells ==
  ASSUME IInv, NEW t \in Attempts, NEW a \in Answer,
         answer' = [answer EXCEPT ![t] = a], UNCHANGED req
  PROVE  Promise!Tell(t, Word(a.code), a.movement)
  <1> DEFINE heard == [word |-> Word(a.code), result |-> a.movement]
  <1>1. answer \in [Attempts -> Answer \cup {Null}]
    BY DEF IInv, TypeOK
  <1>2. a # Null
    BY NullAssumption
  <1>3. \A u \in Attempts : Heard(u)' = IF u = t THEN heard ELSE Heard(u)
    BY <1>1, <1>2 DEF Heard
  <1> HIDE DEF heard
  <1>4. [u \in Attempts |-> Heard(u)]' =
          [[u \in Attempts |-> Heard(u)] EXCEPT ![t] = heard]
    BY <1>3
  <1>. QED  BY <1>4 DEF Promise!Tell, heard

(* A command whose id has a committed row is answered from that row.       *)
LEMMA PromiseRepeat ==
  ASSUME IInv, NEW t \in Attempts, pc[t] \in BeforeTx, operations[req[t].op] # Null,
         Finish(t, ReplayAnswer(req[t].op, req[t].body)), UNCHANGED <<req, operations>>
  PROVE  Promise!Answer(t)
  <1> DEFINE o == req[t].op
             a == ReplayAnswer(o, req[t].body)
  <1>1. pc[t] \in BeforeTx \cup InTx /\ req[t] \in Requests
    BY DEF IInv, LocalInv, BeforeTx
  <1>2. /\ req[t] # Null /\ o \in Ops /\ [u \in Attempts |-> Heard(u)][t] = Null
        /\ Promise!Entry(t) = operations[o]
    BY <1>1, PromiseWaits
  <1>3. Promise!IsRecorded(t) <=> operations[o].body = req[t].body
    BY <1>2 DEF Promise!IsRecorded
  <1>4. a \in Answer
    BY <1>1, ReplayIsTrue
  <1>5. Promise!Tell(t, Word(a.code), a.movement)
    BY <1>4, PromiseTells DEF Finish
  <1>6. a = IF operations[o].body = req[t].body
            THEN [code |-> "OK", movement |-> operations[o].result]
            ELSE Reply("REPLAYED_WITH_DIFFERENT_BODY")
    <2> DEFINE m == operations[o].result
    <2>1. m \in Posted /\ movements[m].op = o
      BY <1>2 DEF IInv, AppliedOnce
    <2>2. m # Null /\ movements[m] # Null
      BY <2>1, NullAssumption DEF Posted
    <2>. QED  BY <2>1, <2>2 DEF ReplayAnswer
  <1>7. CASE operations[o].body = req[t].body
    <2>1. Word(a.code) = "recorded" /\ a.movement = operations[o].result
      BY <1>6, <1>7 DEF Word
    <2>2. Promise!Repeat(t)
      BY <1>2, <1>3, <1>5, <1>7, <2>1 DEF Promise!Repeat
    <2>. QED  BY <1>2, <2>2 DEF Promise!Answer
  <1>8. CASE operations[o].body # req[t].body
    <2>1. Word(a.code) = "replayed" /\ a.movement = Null
      BY <1>6, <1>8 DEF Word, Reply
    <2>2. Promise!Replay(t)
      BY <1>2, <1>3, <1>5, <1>8, <2>1 DEF Promise!Replay
    <2>. QED  BY <1>2, <2>2 DEF Promise!Answer
  <1>. QED  BY <1>7, <1>8

(* An attempt that rolls back inside its transaction has recorded nothing, *)
(* and nobody else has under its id: it may say no, or nothing.            *)
LEMMA PromiseRollback ==
  ASSUME IInv, NEW t \in Attempts, NEW code \in AnswerCodes,
         pc[t] \in BeforeTx \cup InTx, Rollback(t, code),
         code \notin {"OK", "REPLAYED_WITH_DIFFERENT_BODY"},
         code = "LOST" \/ pc[t] \in InTx
  PROVE  Promise!Answer(t)
  <1>1. /\ req[t] # Null /\ req[t].op \in Ops
        /\ [u \in Attempts |-> Heard(u)][t] = Null
        /\ Promise!Entry(t) = operations[req[t].op]
    BY PromiseWaits
  <1>2. Reply(code) \in Answer /\ Reply(code).code = code /\ Reply(code).movement = Null
    BY DEF Reply, Answer
  <1>3. UNCHANGED <<req, operations>> /\ answer' = [answer EXCEPT ![t] = Reply(code)]
    BY DEF Rollback, Finish, local, tables
  <1>4. Promise!Tell(t, Word(code), Null)
    BY <1>2, <1>3, PromiseTells
  <1>5. CASE code \in Faults
    <2>1. Word(code) = "fault"
      BY <1>5 DEF Word
    <2>2. Promise!Fail(t)
      BY <1>3, <1>4, <2>1 DEF Promise!Fail
    <2>. QED  BY <1>1, <2>2 DEF Promise!Answer
  <1>6. CASE code \notin Faults
    <2>1. Word(code) = "refused" /\ pc[t] \in InTx
      BY <1>6 DEF Word, Faults
    <2>2. operations[req[t].op] = Null
      BY <1>1, <2>1, NullAssumption DEF IInv, ClaimInv
    <2>3. ~Promise!IsRecorded(t)
      BY <1>1, <2>2 DEF Promise!IsRecorded
    <2>4. Promise!Refuse(t)
      BY <1>3, <1>4, <2>1, <2>3 DEF Promise!Refuse
    <2>. QED  BY <1>1, <2>4 DEF Promise!Answer
  <1>. QED  BY <1>5, <1>6

LEMMA PromiseRecord ==
  ASSUME IInv, NEW t \in Attempts, Commit(t)
  PROVE  Promise!Answer(t)
  <1>1. pc[t] = "commit" /\ operations[req[t].op] = Null
    BY CommitFacts DEF Commit
  <1>2. /\ req[t] # Null /\ [u \in Attempts |-> Heard(u)][t] = Null
        /\ Promise!Entry(t) = Null
    BY <1>1, PromiseWaits DEF InTx
  <1>3. /\ operations' = [operations EXCEPT ![req[t].op] =
                            [body |-> req[t].body, result |-> t]]
        /\ UNCHANGED req
    BY DEF Commit, local
  <1>4. Promise!Tell(t, "recorded", t) \/ Promise!Tell(t, "fault", Null)
    <2>1. PICK a \in {[code |-> "OK", movement |-> t], Reply("LOST")} :
             answer' = [answer EXCEPT ![t] = a]
      BY DEF Commit, Finish
    <2>2. /\ a \in Answer
          /\ \/ a.code = "OK" /\ a.movement = t
             \/ a.code = "LOST" /\ a.movement = Null
      BY <2>1 DEF Answer, AnswerCodes, Reply
    <2>3. Promise!Tell(t, Word(a.code), a.movement)
      BY <1>3, <2>1, <2>2, PromiseTells
    <2>4. Word("OK") = "recorded" /\ Word("LOST") = "fault"
      BY DEF Word, Faults
    <2>. QED  BY <2>2, <2>3, <2>4
  <1>5. Promise!Record(t)
    BY <1>2, <1>3, <1>4 DEF Promise!Record
  <1>. QED  BY <1>2, <1>5 DEF Promise!Answer

LEMMA PromiseStep ==
  ASSUME IInv, Unasked, NEW t \in Attempts, Arrive(t) \/ Step(t) \/ Abort(t)
  PROVE  Promise!Ask(t) \/ Promise!Answer(t) \/ UNCHANGED Promise!promiseVars
  <1>1. CASE Arrive(t)
    BY <1>1, PromiseAsk
  <1>2. CASE LookUp(t)
    <2>1. CASE operations[req[t].op] # Null /\ operations[req[t].op].result # Null
      BY <1>2, <2>1, PromiseRepeat DEF LookUp, BeforeTx, local, tables
    <2>2. CASE ~(operations[req[t].op] # Null /\ operations[req[t].op].result # Null)
      BY <1>2, <2>2, PromiseSame DEF LookUp, local, tables
    <2>. QED  BY <2>1, <2>2
  <1>3. CASE Claim(t)
    <2>1. CASE operations[req[t].op] # Null
      BY <1>3, <2>1, PromiseRepeat DEF Claim, BeforeTx, local, tables
    <2>2. CASE operations[req[t].op] = Null
      BY <1>3, <2>2, PromiseSame DEF Claim, local, tables
    <2>. QED  BY <2>1, <2>2
  <1>4. CASE Refuse(t)
    <2>1. /\ RefusalCode(t) \in AnswerCodes \ {"OK", "REPLAYED_WITH_DIFFERENT_BODY"}
          /\ pc[t] \in InTx
      BY <1>4 DEF Refuse, RefusalCode, AnswerCodes, InTx
    <2>. QED  BY <1>4, <2>1, PromiseRollback DEF Refuse
  <1>5. CASE Reject(t)
    <2>1. /\ RejectionCode(t) \in AnswerCodes \ {"OK", "REPLAYED_WITH_DIFFERENT_BODY"}
          /\ pc[t] \in InTx
      BY <1>5 DEF Reject, RejectionCode, AnswerCodes, InTx
    <2>. QED  BY <1>5, <2>1, PromiseRollback DEF Reject
  <1>6. CASE Commit(t)
    BY <1>6, PromiseRecord
  <1>7. CASE Abort(t)
    <2>1. "LOST" \in AnswerCodes
      BY DEF AnswerCodes
    <2>. QED  BY <1>7, <2>1, PromiseRollback DEF Abort
  <1>8. CASE Proceed(t) \/ LockBalance(t) \/ CreateBalance(t) \/ RelockBalance(t) \/ Write(t)
    BY <1>8, PromiseSame
       DEF Proceed, LockBalance, CreateBalance, RelockBalance, Write, local, tables
  <1>. QED  BY <1>1, <1>2, <1>3, <1>4, <1>5, <1>6, <1>7, <1>8 DEF Step

(* INV-7, seen from the client: whatever attempts of whatever commands     *)
(* interleave, fail or repeat, each is recorded and answered as if at one  *)
(* moment, and only a fault leaves open whether it was.                    *)
THEOREM EngineKeepsPromise == Spec => KeepsPromise
  <1>1. Init => Unasked
    BY DEF Init, Unasked
  <1>2. IInv /\ Unasked /\ [Next]_vars => [Promise!Next]_(Promise!promiseVars)
    <2> SUFFICES ASSUME IInv, Unasked, [Next]_vars
                 PROVE  [Promise!Next]_(Promise!promiseVars)
      OBVIOUS
    <2>1. CASE UNCHANGED vars
      BY <2>1, PromiseSame DEF vars, local, tables
    <2>2. CASE Next
      <3>1. PICK t \in Attempts : Arrive(t) \/ Step(t) \/ Abort(t)
        BY <2>2 DEF Next
      <3>. QED  BY <3>1, PromiseStep DEF Promise!Next
    <2>. QED  BY <2>1, <2>2
  <1>. QED
    BY PromiseInit, UnaskedStep, EngineInvariant, <1>1, <1>2, PTL
       DEF Spec, KeepsPromise, Promise!Spec
=============================================================================
