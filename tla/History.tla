-------------------------------- MODULE History --------------------------------
(***************************************************************************)
(* Reading the ledger page by page (movementHistoryService.ts and its      *)
(* repository) while commands go on writing it.                            *)
(*                                                                         *)
(* The feed is ordered by (recorded_at, id), newest first, and a page      *)
(* resumes strictly after the last row of the page before it.  Both halves *)
(* of that position are fixed by the writer before it waits for anybody:   *)
(* recorded_at is the clock before the operation is claimed, the id is     *)
(* minted before the balance row is locked.  What a writer otherwise does  *)
(* is module Ledger's.  listCounts pages through count lines in the same   *)
(* way and is not repeated here.                                           *)
(***************************************************************************)
EXTENDS Integers, SequencesExt

CONSTANTS
  Writers,     \* posting attempts
  Shelves,
  MaxClock,    \* bound on the milliseconds that pass
  Limits,      \* page sizes a client may ask for
  Filters,     \* what a client may narrow the feed to
  Null

Time     == 0..MaxClock
Ids      == 1..Cardinality(Writers)
Position == [recordedAt : Time, id : Ids]
Movement == [shelf : Shelves, recordedAt : Time, id : Ids, prev : {0} \cup Ids]
Filter   == [shelf : Shelves \cup {Null}, from : Time, to : Time]

ASSUME HistoryAssumption ==
  /\ IsFiniteSet(Writers) /\ MaxClock \in Nat
  /\ Limits \subseteq Nat \ {0}
  /\ Filters \subseteq Filter
  /\ Null \notin [recordedAt : Nat, id : Nat]

VARIABLES
  clock,       \* the server's clock, in milliseconds
  minted,      \* ids given out so far; UUIDv7 ids of one process ascend
  pc,          \* [Writers -> Stage]
  draft,       \* [Writers -> the movement it is writing, or Null]
  preceding,   \* ids committed when each writer began (for the properties)
  holder,      \* balance row locks
  last,        \* balances.last_movement_id, 0 while the shelf has no row
  movements,   \* committed rows
  reader,      \* "idle", "reading" or "done"
  filter, cursor,
  feed,        \* the rows the client has been given, in order
  owed         \* what matched its filter when it began (for the properties)

writing == <<pc, draft, preceding, holder, last, movements, minted>>
reading == <<reader, filter, cursor, feed, owed>>
vars    == <<clock, writing, reading>>

Stage == {"idle", "stamped", "minted", "locked", "done"}

Init ==
  /\ clock = 0 /\ minted = 0
  /\ pc = [w \in Writers |-> "idle"]
  /\ draft = [w \in Writers |-> Null]
  /\ preceding = [w \in Writers |-> {}]
  /\ holder = [s \in Shelves |-> Null]
  /\ last = [s \in Shelves |-> 0]
  /\ movements = {}
  /\ reader = "idle" /\ filter = Null /\ cursor = Null
  /\ feed = <<>> /\ owed = {}
-----------------------------------------------------------------------------
Tick ==
  /\ clock < MaxClock
  /\ clock' = clock + 1
  /\ UNCHANGED <<writing, reading>>

Goto(w, stage) == pc' = [pc EXCEPT ![w] = stage]

(* Defect: the movement is stamped with the time the client says it        *)
(* happened.                                                               *)
DefectStampsBusinessTime == Time

(* clock.now().                                                            *)
RecordedAt == {clock}

(* The first statement of postMovementInTransaction.                       *)
Stamp(w) ==
  /\ pc[w] = "idle"
  /\ \E s \in Shelves, at \in RecordedAt :
       draft' = [draft EXCEPT ![w] = [shelf |-> s, recordedAt |-> at,
                                      id |-> 0, prev |-> 0]]
  /\ preceding' = [preceding EXCEPT ![w] = {m.id : m \in movements}]
  /\ Goto(w, "stamped")
  /\ UNCHANGED <<clock, holder, last, movements, minted, reading>>

(* newId, once the claim and the precondition have let it through.         *)
Mint(w) ==
  /\ pc[w] = "stamped"
  /\ minted' = minted + 1
  /\ draft' = [draft EXCEPT ![w].id = minted + 1]
  /\ Goto(w, "minted")
  /\ UNCHANGED <<clock, preceding, holder, last, movements, reading>>

LockShelf(w) ==
  /\ pc[w] = "minted"
  /\ LET s == draft[w].shelf IN
     /\ holder[s] = Null
     /\ holder' = [holder EXCEPT ![s] = w]
     /\ draft' = [draft EXCEPT ![w].prev = last[s]]
  /\ Goto(w, "locked")
  /\ UNCHANGED <<clock, preceding, last, movements, minted, reading>>

Release(w) == holder' = [s \in Shelves |-> IF holder[s] = w THEN Null ELSE holder[s]]

Commit(w) ==
  /\ pc[w] = "locked"
  /\ movements' = movements \cup {draft[w]}
  /\ last' = [last EXCEPT ![draft[w].shelf] = draft[w].id]
  /\ Release(w)
  /\ Goto(w, "done")
  /\ UNCHANGED <<clock, draft, preceding, minted, reading>>

(* Refused for any reason, or rolled back.                                 *)
GiveUp(w) ==
  /\ pc[w] \in {"stamped", "minted", "locked"}
  /\ Release(w)
  /\ Goto(w, "done")
  /\ UNCHANGED <<clock, draft, preceding, last, movements, minted, reading>>
-----------------------------------------------------------------------------
(* Defect: a page resumes at the time of the last row, whatever its id.    *)
DefectComparesTheTimeOnly(m, n) == m.recordedAt < n.recordedAt

(* (m.recorded_at, m.id) < (n.recorded_at, n.id)                           *)
Older(m, n) ==
  \/ m.recordedAt < n.recordedAt
  \/ m.recordedAt = n.recordedAt /\ m.id < n.id

Newer(m, n) == Older(n, m)

Matches(m, f) ==
  /\ f.shelf \in {Null, m.shelf}
  /\ m.recordedAt \in f.from..f.to

(* ORDER BY recorded_at DESC, id DESC.                                     *)
Ordered(rows) ==
  CHOOSE seq \in [1..Cardinality(rows) -> rows] :
    \A i, j \in DOMAIN seq : i < j => seq[i] # seq[j] /\ ~Older(seq[i], seq[j])

(* Defect: the pages are counted off from the front (OFFSET).              *)
DefectCountsFromTheFront(n) ==
  LET found == Ordered({m \in movements : Matches(m, filter)})
  IN  SubSeq(found, Len(feed) + 1, Min({Len(feed) + n, Len(found)}))

(* listMovementHistory: at most n rows of the feed after the cursor.       *)
ListMovementHistory(n) ==
  LET found == Ordered({m \in movements : /\ Matches(m, filter)
                                          /\ cursor # Null => Older(m, cursor)})
  IN  SubSeq(found, 1, Min({n, Len(found)}))

Begin ==
  /\ reader = "idle"
  /\ \E f \in Filters :
       /\ filter' = f
       /\ owed' = {m \in movements : Matches(m, f)}
  /\ reader' = "reading"
  /\ UNCHANGED <<clock, writing, cursor, feed>>

(* listMovements asks for one row more than a page, and keeps it only as   *)
(* the sign that there is another page.                                    *)
ListMovements(limit) ==
  LET entries == ListMovementHistory(limit + 1)
  IN  [page |-> SubSeq(entries, 1, Min({limit, Len(entries)})),
       more |-> Len(entries) > limit]

(* One GET; the client passes back the cursor it was given and stops when  *)
(* it is given none.                                                       *)
NextPage ==
  /\ reader = "reading"
  /\ \E limit \in Limits :
       LET answer == ListMovements(limit) IN
       /\ feed' = feed \o answer.page
       /\ \/ /\ answer.more
             /\ cursor' = [recordedAt |-> Last(answer.page).recordedAt,
                           id |-> Last(answer.page).id]
             /\ UNCHANGED reader
          \/ /\ ~answer.more
             /\ cursor' = Null
             /\ reader' = "done"
  /\ UNCHANGED <<clock, writing, filter, owed>>
-----------------------------------------------------------------------------
Write(w) == Stamp(w) \/ Mint(w) \/ LockShelf(w) \/ Commit(w) \/ GiveUp(w)

Next == Tick \/ Begin \/ NextPage \/ \E w \in Writers : Write(w)

Spec == Init /\ [][Next]_vars
===============================================================================
