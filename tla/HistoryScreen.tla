----------------------------- MODULE HistoryScreen -----------------------------
(***************************************************************************)
(* The screen that reads the history (screens/HistoryScreen.tsx): a first  *)
(* page that the query cache keeps for every question asked, further pages *)
(* appended to it by hand, and somebody who changes the question, reads    *)
(* again, reverses a movement or asks for more while a page is on its way. *)
(*                                                                         *)
(* A movement is its place in the ledger; that a page handed out by the    *)
(* server is right is module History's.                                    *)
(***************************************************************************)
EXTENDS Integers, SequencesExt

CONSTANTS
  Shelves,
  MaxMovements,  \* bound on the length of the ledger
  MaxLoads,      \* bound on the further pages one reading may ask for
  PageSize,
  All,           \* the question that narrows nothing
  Null

VARIABLES
  ledger,   \* the shelf of every movement, in the order they were recorded
  filters,  \* the question on the screen
  first,    \* [Question -> its first page as last read, or Null]
  pages,    \* the rows appended to it
  cursor,   \* Unset, the row to go on after, or Null at the end of the feed
  loading,  \* the further page asked for, or Null
  loads

vars == <<ledger, filters, first, pages, cursor, loading, loads>>

Question == {All} \cup Shelves
Unset    == 0

Asked(f, row) == f \in {All, ledger[row]}

(* getMovements: a page of the rows after c, newest first, with the place  *)
(* to go on from unless it is the last page.                               *)
getMovements(f, c) ==
  LET rows  == {r \in 1..Len(ledger) : Asked(f, r) /\ (c # Null => r < c)}
      found == SetToSortSeq(rows, >)
      page  == SubSeq(found, 1, Min({PageSize, Len(found)}))
  IN  [items |-> page,
       nextCursor |-> IF Len(found) > PageSize THEN Last(page) ELSE Null]

(* A screen opened for one item asks about that item, any other about all. *)
Init ==
  /\ ledger \in UNION {[1..n -> Shelves] : n \in 0..MaxMovements}
  /\ filters \in Question
  /\ first = [f \in Question |-> Null]
  /\ pages = <<>> /\ cursor = Unset /\ loading = Null /\ loads = 0

movements == (IF first[filters] = Null THEN <<>> ELSE first[filters].items) \o pages

nextCursor ==
  IF cursor # Unset THEN cursor
  ELSE IF first[filters] = Null THEN Null ELSE first[filters].nextCursor

Forgets == pages' = <<>> /\ cursor' = Unset

----------------------------------------------------------------------------
(* Somebody else works: the ledger grows at the front.                     *)
Recorded ==
  /\ Len(ledger) < MaxMovements
  /\ \E s \in Shelves : ledger' = Append(ledger, s)
  /\ UNCHANGED <<filters, first, pages, cursor, loading, loads>>

(* The query of the first page is read when the question is new, the       *)
(* window is looked at again or the feed is invalidated.                   *)
FirstPageRead ==
  /\ first' = [first EXCEPT ![filters] = getMovements(filters, Null)]
  /\ UNCHANGED <<ledger, filters, pages, cursor, loading, loads>>

changeFilters ==
  /\ \E f \in Question \ {filters} : filters' = f
  /\ Forgets
  /\ UNCHANGED <<ledger, first, loading, loads>>

(* The Refresh button; what it asks for comes in as FirstPageRead.         *)
Refresh ==
  /\ Forgets
  /\ UNCHANGED <<ledger, filters, first, loading, loads>>

(* A reversal is a movement like any other, on the shelf of the one        *)
(* it undoes.                                                              *)
afterReversal ==
  /\ Len(ledger) < MaxMovements
  /\ \E row \in Range(movements) : ledger' = Append(ledger, ledger[row])
  /\ Forgets
  /\ UNCHANGED <<filters, first, loading, loads>>

(* loadMore, up to its await.                                              *)
AskForMore ==
  /\ movements # <<>> /\ nextCursor # Null /\ loading = Null
  /\ loads < MaxLoads /\ loads' = loads + 1
  /\ loading' = [filters |-> filters, after |-> nextCursor]
  /\ UNCHANGED <<ledger, filters, first, pages, cursor>>

(* loadMore, after it: whatever is on the screen by then.                  *)
MoreArrives ==
  /\ loading # Null
  /\ LET page == getMovements(loading.filters, loading.after) IN
     /\ pages' = pages \o page.items
     /\ cursor' = page.nextCursor
  /\ loading' = Null
  /\ UNCHANGED <<ledger, filters, first, loads>>

MoreFails ==
  /\ loading # Null /\ loading' = Null
  /\ UNCHANGED <<ledger, filters, first, pages, cursor, loads>>

Next == \/ Recorded \/ FirstPageRead \/ changeFilters \/ Refresh \/ afterReversal
        \/ AskForMore \/ MoreArrives \/ MoreFails

Spec == Init /\ [][Next]_vars

----------------------------------------------------------------------------
(* HistoryScreen.tsx: the screen never concatenates rows from two          *)
(* questions, "a feed that is true of neither".                            *)
OneQuestion == \A row \in Range(movements) : Asked(filters, row)
===============================================================================
