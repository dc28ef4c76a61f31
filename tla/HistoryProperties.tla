--------------------------- MODULE HistoryProperties ---------------------------
(***************************************************************************)
(* What somebody who reads the ledger page by page may rely on while the   *)
(* shop goes on working.                                                   *)
(***************************************************************************)
EXTENDS History

(* movementHistoryRepository.ts: a movement posted while somebody is       *)
(* reading cannot make a row appear twice, nor out of its place: what has  *)
(* been read so far runs strictly from newer to older, across every page   *)
(* boundary.                                                               *)
NothingTwice ==
  \A i \in 1..Len(feed) - 1 : Newer(feed[i], feed[i + 1])

(* Nor can it make a row be skipped: whoever reads to the end has read     *)
(* every matching movement that was committed when the reading began.      *)
NothingSkipped ==
  reader = "done" => owed \subseteq Range(feed)

(* A movement is read after (before, in the feed) everything that was      *)
(* committed when its own request arrived: the feed never turns two        *)
(* commands around of which one was over before the other began.           *)
LaterCommandsAreNewer ==
  \A w \in Writers : pc[w] = "locked" =>
    \A m \in movements : m.id \in preceding[w] => Newer(draft[w], m)
===============================================================================
