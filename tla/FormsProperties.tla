----------------------------- MODULE FormsProperties -----------------------------
(***************************************************************************)
(* What the forms promise the person at the counter.                       *)
(***************************************************************************)
EXTENDS Forms

(* What somebody set out to do is recorded at most once, however often it  *)
(* is sent, lost, given up or sent again - unless it was begun anew while  *)
(* nobody knew what had become of it, or after a refusal behind which an   *)
(* attempt that had been given up could still be recorded.                 *)
NothingTwice ==
  \A i, j \in Recorded : goalOf[i] = goalOf[j] /\ goalOf[i] \notin doubt => i = j

(* Receiving and removal repeat an attempt to the letter: the server never *)
(* has to tell them that their id belongs to another command.              *)
NeverContradicts ==
  \A f \in {flight, orphan} : f # None /\ f.req.kind \in Frozen => f.answer # "replayed"

(* Balances this browser would show without asking again include every     *)
(* movement it was told of, whichever form recorded it and whether or not  *)
(* that form was still there to hear it.                                   *)
StockKnowsOwnMovements ==
  cache["stock"].trusted => told \subseteq cache["stock"].seen

(* A removal whose outcome is unknown is settled in the end: recorded,     *)
(* refused, or left behind by whoever entered it.                          *)
Unsettled == Is("remove") /\ form.phase = "failed" /\ form.error \in Unknown
SettlesInTheEnd == Unsettled ~> ~Unsettled
=============================================================================
