--------------------------- MODULE CommandPromise ---------------------------
(***************************************************************************)
(* What a client may build on when it sends a command under an operation   *)
(* id of its own choice, whatever the command is: no transactions, no      *)
(* locks, no statements, and none of the stock they are about.             *)
(*                                                                         *)
(*   - the command is recorded under its id at one moment, whole, or not   *)
(*     at all; what is recorded under an id never changes;                 *)
(*   - "recorded" is said only of the body that is recorded, and with what *)
(*     came of it; "replayed" only of a body that another one keeps from   *)
(*     being recorded;                                                     *)
(*   - "refused" means that this body is not recorded, so a command once   *)
(*     recorded is never refused;                                          *)
(*   - a "fault" says nothing: the command may or may not be recorded, and *)
(*     asking again under the same id is safe.                             *)
(***************************************************************************)
CONSTANTS Attempts, Ops,
          Requests,   \* [op, body] records: what the clients may send
          Results,    \* what may come of a command: the row it makes or settles
          Null

VARIABLES
  recorded,   \* [Ops -> body and result, or Null]
  asked,      \* [Attempts -> request or Null]
  told        \* [Attempts -> what the client was told, or Null]

promiseVars == <<recorded, asked, told>>

Init ==
  /\ recorded = [o \in Ops |-> Null]
  /\ asked = [t \in Attempts |-> Null]
  /\ told = [t \in Attempts |-> Null]

Ask(t) ==
  /\ asked[t] = Null
  /\ \E r \in Requests : asked' = [asked EXCEPT ![t] = r]
  /\ UNCHANGED <<recorded, told>>

(* What is recorded under the id a request carries.                        *)
Entry(t) == recorded[asked[t].op]

IsRecorded(t) == Entry(t) # Null /\ Entry(t).body = asked[t].body

Tell(t, word, result) ==
  /\ told' = [told EXCEPT ![t] = [word |-> word, result |-> result]]
  /\ UNCHANGED asked

(* The answer may be lost on its way, but not the command.                 *)
Record(t) ==
  /\ Entry(t) = Null
  /\ \E r \in Results :
       /\ recorded' = [recorded EXCEPT ![asked[t].op] =
                         [body |-> asked[t].body, result |-> r]]
       /\ Tell(t, "recorded", r) \/ Tell(t, "fault", Null)

Repeat(t) ==
  /\ IsRecorded(t)
  /\ Tell(t, "recorded", Entry(t).result)
  /\ UNCHANGED recorded

Replay(t) ==
  /\ Entry(t) # Null /\ ~IsRecorded(t)
  /\ Tell(t, "replayed", Null)
  /\ UNCHANGED recorded

Refuse(t) ==
  /\ ~IsRecorded(t)
  /\ Tell(t, "refused", Null)
  /\ UNCHANGED recorded

Fail(t) ==
  /\ Tell(t, "fault", Null)
  /\ UNCHANGED recorded

(* Every request is answered once, in one of five ways.                    *)
Answer(t) ==
  /\ asked[t] # Null /\ told[t] = Null
  /\ Record(t) \/ Repeat(t) \/ Replay(t) \/ Refuse(t) \/ Fail(t)

Next == \E t \in Attempts : Ask(t) \/ Answer(t)

Spec == Init /\ [][Next]_promiseVars
=============================================================================
