--------------------------------- MODULE Browser ---------------------------------
(***************************************************************************)
(* One browser (src/frontend): the form somebody has open, the command it  *)
(* has sent, and the reads it keeps.  The server is its promise: one       *)
(* command under one operation id, the first answer again for the same     *)
(* request, a refusal for another one.                                     *)
(*                                                                         *)
(* Between the two is a bad connection: requests and answers are lost, an  *)
(* answer is cut, and a request that was given up arrives after all.       *)
(*                                                                         *)
(* `body` is what a form asks for; on the two stock screens it is the      *)
(* choice that the lists on screen must still offer.                       *)
(***************************************************************************)
EXTENDS Naturals, Sequences, FiniteSets

CONSTANTS
  Plans,        \* bound: the forms that are opened, one after another
  Bodies,       \* what a form can ask for
  Default,      \* the default location
  None,         \* no value
  Pending,      \* a read the server has not answered
  MaxIds,       \* bound: ids this browser draws
  MaxGoals,     \* bound: things somebody sets out to do
  MaxLate,      \* bound: requests given up that may still arrive
  MaxChanges    \* bound: changes of what the shop offers

Frozen  == {"receive", "remove"}                \* the screens that keep a failed attempt
Dialogs == {"adjust", "reverse", "reconcile"}
Moves   == Frozen \cup Dialogs                  \* what posts a movement
Drawn   == Moves \cup {"count"}                 \* what carries an operation id
Kinds   == Drawn \cup {"product", "user"}

ASSUME BrowserAssumption ==
  /\ Plans \subseteq Seq(Kinds)
  /\ Default \in Bodies /\ None \notin Bodies
  /\ {MaxIds, MaxGoals, MaxLate, MaxChanges} \subseteq Nat

Ids  == 1..MaxIds
Keys == {"choices", "stock"}   \* what the receiving screen offers; the balances

Unknown == {"lost", "fault", "cut"}   \* outcomes that do not say whether it worked
Answers == {"recorded", "refused", "replayed", "fault", "expired"}

VARIABLES
  signedIn, alive,   \* what the browser believes; whether the server agrees
  form,              \* the form on screen
  flight, orphan,    \* its request in flight; one whose form has gone
  late,              \* requests given up that may still arrive
  ledger,            \* [Ids -> the command the server recorded, or None]
  offered, changes,  \* what the shop offers now
  cache, reading,    \* [Keys -> the copy kept, the read in flight]
  plan, nextId, goal,   \* what somebody goes about
  goalOf, told, doubt   \* ids by what they were for; movements this browser was told of;
                        \* what somebody did again without knowing (for the properties)

network == <<late, ledger, alive>>
shop    == <<offered, changes>>
ghosts  == <<goalOf, told, doubt>>
person  == <<plan, nextId, goal>>
vars == <<signedIn, alive, form, flight, orphan, late, ledger, offered, changes,
          cache, reading, plan, nextId, goal, goalOf, told, doubt>>

Request == [kind : Kinds, id : Ids, body : Bodies]

(* A form: what is typed, where its attempt has got to, the request a      *)
(* retry sends, the failure on screen, and whether an attempt's outcome    *)
(* was never learnt.                                                       *)
Form == [kind : Kinds, id : Ids \cup {None}, fields : Bodies \cup {None},
         phase : {"editing", "failed", "succeeded"}, sent : Request \cup {None},
         error : Answers \cup Unknown \cup {None}, unsure : BOOLEAN, prefilled : BOOLEAN]

Flight == [req : Request, stage : {"out", "back"}, answer : Answers \cup {None}, parent : BOOLEAN]

Command == [kind : Kinds, body : Bodies]

(* "No value" is not one of the values.                                    *)
ASSUME NoneAssumption ==
  /\ None \notin Form \cup Flight \cup Request \cup Command
  /\ None \notin Ids /\ None \notin Answers \cup Unknown /\ None # Pending

NoCopy     == [held |-> FALSE, offers |-> {}, seen |-> {}, trusted |-> FALSE]
EmptyCache == [k \in Keys |-> NoCopy]
NoReads    == [k \in Keys |-> None]

Init ==
  /\ signedIn = TRUE /\ alive = TRUE
  /\ form = None /\ flight = None /\ orphan = None
  /\ late = {}
  /\ ledger = [i \in Ids |-> None]
  /\ offered = Bodies /\ changes = 0
  /\ cache = EmptyCache /\ reading = NoReads
  /\ plan \in Plans /\ nextId = 1 /\ goal = 0
  /\ goalOf = [i \in Ids |-> 0]
  /\ told = {} /\ doubt = {}

Is(k) == form # None /\ form.kind = k

----------------------------------------------------------------------------
(* Reads (app/providers.tsx, auth/useProtectedQuery.ts): a copy is kept    *)
(* and trusted for half a minute or until a command invalidates it; a      *)
(* screen that opens on a copy it may not trust, or whose copy is          *)
(* invalidated under it, reads again and drops the read it had going.      *)

Observed(f) ==
  IF f = None THEN {}
  ELSE CASE f.kind \in {"receive", "product"} -> {"choices"}
         [] f.kind = "user" -> {}
         [] OTHER -> {"stock"}

Distrusted(copy) == [copy EXCEPT !.trusted = FALSE, !.seen = {}]

Keep(ks) == cache' = [k \in Keys |-> IF k \in ks THEN Distrusted(cache[k]) ELSE cache[k]]

Attend(ks) ==
  reading' = [k \in Keys |->
    IF k \notin Observed(form') THEN None
    ELSE IF k \in ks \/ (k \notin Observed(form) /\ ~cache'[k].trusted) THEN Pending
    ELSE reading[k]]

(* The 30 seconds are over.                                                *)
CopyAges(k) ==
  /\ cache[k].trusted
  /\ Keep({k})
  /\ UNCHANGED <<signedIn, form, flight, orphan, network, shop, reading, person, ghosts>>

(* The window is focused, the connection is back, or somebody refreshes.   *)
ReadsAgain(k) ==
  /\ k \in Observed(form) /\ reading[k] = None /\ ~cache[k].trusted
  /\ reading' = [reading EXCEPT ![k] = Pending]
  /\ UNCHANGED <<signedIn, form, flight, orphan, network, shop, cache, person, ghosts>>

Recorded == {i \in Ids : ledger[i] # None}
Movements == {i \in Recorded : ledger[i].kind \in Moves}

ServerReads(k) ==
  /\ alive /\ reading[k] = Pending
  /\ reading' = [reading EXCEPT ![k] = [offers |-> offered, seen |-> IF k = "stock" THEN Movements ELSE {}]]
  /\ UNCHANGED <<signedIn, form, flight, orphan, network, shop, cache, person, ghosts>>

(* Retries of a read are used up; what was on screen stays.                *)
ReadFails(k) ==
  /\ reading[k] # None
  /\ reading' = [reading EXCEPT ![k] = None]
  /\ UNCHANGED <<signedIn, form, flight, orphan, network, shop, cache, person, ghosts>>

(* preferredLocationId and preferredRemovalLocationId: the default when it *)
(* is offered, else the only one, else nothing.                            *)
PreferredLocation(offers) ==
  IF Default \in offers THEN Default
  ELSE IF Cardinality(offers) = 1 THEN CHOOSE b \in offers : TRUE ELSE None

PreferredRemovalLocation(offers) ==
  IF Default \in offers THEN Default
  ELSE IF Cardinality(offers) = 1 THEN CHOOSE b \in offers : TRUE ELSE None

(* A selection that is no longer offered is dropped.  The receiving screen *)
(* applies its default the first time the lists are there, and drops in    *)
(* every phase; the removal screen only while it is being filled in.       *)
ReceiptAfterRead(f, offers) ==
  IF ~f.prefilled
  THEN [f EXCEPT !.prefilled = TRUE,
                 !.fields = IF PreferredLocation(offers) # None THEN PreferredLocation(offers) ELSE @]
  ELSE [f EXCEPT !.fields = IF @ \in offers THEN @ ELSE None]

RemovalAfterRead(f, offers) ==
  [f EXCEPT !.fields = IF f.phase # "editing" \/ @ \in offers THEN @ ELSE None]

AfterRead(f, k, offers) ==
  CASE f.kind = "receive" /\ k = "choices" -> ReceiptAfterRead(f, offers)
    [] f.kind = "remove" /\ k = "stock" -> RemovalAfterRead(f, offers)
    [] OTHER -> f

FinishRead(k) ==
  /\ reading[k] \notin {None, Pending}
  /\ cache' = [cache EXCEPT ![k] = [held |-> TRUE, offers |-> reading[k].offers,
                                    seen |-> reading[k].seen, trusted |-> TRUE]]
  /\ form' = AfterRead(form, k, reading[k].offers)
  /\ reading' = [reading EXCEPT ![k] = None]
  /\ UNCHANGED <<signedIn, flight, orphan, network, shop, person, ghosts>>

----------------------------------------------------------------------------
(* The session (auth/AuthProvider.tsx): a 401 to anything, however late,   *)
(* ends it in this browser: the screens and every protected copy go.       *)

SessionEnds ==
  /\ signedIn' = FALSE
  /\ form' = None
  /\ cache' = EmptyCache /\ reading' = NoReads

ReadIsRefused(k) ==
  /\ ~alive /\ reading[k] = Pending
  /\ flight # None => orphan = None
  /\ SessionEnds
  /\ flight' = None
  /\ orphan' = IF flight = None THEN orphan ELSE [flight EXCEPT !.parent = FALSE]
  /\ UNCHANGED <<network, shop, person, ghosts>>

Expire ==
  /\ alive /\ alive' = FALSE
  /\ UNCHANGED <<signedIn, form, flight, orphan, late, ledger, shop, cache, reading, person, ghosts>>

SignInAgain ==
  /\ ~signedIn
  /\ signedIn' = TRUE /\ alive' = TRUE
  /\ UNCHANGED <<form, flight, orphan, late, ledger, shop, cache, reading, person, ghosts>>

----------------------------------------------------------------------------
(* The server's promise.                                                   *)

Taken(body) == \E i \in Recorded : ledger[i].kind = "user" /\ ledger[i].body = body

Acceptable(r) == /\ r.kind \in Frozen => r.body \in offered
                 /\ r.kind = "user" => ~Taken(r.body)

(* A fault may be an answer lost on the server's side of the connection.   *)
Serve(r, a) ==
  \/ ~alive /\ a = "expired" /\ UNCHANGED ledger
  \/ alive /\ a = "fault" /\ UNCHANGED ledger
  \/ /\ alive /\ ledger[r.id] # None
     /\ a = IF ledger[r.id].body = r.body THEN "recorded" ELSE "replayed"
     /\ UNCHANGED ledger
  \/ /\ alive /\ ledger[r.id] = None /\ Acceptable(r)
     /\ ledger' = [ledger EXCEPT ![r.id] = [kind |-> r.kind, body |-> r.body]]
     /\ a \in {"recorded", "fault"}
  \/ /\ alive /\ ledger[r.id] = None
     /\ r.kind \in Frozen \cup {"user"} => ~Acceptable(r)
     /\ a = "refused" /\ UNCHANGED ledger

ServerAnswers ==
  /\ flight # None /\ flight.stage = "out"
  /\ \E a \in Answers : Serve(flight.req, a) /\ flight' = [flight EXCEPT !.stage = "back", !.answer = a]
  /\ UNCHANGED <<signedIn, alive, form, orphan, late, shop, cache, reading, person, ghosts>>

OrphanAnswered ==
  /\ orphan # None /\ orphan.stage = "out"
  /\ \E a \in Answers : Serve(orphan.req, a) /\ orphan' = [orphan EXCEPT !.stage = "back", !.answer = a]
  /\ UNCHANGED <<signedIn, alive, form, flight, late, shop, cache, reading, person, ghosts>>

LateArrives ==
  /\ \E r \in late : late' = late \ {r} /\ \E a \in Answers : Serve(r, a)
  /\ UNCHANGED <<signedIn, alive, form, flight, orphan, shop, cache, reading, person, ghosts>>

ShopChanges ==
  /\ changes < MaxChanges
  /\ changes' = changes + 1
  /\ \E b \in Bodies : offered' = IF b \in offered THEN offered \ {b} ELSE offered \cup {b}
  /\ UNCHANGED <<signedIn, form, flight, orphan, network, cache, reading, person, ghosts>>

----------------------------------------------------------------------------
(* Opening and leaving a form.                                             *)

Blank(k) == [kind |-> k, id |-> None, fields |-> None, phase |-> "editing", sent |-> None,
             error |-> None, unsure |-> FALSE, prefilled |-> FALSE]

(* newOperationId: drawn when the form opens.                              *)
Draw(f) ==
  /\ nextId \in Ids
  /\ form' = [f EXCEPT !.id = nextId]
  /\ nextId' = nextId + 1

Open(k) ==
  /\ signedIn /\ form = None /\ goal < MaxGoals
  /\ plan # <<>> /\ k = Head(plan) /\ plan' = Tail(plan)
  /\ goal' = goal + 1
  /\ LET f == IF k = "receive" /\ cache["choices"].held
              THEN ReceiptAfterRead(Blank(k), cache["choices"].offers) ELSE Blank(k)
     IN IF k \in Drawn
        THEN Draw(f) /\ goalOf' = [goalOf EXCEPT ![nextId] = goal']
        ELSE form' = f /\ UNCHANGED <<nextId, goalOf>>
  /\ orphan' = IF orphan # None /\ orphan.req.kind # k THEN [orphan EXCEPT !.parent = FALSE] ELSE orphan
  /\ UNCHANGED cache /\ Attend({})
  /\ UNCHANGED <<signedIn, flight, network, shop, told, doubt>>

(* Escape or the backdrop of a dialog, the cancel button of the product    *)
(* form, or another destination: none of them waits for a request in       *)
(* flight, which goes on without its form.  `parent`: the screen under the *)
(* dialog is still there to be told.                                       *)
Leave ==
  /\ form # None
  /\ flight # None => orphan = None
  /\ form' = None /\ flight' = None
  /\ \E stays \in BOOLEAN :
       /\ stays => form.kind \in Dialogs \cup {"product"}
       /\ orphan' = IF flight # None THEN [flight EXCEPT !.parent = stays]
                    ELSE IF orphan # None /\ ~stays THEN [orphan EXCEPT !.parent = FALSE] ELSE orphan
  /\ UNCHANGED cache /\ Attend({})
  /\ UNCHANGED <<signedIn, network, shop, person, ghosts>>

GivenUp(f) == IF f # None /\ f.stage = "out" THEN {f.req} ELSE {}

(* Nothing of a form is kept outside the page.                             *)
Reload ==
  /\ form # None
  /\ form' = None /\ flight' = None /\ orphan' = None
  /\ \E rs \in SUBSET (GivenUp(flight) \cup GivenUp(orphan)) :
       late' = late \cup rs /\ Cardinality(late') <= MaxLate
  /\ cache' = EmptyCache /\ reading' = NoReads
  /\ UNCHANGED <<signedIn, alive, ledger, shop, person, ghosts>>
=============================================================================
