------------------------------- MODULE FormsProofs -------------------------------
(***************************************************************************)
(* What the forms may rely on, for any plan, number of ids, requests given *)
(* up and changes of the shop.                                             *)
(*                                                                         *)
(* A command is known while anything still holds a request for it, and     *)
(* possible while it is recorded or may yet be.  Known requests of one id  *)
(* agree, so the server never has to refuse one as another's.  The         *)
(* possible ones of one goal are the command of the form that is open, or  *)
(* were left in doubt, or make an account that exists once.                *)
(***************************************************************************)
EXTENDS FormsProperties, FiniteSetTheorems, TLAPS

Single == {"product", "user"}     \* every attempt is another request
Fixed  == Frozen \cup Single      \* no two requests of one id

Carries(f, r)  == f # None /\ f.req = r
IsRecorded(r)  == ledger[r.id] # None /\ ledger[r.id].kind = r.kind /\ ledger[r.id].body = r.body

Known ==
  {r \in Request : \/ Carries(flight, r) \/ Carries(orphan, r)
                   \/ r \in late \/ IsRecorded(r)
                   \/ form # None /\ form.sent = r}

Possible ==
  {r \in Request : \/ Carries(flight, r) /\ flight.stage = "out"
                   \/ Carries(orphan, r) /\ orphan.stage = "out"
                   \/ r \in late \/ IsRecorded(r)}

----------------------------------------------------------------------------
(* The invariant.                                                          *)

Copy    == [held : BOOLEAN, offers : SUBSET Bodies, seen : SUBSET Ids, trusted : BOOLEAN]
Reading == [offers : SUBSET Bodies, seen : SUBSET Ids]

FormsTypeOK ==
  /\ signedIn \in BOOLEAN /\ alive \in BOOLEAN
  /\ form \in Form \cup {None}
  /\ flight \in Flight \cup {None} /\ orphan \in Flight \cup {None}
  /\ late \subseteq Request
  /\ ledger \in [Ids -> Command \cup {None}]
  /\ offered \subseteq Bodies /\ changes \in 0..MaxChanges
  /\ cache \in [Keys -> Copy] /\ reading \in [Keys -> Reading \cup {None, Pending}]
  /\ plan \in Seq(Kinds) /\ nextId \in 1..(MaxIds + 1) /\ goal \in 0..MaxGoals
  /\ goalOf \in [Ids -> 0..MaxGoals] /\ told \subseteq Ids /\ doubt \subseteq 0..MaxGoals

(* A form that has sent nothing has an id nobody knows; a failed attempt   *)
(* is the request it sent; a count can always be followed by another one.  *)
FormInv ==
  form # None =>
    /\ form.sent # None => form.sent.kind = form.kind /\ form.sent.id = form.id
    /\ form.sent = None => \A r \in Known : r.id # form.id
    /\ form.kind \in Drawn => form.id \in Ids /\ form.id < nextId /\ goalOf[form.id] = goal
    /\ form.kind \in Frozen /\ form.phase = "editing" /\ flight = None => form.sent = None
    /\ form.phase = "failed" => form.sent # None
    /\ form.kind = "count" /\ flight # None => nextId \in Ids /\ goal < MaxGoals
    /\ form.kind \in Single /\ flight # None => form.phase = "editing"

(* What an answer on its way says is so; a request that is not repeated is *)
(* nowhere else.                                                           *)
AnswerInv(f) ==
  f # None =>
    /\ f.answer = "recorded" => ledger[f.req.id] # None
    /\ f.req.kind \in Fixed => f.answer # "replayed"
    /\ f.req.kind \in Single => \A r \in late : r.id # f.req.id
    /\ f.req.kind \in Single /\ f.answer = "refused" => ledger[f.req.id] = None

FlightsInv ==
  /\ flight # None => form # None /\ form.sent = flight.req
  /\ orphan # None /\ form # None => orphan.req.id # form.id
  /\ AnswerInv(flight) /\ AnswerInv(orphan)

Agree(r, s) == r.kind = s.kind /\ (r.kind \in Fixed => r.body = s.body)

KnownInv ==
  /\ \A r \in Known : r.id < nextId
  /\ \A r, s \in Known : r.id = s.id => Agree(r, s)

(* The server takes a name once.                                           *)
NamesInv ==
  \A i, j \in Recorded :
    ledger[i].kind = "user" /\ ledger[j].kind = "user" /\ ledger[i].body = ledger[j].body => i = j

SameAccount(r, s) == r.kind = "user" /\ s.kind = "user" /\ r.body = s.body

OfGoal(g) == {r \in Possible : goalOf[r.id] = g}

GoalsInv ==
  /\ \A i \in Ids : goalOf[i] <= goal
  /\ \A r, s \in Possible :
       goalOf[r.id] = goalOf[s.id] /\ goalOf[r.id] \notin doubt => r.id = s.id \/ SameAccount(r, s)
  /\ form # None /\ goal \notin doubt =>
       \A r \in OfGoal(goal) :
         /\ form.kind \in Drawn => r.id = form.id
         /\ form.kind \in Single /\ form.phase = "editing" /\ ~Carries(flight, r) =>
              form.unsure /\ (form.kind = "user" => r.kind = "user" /\ r.body = form.sent.body)

StockInv ==
  /\ form = None => \A k \in Keys : reading[k] = None
  /\ told \subseteq Movements
  /\ reading["stock"] \notin {None, Pending} => told \subseteq reading["stock"].seen
  /\ StockKnowsOwnMovements

IInv == FormsTypeOK /\ FormInv /\ FlightsInv /\ KnownInv /\ NamesInv /\ GoalsInv /\ StockInv

----------------------------------------------------------------------------
(* Lemmas about the parts.                                                 *)

LEMMA KindsAreDisjoint == \A k \in Kinds : k \in Single <=> k \notin Drawn
  BY DEF Kinds, Single, Drawn, Moves, Frozen, Dialogs

LEMMA SameRequest ==
  ASSUME NEW r \in Request, NEW s \in Request, r.kind = s.kind, r.id = s.id, r.body = s.body
  PROVE  r = s
  BY DEF Request

(* The server records a command once, as it was sent, and says so.         *)
LEMMA ServeOnce ==
  ASSUME IInv, NEW r \in Known, NEW a, Serve(r, a)
  PROVE  /\ ledger' \in [Ids -> Command \cup {None}]
         /\ \A i \in Ids : ledger[i] # None \/ i # r.id => ledger'[i] = ledger[i]
         /\ \A s \in Request : IsRecorded(s)' => IsRecorded(s) \/ s = r
         /\ a = "recorded" => ledger'[r.id] # None
         /\ r.kind \in Single /\ a = "refused" => ledger'[r.id] = None
         /\ r.kind \in Fixed => a # "replayed"
         /\ NamesInv'
         /\ \A i \in Movements : i \in Movements'
  <1>1. /\ FormsTypeOK /\ KnownInv /\ NamesInv /\ r \in Request
        /\ r.id \in Ids /\ r.kind \in Kinds /\ r.body \in Bodies
    BY DEF IInv, Known, Request
  <1>2. CASE /\ ledger' = ledger
             /\ a = "recorded" => ledger[r.id] # None
             /\ a = "refused" => ledger[r.id] = None
             /\ a = "replayed" => ledger[r.id] # None /\ ledger[r.id].body # r.body
    <2>1. r.kind \in Fixed => a # "replayed"
      <3>1. SUFFICES ASSUME r.kind \in Fixed, a = "replayed" PROVE FALSE
        OBVIOUS
      <3>2. ledger[r.id] # None /\ ledger[r.id].body # r.body
        BY <1>2, <3>1
      <3> DEFINE s == [kind |-> ledger[r.id].kind, id |-> r.id, body |-> ledger[r.id].body]
      <3>3. s \in Known
        BY <1>1, <3>2 DEF Known, IsRecorded, FormsTypeOK, Command, Request
      <3>. QED  BY <1>1, <3>1, <3>2, <3>3 DEF KnownInv, Agree
    <2>. QED  BY <1>1, <1>2, <2>1 DEF FormsTypeOK, IsRecorded, NamesInv, Recorded, Movements
  <1>3. CASE /\ ledger[r.id] = None /\ Acceptable(r) /\ a \in {"recorded", "fault"}
             /\ ledger' = [ledger EXCEPT ![r.id] = [kind |-> r.kind, body |-> r.body]]
    <2>1. [kind |-> r.kind, body |-> r.body] \in Command /\ None \notin Command
      BY <1>1, NoneAssumption DEF Command
    <2>2. /\ ledger' \in [Ids -> Command \cup {None}]
          /\ ledger'[r.id] = [kind |-> r.kind, body |-> r.body] /\ ledger'[r.id] # None
          /\ \A i \in Ids : i # r.id => ledger'[i] = ledger[i]
      BY <1>1, <1>3, <2>1 DEF FormsTypeOK
    <2>3. \A s \in Request : IsRecorded(s)' => IsRecorded(s) \/ s = r
      <3>1. SUFFICES ASSUME NEW s \in Request, IsRecorded(s)', s.id = r.id PROVE s = r
        BY <2>2 DEF IsRecorded, Request
      <3>. QED  BY <1>1, <2>2, <3>1, SameRequest DEF IsRecorded
    <2>4. NamesInv'
      BY <1>1, <1>3, <2>2 DEF NamesInv, Recorded, Acceptable, Taken
    <2>5. \A i \in Movements : i \in Movements'
      BY <1>3, <2>2 DEF Movements, Recorded
    <2>. QED  BY <1>3, <2>2, <2>3, <2>4, <2>5
  <1>. QED  BY <1>2, <1>3 DEF Serve

(* A read goes on, is begun again or given up.                             *)
LEMMA AttendLeaves ==
  ASSUME NEW ks, Attend(ks), NEW k \in Keys
  PROVE  /\ reading'[k] \in {None, Pending, reading[k]}
         /\ k \in ks => reading'[k] \in {None, Pending}
         /\ form' = None => reading'[k] = None
  BY DEF Attend, Observed

LEMMA AttendTypes ==
  ASSUME FormsTypeOK, NEW ks, Attend(ks)
  PROVE  reading' \in [Keys -> Reading \cup {None, Pending}]
  BY AttendLeaves DEF Attend, FormsTypeOK

LEMMA KeepLeaves ==
  ASSUME FormsTypeOK, NEW ks, Keep(ks)
  PROVE  /\ cache' \in [Keys -> Copy]
         /\ cache'["stock"] = cache["stock"] \/ ~cache'["stock"].trusted
         /\ "stock" \in ks => ~cache'["stock"].trusted
  <1>1. \A k \in Keys : cache[k] \in Copy /\ Distrusted(cache[k]) \in Copy
                        /\ ~Distrusted(cache[k]).trusted
    BY DEF FormsTypeOK, Copy, Distrusted
  <1>. QED  BY <1>1 DEF Keep, Keys

LEMMA EmptyTypes ==
  EmptyCache \in [Keys -> Copy] /\ ~EmptyCache["stock"].trusted
  /\ NoReads \in [Keys -> Reading \cup {None, Pending}] /\ \A k \in Keys : NoReads[k] = None
  BY DEF EmptyCache, NoCopy, NoReads, Copy, Keys

(* Nothing new is heard, and no read is finished.                          *)
LEMMA StockLater ==
  ASSUME StockInv, told' = told, \A i \in Movements : i \in Movements',
         cache'["stock"] = cache["stock"] \/ ~cache'["stock"].trusted,
         reading'["stock"] \in {None, Pending, reading["stock"]},
         form' = None => \A k \in Keys : reading'[k] = None
  PROVE  StockInv'
  BY DEF StockInv, StockKnowsOwnMovements

(* A command is heard of, and the balances are distrusted.                 *)
LEMMA StockHeard ==
  ASSUME StockInv, told' \subseteq Movements', ~cache'["stock"].trusted,
         reading'["stock"] \in {None, Pending},
         form' = None => \A k \in Keys : reading'[k] = None
  PROVE  StockInv'
  BY DEF StockInv, StockKnowsOwnMovements

----------------------------------------------------------------------------
(* Steps that send nothing and draw nothing.                               *)

(* The form on screen is still the one there was, with the same attempt.   *)
SameAttempt(g, f) ==
  /\ g.kind = f.kind /\ g.id = f.id /\ g.phase = f.phase /\ g.sent = f.sent
  /\ g.unsure = f.unsure

SameForm == form # None /\ form' # None /\ SameAttempt(form', form)

SameFlight ==
  /\ flight' = None <=> flight = None
  /\ flight # None => flight'.req = flight.req

LEMMA QuietInv ==
  ASSUME IInv, UNCHANGED <<nextId, goal, goalOf, doubt>>,
         Known' \subseteq Known, Possible' \subseteq Possible,
         form' = None \/ (SameForm /\ SameFlight)
  PROVE  FormInv' /\ KnownInv' /\ GoalsInv'
  <1>1. FormInv /\ KnownInv /\ GoalsInv
    BY DEF IInv
  <1>2. FormInv'
    BY <1>1 DEF FormInv, SameForm, SameAttempt, SameFlight
  <1>3. KnownInv'
    BY <1>1 DEF KnownInv, Agree
  <1>4. GoalsInv'
    <2>1. ASSUME form' # None, NEW r PROVE Carries(flight, r)' <=> Carries(flight, r)
      BY <2>1 DEF SameFlight, Carries
    <2>. QED  BY <1>1, <2>1 DEF GoalsInv, SameForm, SameAttempt, SameAccount, OfGoal
  <1>. QED  BY <1>2, <1>3, <1>4

(* What is under way is as it was.                                         *)
LEMMA PlainInv ==
  ASSUME IInv, UNCHANGED <<flight, orphan, late, ledger, nextId, goal, goalOf, doubt>>,
         form' = form \/ SameForm
  PROVE  FormInv' /\ FlightsInv' /\ KnownInv' /\ NamesInv' /\ GoalsInv'
  <1>1. Known' \subseteq Known /\ Possible' \subseteq Possible
    BY DEF Known, Possible, Carries, IsRecorded, SameForm, SameAttempt
  <1>2. FlightsInv' /\ NamesInv'
    BY DEF IInv, FlightsInv, AnswerInv, NamesInv, Recorded, SameForm, SameAttempt
  <1>3. CASE form' # None
    <2>1. SameForm /\ SameFlight
      BY <1>3 DEF SameForm, SameAttempt, SameFlight
    <2>. QED  BY <1>1, <1>2, <2>1, QuietInv
  <1>4. CASE form' = None
    BY <1>1, <1>2, <1>4, QuietInv
  <1>. QED  BY <1>3, <1>4

LEMMA ReadsInv ==
  ASSUME IInv, NEW k \in Keys, CopyAges(k) \/ ReadsAgain(k) \/ ServerReads(k) \/ ReadFails(k)
  PROVE  IInv'
  <1>1. /\ FormsTypeOK /\ StockInv
        /\ UNCHANGED <<signedIn, alive, form, flight, orphan, late, ledger, offered, changes,
                       plan, nextId, goal, goalOf, told, doubt>>
    BY DEF IInv, CopyAges, ReadsAgain, ServerReads, ReadFails, network, shop, person, ghosts
  <1>2. FormInv' /\ FlightsInv' /\ KnownInv' /\ NamesInv' /\ GoalsInv'
    BY <1>1, PlainInv
  <1>3. Movements' = Movements /\ Movements \subseteq Ids
    BY <1>1 DEF Movements, Recorded
  <1>4. cache' \in [Keys -> Copy] /\ (cache'["stock"] = cache["stock"] \/ ~cache'["stock"].trusted)
    BY <1>1, KeepLeaves DEF CopyAges, ReadsAgain, ServerReads, ReadFails, FormsTypeOK
  <1>5. reading' \in [Keys -> Reading \cup {None, Pending}]
    <2>1. CASE ServerReads(k)
      <3>1. [offers |-> offered, seen |-> IF k = "stock" THEN Movements ELSE {}] \in Reading
        BY <1>1, <1>3 DEF FormsTypeOK, Reading
      <3>. QED  BY <1>1, <2>1, <3>1 DEF ServerReads, FormsTypeOK
    <2>2. CASE CopyAges(k) \/ ReadsAgain(k) \/ ReadFails(k)
      BY <1>1, <2>2 DEF CopyAges, ReadsAgain, ReadFails, FormsTypeOK
    <2>. QED  BY <2>1, <2>2
  <1>6. FormsTypeOK'
    BY <1>1, <1>4, <1>5 DEF FormsTypeOK
  <1>7. form' = None => \A i \in Keys : reading'[i] = None
    <2>1. form = None => reading[k] = None
      BY <1>1 DEF StockInv
    <2>2. form = None => reading' = reading
      BY <1>1, <2>1, NoneAssumption DEF CopyAges, ReadsAgain, ServerReads, ReadFails, Observed, FormsTypeOK
    <2>. QED  BY <1>1, <2>2 DEF StockInv
  <1>8. StockInv'
    <2>1. CASE ServerReads(k) /\ k = "stock"
      <3>1. reading'["stock"].seen = Movements /\ cache' = cache /\ told \subseteq Movements
        BY <1>1, <2>1 DEF ServerReads, FormsTypeOK, StockInv
      <3>. QED  BY <1>1, <1>3, <1>7, <3>1 DEF StockInv, StockKnowsOwnMovements
    <2>2. CASE ~(ServerReads(k) /\ k = "stock")
      <3>1. reading'["stock"] \in {None, Pending, reading["stock"]}
        BY <1>1, <2>2 DEF CopyAges, ReadsAgain, ServerReads, ReadFails, FormsTypeOK, Keys
      <3>. QED  BY <1>1, <1>3, <1>4, <1>7, <3>1, StockLater
    <2>. QED  BY <2>1, <2>2
  <1>. QED  BY <1>2, <1>6, <1>8 DEF IInv

(* A selection that is kept or dropped is a selection still.               *)
LEMMA PreferredIsOffered ==
  ASSUME NEW offers \in SUBSET Bodies
  PROVE  /\ PreferredLocation(offers) \in Bodies \cup {None}
         /\ PreferredRemovalLocation(offers) \in Bodies \cup {None}
  <1>1. Cardinality(offers) = 1 => (CHOOSE b \in offers : TRUE) \in Bodies
    BY FS_EmptySet
  <1>. QED  BY <1>1 DEF PreferredLocation, PreferredRemovalLocation

LEMMA EditedForm ==
  ASSUME NEW f \in Form, NEW b \in Bodies \cup {None}
  PROVE  /\ [f EXCEPT !.fields = b] \in Form /\ SameAttempt([f EXCEPT !.fields = b], f)
         /\ [f EXCEPT !.prefilled = TRUE, !.fields = b] \in Form
         /\ SameAttempt([f EXCEPT !.prefilled = TRUE, !.fields = b], f)
  BY DEF Form, SameAttempt

LEMMA AfterReadForm ==
  ASSUME NEW f \in Form, NEW k, NEW offers \in SUBSET Bodies
  PROVE  /\ ReceiptAfterRead(f, offers) \in Form /\ SameAttempt(ReceiptAfterRead(f, offers), f)
         /\ AfterRead(f, k, offers) \in Form /\ SameAttempt(AfterRead(f, k, offers), f)
  <1>1. f.fields \in Bodies \cup {None}
    BY DEF Form
  <1>2. ReceiptAfterRead(f, offers) \in Form /\ SameAttempt(ReceiptAfterRead(f, offers), f)
    <2>1. CASE ~f.prefilled
      <3> DEFINE b == IF PreferredLocation(offers) # None THEN PreferredLocation(offers) ELSE f.fields
      <3>1. ReceiptAfterRead(f, offers) = [f EXCEPT !.prefilled = TRUE, !.fields = b]
        BY <2>1 DEF ReceiptAfterRead
      <3>2. b \in Bodies \cup {None}
        BY <1>1, PreferredIsOffered
      <3>. QED  BY <3>1, <3>2, EditedForm
    <2>2. CASE f.prefilled
      <3> DEFINE b == IF f.fields \in offers THEN f.fields ELSE None
      <3>1. ReceiptAfterRead(f, offers) = [f EXCEPT !.fields = b]
        BY <2>2 DEF ReceiptAfterRead
      <3>2. b \in Bodies \cup {None}
        BY <1>1
      <3>. QED  BY <3>1, <3>2, EditedForm
    <2>. QED  BY <2>1, <2>2
  <1>3. RemovalAfterRead(f, offers) \in Form /\ SameAttempt(RemovalAfterRead(f, offers), f)
    <2> DEFINE b == IF f.phase # "editing" \/ f.fields \in offers THEN f.fields ELSE None
    <2>1. RemovalAfterRead(f, offers) = [f EXCEPT !.fields = b]
      BY DEF RemovalAfterRead
    <2>2. b \in Bodies \cup {None}
      BY <1>1
    <2>. QED  BY <2>1, <2>2, EditedForm
  <1>4. AfterRead(f, k, offers) \in {ReceiptAfterRead(f, offers), RemovalAfterRead(f, offers), f}
    BY DEF AfterRead
  <1>. QED  BY <1>2, <1>3, <1>4 DEF SameAttempt

LEMMA EditsInv ==
  ASSUME IInv, NEW b \in Bodies \cup {None}, Edits(b), form # None
  PROVE  IInv'
  <1>1. /\ FormsTypeOK /\ StockInv /\ form \in Form /\ form' = [form EXCEPT !.fields = b]
        /\ UNCHANGED <<signedIn, alive, flight, orphan, late, ledger, offered, changes, cache,
                       reading, plan, nextId, goal, goalOf, told, doubt>>
    BY DEF IInv, FormsTypeOK, Edits, network, shop, person, ghosts
  <1>2. form' \in Form /\ SameForm
    BY <1>1, EditedForm, NoneAssumption DEF SameForm
  <1>3. FormsTypeOK'
    BY <1>1, <1>2 DEF FormsTypeOK
  <1>4. StockInv'
    BY <1>1, <1>2, StockLater DEF Movements, Recorded, SameForm
  <1>. QED  BY <1>1, <1>2, <1>3, <1>4, PlainInv DEF IInv

LEMMA FinishReadInv ==
  ASSUME IInv, NEW k \in Keys, FinishRead(k)
  PROVE  IInv'
  <1>1. /\ FormsTypeOK /\ StockInv /\ reading[k] \in Reading
        /\ cache' = [cache EXCEPT ![k] = [held |-> TRUE, offers |-> reading[k].offers,
                                          seen |-> reading[k].seen, trusted |-> TRUE]]
        /\ form' = AfterRead(form, k, reading[k].offers)
        /\ reading' = [reading EXCEPT ![k] = None] /\ reading[k] \notin {None, Pending}
        /\ UNCHANGED <<signedIn, alive, flight, orphan, late, ledger, offered, changes,
                       plan, nextId, goal, goalOf, told, doubt>>
    BY DEF IInv, FormsTypeOK, FinishRead, network, shop, person, ghosts
  <1>2. reading[k].offers \in SUBSET Bodies /\ reading[k].seen \in SUBSET Ids
    BY <1>1 DEF Reading
  <1>3. form' \in Form \cup {None} /\ SameForm
    <2>1. form # None /\ form \in Form
      BY <1>1 DEF FormsTypeOK, StockInv
    <2>. QED  BY <1>1, <1>2, <2>1, AfterReadForm, NoneAssumption DEF SameForm
  <1>4. FormsTypeOK'
    <2>1. cache' \in [Keys -> Copy]
      BY <1>1, <1>2 DEF FormsTypeOK, Copy
    <2>. QED  BY <1>1, <1>3, <2>1 DEF FormsTypeOK
  <1>5. StockInv'
    <2>1. CASE k = "stock"
      <3>1. cache'["stock"].seen = reading["stock"].seen /\ reading'["stock"] = None
        BY <1>1, <2>1 DEF FormsTypeOK
      <3>. QED  BY <1>1, <1>3, <2>1, <3>1 DEF SameForm, StockInv, StockKnowsOwnMovements, Movements, Recorded
    <2>2. CASE k # "stock"
      <3>1. cache'["stock"] = cache["stock"] /\ reading'["stock"] = reading["stock"]
        BY <1>1, <2>2 DEF FormsTypeOK, Keys
      <3>. QED  BY <1>1, <1>3, <3>1, StockLater DEF SameForm, Movements, Recorded
    <2>. QED  BY <2>1, <2>2
  <1>. QED  BY <1>1, <1>3, <1>4, <1>5, PlainInv DEF IInv

(* The session, on both sides of the connection, and the shop.             *)
LEMMA AroundInv ==
  ASSUME IInv, Expire \/ SignInAgain \/ ShopChanges
  PROVE  IInv'
  <1>1. /\ FormsTypeOK /\ StockInv
        /\ UNCHANGED <<form, flight, orphan, late, ledger, cache, reading, plan, nextId, goal,
                       goalOf, told, doubt>>
    BY DEF IInv, Expire, SignInAgain, ShopChanges, network, shop, person, ghosts
  <1>2. signedIn' \in BOOLEAN /\ alive' \in BOOLEAN /\ offered' \subseteq Bodies /\ changes' \in 0..MaxChanges
    <2>1. MaxChanges \in Nat
      BY BrowserAssumption
    <2>2. CASE ShopChanges
      BY <1>1, <2>1, <2>2 DEF FormsTypeOK, ShopChanges, network
    <2>3. CASE Expire \/ SignInAgain
      BY <1>1, <2>3 DEF FormsTypeOK, Expire, SignInAgain, shop
    <2>. QED  BY <2>2, <2>3
  <1>3. FormsTypeOK'
    BY <1>1, <1>2 DEF FormsTypeOK
  <1>4. StockInv'
    BY <1>1, StockLater DEF Movements, Recorded, StockInv
  <1>. QED  BY <1>1, <1>3, <1>4, PlainInv DEF IInv

----------------------------------------------------------------------------
(* Leaving a form: what it had under way goes on without it, or is given up. *)

Goes(f, g) == f # None /\ g # None /\ g.req = f.req /\ g.stage = f.stage /\ g.answer = f.answer

LEMMA ClosesInv ==
  ASSUME IInv, form' = None, flight' = None, UNCHANGED <<ledger, nextId, goal, goalOf, doubt>>,
         orphan' = None \/ Goes(flight, orphan') \/ Goes(orphan, orphan'),
         late' \subseteq Possible, orphan' = None \/ late' \subseteq late
  PROVE  FormInv' /\ FlightsInv' /\ KnownInv' /\ NamesInv' /\ GoalsInv'
  <1>1. FormsTypeOK /\ FlightsInv /\ NamesInv
    BY DEF IInv
  <1>2. Possible \subseteq Known
    BY DEF Possible, Known
  <1>3. Known' \subseteq Known
    BY <1>2 DEF Known, Carries, IsRecorded, Goes
  <1>4. Possible' \subseteq Possible
    BY DEF Possible, Carries, IsRecorded, Goes
  <1>5. FlightsInv' /\ NamesInv'
    BY <1>1 DEF FlightsInv, AnswerInv, Goes, NamesInv, Recorded
  <1>. QED  BY <1>3, <1>4, <1>5, QuietInv

LEMMA LateIsPossible == FormsTypeOK => late \subseteq Possible
  BY DEF FormsTypeOK, Possible

LEMMA LeaveInv ==
  ASSUME IInv, Leave
  PROVE  IInv'
  <1>1. /\ FormsTypeOK /\ StockInv /\ form' = None /\ flight' = None /\ Attend({})
        /\ UNCHANGED <<signedIn, alive, late, ledger, offered, changes, cache,
                       plan, nextId, goal, goalOf, told, doubt>>
    BY DEF IInv, Leave, network, shop, person, ghosts
  <1>2. /\ orphan' \in Flight \cup {None}
        /\ orphan' = None \/ Goes(flight, orphan') \/ Goes(orphan, orphan')
    <2>1. ASSUME NEW f \in Flight, NEW p \in BOOLEAN
          PROVE  [f EXCEPT !.parent = p] \in Flight /\ Goes(f, [f EXCEPT !.parent = p])
      BY NoneAssumption DEF Flight, Goes
    <2>2. ASSUME NEW f \in Flight PROVE Goes(f, f)
      BY NoneAssumption DEF Goes
    <2>3. PICK stays \in BOOLEAN :
            orphan' = IF flight # None THEN [flight EXCEPT !.parent = stays]
                      ELSE IF orphan # None /\ ~stays THEN [orphan EXCEPT !.parent = FALSE] ELSE orphan
      BY DEF Leave
    <2>4. flight \in Flight \cup {None} /\ orphan \in Flight \cup {None}
      BY <1>1 DEF FormsTypeOK
    <2>. QED  BY <2>1, <2>2, <2>3, <2>4
  <1>3. FormsTypeOK'
    BY <1>1, <1>2, AttendTypes DEF FormsTypeOK
  <1>4. StockInv'
    BY <1>1, AttendLeaves, StockLater DEF Movements, Recorded, Keys
  <1>. QED  BY <1>1, <1>2, <1>3, <1>4, ClosesInv, LateIsPossible DEF IInv

LEMMA ReloadInv ==
  ASSUME IInv, Reload
  PROVE  IInv'
  <1>1. /\ FormsTypeOK /\ StockInv /\ form' = None /\ flight' = None /\ orphan' = None
        /\ cache' = EmptyCache /\ reading' = NoReads
        /\ UNCHANGED <<signedIn, alive, ledger, offered, changes, plan, nextId, goal, goalOf,
                       told, doubt>>
    BY DEF IInv, Reload, shop, person, ghosts
  <1>2. late' \subseteq Possible
    <2>1. late' \subseteq late \cup GivenUp(flight) \cup GivenUp(orphan)
      BY DEF Reload
    <2>2. GivenUp(flight) \subseteq Possible /\ GivenUp(orphan) \subseteq Possible
      BY <1>1 DEF GivenUp, Possible, Carries, FormsTypeOK, Flight
    <2>. QED  BY <1>1, <2>1, <2>2, LateIsPossible
  <1>3. FormsTypeOK'
    BY <1>1, <1>2, EmptyTypes DEF FormsTypeOK, Possible
  <1>4. StockInv'
    BY <1>1, EmptyTypes, StockLater DEF Movements, Recorded, Keys
  <1>. QED  BY <1>1, <1>2, <1>3, <1>4, ClosesInv DEF IInv

LEMMA ReadIsRefusedInv ==
  ASSUME IInv, NEW k \in Keys, ReadIsRefused(k)
  PROVE  IInv'
  <1>1. /\ FormsTypeOK /\ StockInv /\ signedIn' = FALSE /\ form' = None /\ flight' = None
        /\ orphan' = IF flight = None THEN orphan ELSE [flight EXCEPT !.parent = FALSE]
        /\ cache' = EmptyCache /\ reading' = NoReads
        /\ UNCHANGED <<alive, late, ledger, offered, changes, plan, nextId, goal, goalOf,
                       told, doubt>>
    BY DEF IInv, ReadIsRefused, SessionEnds, network, shop, person, ghosts
  <1>2. /\ orphan' \in Flight \cup {None}
        /\ orphan' = None \/ Goes(flight, orphan') \/ Goes(orphan, orphan')
    BY <1>1, NoneAssumption DEF FormsTypeOK, Flight, Goes
  <1>3. FormsTypeOK'
    BY <1>1, <1>2, EmptyTypes DEF FormsTypeOK
  <1>4. StockInv'
    BY <1>1, EmptyTypes, StockLater DEF Movements, Recorded, Keys
  <1>. QED  BY <1>1, <1>2, <1>3, <1>4, ClosesInv, LateIsPossible DEF IInv

LEMMA CheckTheListInv ==
  ASSUME IInv, checkTheList
  PROVE  IInv'
  <1>1. /\ FormsTypeOK /\ StockInv /\ form' = None /\ flight = None
        /\ Keep({"choices"}) /\ Attend({})
        /\ UNCHANGED <<signedIn, alive, flight, orphan, late, ledger, offered, changes,
                       plan, nextId, goal, goalOf, told, doubt>>
    BY DEF IInv, checkTheList, Busy, network, shop, person, ghosts
  <1>2. orphan' = None \/ Goes(orphan, orphan')
    BY <1>1 DEF Goes
  <1>3. FormsTypeOK'
    BY <1>1, KeepLeaves, AttendTypes DEF FormsTypeOK
  <1>4. StockInv'
    BY <1>1, KeepLeaves, AttendLeaves, StockLater DEF Movements, Recorded, Keys
  <1>. QED  BY <1>1, <1>2, <1>3, <1>4, ClosesInv, LateIsPossible DEF IInv

----------------------------------------------------------------------------
(* The server answers.                                                     *)

(* What is in flight is the attempt of the form on screen.                 *)
LEMMA FlightIsTheForms ==
  ASSUME FormsTypeOK, FormInv, FlightsInv, flight # None
  PROVE  /\ flight \in Flight /\ form \in Form /\ form # None /\ form.sent = flight.req
         /\ flight.req.id = form.id /\ flight.req.kind = form.kind
         /\ orphan # None => orphan.req.id # flight.req.id
  <1>1. flight \in Flight /\ flight.req # None /\ form # None
    BY NoneAssumption DEF FormsTypeOK, Flight, FlightsInv
  <1>. QED  BY <1>1 DEF FormsTypeOK, FormInv, FlightsInv

(* What one answer does not disturb.                                       *)
LEMMA AnswerStays ==
  ASSUME IInv, NEW r \in Known, NEW a, Serve(r, a), late' \subseteq late,
         NEW f \in Flight, AnswerInv(f), f.req.kind \in Single => r.id # f.req.id
  PROVE  /\ f.answer = "recorded" => ledger'[f.req.id] # None
         /\ f.req.kind \in Fixed => f.answer # "replayed"
         /\ f.req.kind \in Single => \A s \in late' : s.id # f.req.id
         /\ f.req.kind \in Single /\ f.answer = "refused" => ledger'[f.req.id] = None
  <1>1. f # None /\ f.req.id \in Ids
    BY NoneAssumption DEF Flight, Request
  <1>. QED  BY <1>1, ServeOnce DEF AnswerInv

LEMMA ServerAnswersInv ==
  ASSUME IInv, ServerAnswers
  PROVE  IInv'
  <1>1. PICK a \in Answers : Serve(flight.req, a)
                             /\ flight' = [flight EXCEPT !.stage = "back", !.answer = a]
    BY DEF ServerAnswers
  <1>2. /\ FormsTypeOK /\ FormInv /\ FlightsInv /\ StockInv
        /\ flight \in Flight /\ flight # None /\ flight.stage = "out"
        /\ UNCHANGED <<signedIn, alive, form, orphan, late, offered, changes, cache, reading,
                       plan, nextId, goal, goalOf, told, doubt>>
    BY DEF IInv, FormsTypeOK, ServerAnswers, shop, person, ghosts
  <1>3. /\ flight' \in Flight /\ flight' # None /\ flight'.req = flight.req
        /\ flight'.stage = "back" /\ flight'.answer = a
    BY <1>1, <1>2, NoneAssumption DEF Flight
  <1>4. flight.req \in Known /\ flight.req \in Possible /\ flight.req \in Request
    BY <1>2 DEF Known, Possible, Carries, Flight
  <1> DEFINE r == flight.req
  <1>5. /\ ledger' \in [Ids -> Command \cup {None}] /\ NamesInv'
        /\ \A s \in Request : IsRecorded(s)' => IsRecorded(s) \/ s = r
        /\ a = "recorded" => ledger'[r.id] # None
        /\ r.kind \in Single /\ a = "refused" => ledger'[r.id] = None
        /\ r.kind \in Fixed => a # "replayed"
        /\ \A i \in Movements : i \in Movements'
    BY <1>1, <1>4, ServeOnce
  <1>6. Known' \subseteq Known /\ Possible' \subseteq Possible
    BY <1>2, <1>3, <1>4, <1>5 DEF Known, Possible, Carries
  <1>7. FlightsInv'
    <2>1. AnswerInv(flight)'
      BY <1>2, <1>3, <1>5 DEF AnswerInv, FlightsInv
    <2>2. AnswerInv(orphan)'
      <3>1. SUFFICES ASSUME orphan # None PROVE AnswerInv(orphan)'
        BY <1>2 DEF AnswerInv
      <3>2. orphan \in Flight /\ AnswerInv(orphan) /\ r.id # orphan.req.id
        BY <1>2, <3>1, FlightIsTheForms DEF FormsTypeOK, FlightsInv
      <3>. QED  BY <1>1, <1>2, <1>4, <3>2, AnswerStays DEF AnswerInv
    <2>. QED  BY <1>2, <1>3, <2>1, <2>2 DEF FlightsInv
  <1>8. FormInv' /\ KnownInv' /\ GoalsInv'
    <2>1. SameForm /\ SameFlight
      BY <1>2, <1>3 DEF FlightsInv, SameForm, SameAttempt, SameFlight
    <2>. QED  BY <1>2, <1>6, <2>1, QuietInv
  <1>9. FormsTypeOK'
    BY <1>2, <1>3, <1>5 DEF FormsTypeOK
  <1>10. StockInv'
    BY <1>2, <1>5, StockLater DEF StockInv
  <1>. QED  BY <1>5, <1>7, <1>8, <1>9, <1>10 DEF IInv

LEMMA OrphanAnsweredInv ==
  ASSUME IInv, OrphanAnswered
  PROVE  IInv'
  <1>1. PICK a \in Answers : Serve(orphan.req, a)
                             /\ orphan' = [orphan EXCEPT !.stage = "back", !.answer = a]
    BY DEF OrphanAnswered
  <1>2. /\ FormsTypeOK /\ FormInv /\ FlightsInv /\ StockInv
        /\ orphan \in Flight /\ orphan # None /\ orphan.stage = "out"
        /\ UNCHANGED <<signedIn, alive, form, flight, late, offered, changes, cache, reading,
                       plan, nextId, goal, goalOf, told, doubt>>
    BY DEF IInv, FormsTypeOK, OrphanAnswered, shop, person, ghosts
  <1>3. /\ orphan' \in Flight /\ orphan' # None /\ orphan'.req = orphan.req
        /\ orphan'.stage = "back" /\ orphan'.answer = a
    BY <1>1, <1>2, NoneAssumption DEF Flight
  <1>4. orphan.req \in Known /\ orphan.req \in Possible /\ orphan.req \in Request
    BY <1>2 DEF Known, Possible, Carries, Flight
  <1> DEFINE r == orphan.req
  <1>5. /\ ledger' \in [Ids -> Command \cup {None}] /\ NamesInv'
        /\ \A s \in Request : IsRecorded(s)' => IsRecorded(s) \/ s = r
        /\ a = "recorded" => ledger'[r.id] # None
        /\ r.kind \in Single /\ a = "refused" => ledger'[r.id] = None
        /\ r.kind \in Fixed => a # "replayed"
        /\ \A i \in Movements : i \in Movements'
    BY <1>1, <1>4, ServeOnce
  <1>6. Known' \subseteq Known /\ Possible' \subseteq Possible
    BY <1>2, <1>3, <1>4, <1>5 DEF Known, Possible, Carries
  <1>7. FlightsInv'
    <2>1. AnswerInv(orphan)'
      BY <1>2, <1>3, <1>5 DEF AnswerInv, FlightsInv
    <2>2. AnswerInv(flight)'
      <3>1. SUFFICES ASSUME flight # None PROVE AnswerInv(flight)'
        BY <1>2 DEF AnswerInv
      <3>2. flight \in Flight /\ AnswerInv(flight) /\ r.id # flight.req.id
        BY <1>2, <3>1, FlightIsTheForms DEF FormsTypeOK, FlightsInv
      <3>. QED  BY <1>1, <1>2, <1>4, <3>2, AnswerStays DEF AnswerInv
    <2>. QED  BY <1>2, <1>3, <2>1, <2>2 DEF FlightsInv
  <1>8. FormInv' /\ KnownInv' /\ GoalsInv'
    <2>1. form' = form /\ flight' = flight
      BY <1>2, <1>3
    <2>2. form' = None \/ (SameForm /\ SameFlight)
      BY <2>1 DEF SameForm, SameAttempt, SameFlight
    <2>. QED  BY <1>2, <1>6, <2>2, QuietInv
  <1>9. FormsTypeOK'
    BY <1>2, <1>3, <1>5 DEF FormsTypeOK
  <1>10. StockInv'
    BY <1>2, <1>5, StockLater DEF StockInv
  <1>. QED  BY <1>5, <1>7, <1>8, <1>9, <1>10 DEF IInv

LEMMA LateArrivesInv ==
  ASSUME IInv, LateArrives
  PROVE  IInv'
  <1>1. PICK r \in late : late' = late \ {r} /\ \E a \in Answers : Serve(r, a)
    BY DEF LateArrives
  <1>2. PICK a \in Answers : Serve(r, a)
    BY <1>1
  <1>3. /\ FormsTypeOK /\ FormInv /\ FlightsInv /\ StockInv
        /\ UNCHANGED <<signedIn, alive, form, flight, orphan, offered, changes, cache, reading,
                       plan, nextId, goal, goalOf, told, doubt>>
    BY DEF IInv, LateArrives, shop, person, ghosts
  <1>4. r \in Known /\ r \in Possible /\ r \in Request
    BY <1>3 DEF FormsTypeOK, Known, Possible
  <1>5. /\ ledger' \in [Ids -> Command \cup {None}] /\ NamesInv'
        /\ \A s \in Request : IsRecorded(s)' => IsRecorded(s) \/ s = r
        /\ \A i \in Movements : i \in Movements'
    BY <1>2, <1>4, ServeOnce
  <1>6. Known' \subseteq Known /\ Possible' \subseteq Possible
    BY <1>1, <1>3, <1>4, <1>5 DEF Known, Possible, Carries
  <1>7. FlightsInv'
    <2>1. ASSUME NEW f \in Flight, AnswerInv(f)
          PROVE  /\ f.answer = "recorded" => ledger'[f.req.id] # None
                 /\ f.req.kind \in Fixed => f.answer # "replayed"
                 /\ f.req.kind \in Single => \A s \in late' : s.id # f.req.id
                 /\ f.req.kind \in Single /\ f.answer = "refused" => ledger'[f.req.id] = None
      <3>1. f.req.kind \in Single => r.id # f.req.id
        BY <2>1, NoneAssumption DEF AnswerInv
      <3>. QED  BY <1>1, <1>2, <1>4, <2>1, <3>1, AnswerStays
    <2>2. AnswerInv(flight)' /\ AnswerInv(orphan)'
      BY <1>3, <2>1 DEF AnswerInv, FlightsInv, FormsTypeOK
    <2>. QED  BY <1>3, <2>2 DEF FlightsInv
  <1>8. FormInv' /\ KnownInv' /\ GoalsInv'
    <2>1. form' = form /\ flight' = flight
      BY <1>3
    <2>2. form' = None \/ (SameForm /\ SameFlight)
      BY <2>1 DEF SameForm, SameAttempt, SameFlight
    <2>. QED  BY <1>3, <1>6, <2>2, QuietInv
  <1>9. FormsTypeOK'
    BY <1>1, <1>3, <1>5 DEF FormsTypeOK
  <1>10. StockInv'
    BY <1>3, <1>5, StockLater DEF StockInv
  <1>. QED  BY <1>5, <1>7, <1>8, <1>9, <1>10 DEF IInv

----------------------------------------------------------------------------
(* Sending a command under the id the form drew, once more or for the      *)
(* first time.                                                             *)

LEMMA SendInv ==
  ASSUME IInv, NEW q \in Request, form # None, form.kind \in Drawn, flight = None,
         q.kind = form.kind, q.id = form.id,
         form.kind \in Frozen => form.sent \in {None, q},
         form.kind = "count" => nextId \in Ids /\ goal < MaxGoals,
         form' # None, form'.kind = form.kind, form'.id = form.id, form'.sent = q,
         flight' # None, flight'.req = q, flight'.answer = None,
         UNCHANGED <<orphan, late, ledger, nextId, goal, goalOf, doubt>>
  PROVE  FormInv' /\ FlightsInv' /\ KnownInv' /\ NamesInv' /\ GoalsInv'
  <1>1. FormsTypeOK /\ FormInv /\ FlightsInv /\ KnownInv /\ NamesInv /\ GoalsInv /\ q # None
    BY NoneAssumption DEF IInv
  <1>2. Known' \subseteq Known \cup {q} /\ Possible' \subseteq Possible \cup {q}
    BY DEF Known, Possible, Carries, IsRecorded
  <1>3. form.kind \notin Single
    BY DEF Drawn, Moves, Frozen, Dialogs, Single
  <1>4. FormInv'
    BY <1>1, <1>3 DEF FormInv
  <1>5. FlightsInv'
    <2>1. "recorded" # None /\ "replayed" # None /\ "refused" # None
      BY NoneAssumption DEF Answers
    <2>2. AnswerInv(flight)'
      BY <1>3, <2>1 DEF AnswerInv
    <2>3. AnswerInv(orphan)'
      BY <1>1 DEF FlightsInv, AnswerInv
    <2>. QED  BY <1>1, <2>2, <2>3 DEF FlightsInv
  <1>6. KnownInv'
    <2>1. ASSUME NEW r \in Known, r.id = q.id PROVE Agree(r, q) /\ Agree(q, r)
      <3>1. form.sent # None /\ form.sent.kind = form.kind /\ form.sent.id = form.id
        BY <1>1, <2>1 DEF FormInv
      <3>2. form.sent \in Known
        <4>1. form.sent \in Request
          BY <1>1, <3>1 DEF FormsTypeOK, Form
        <4>. QED  BY <4>1 DEF Known
      <3>3. Agree(r, form.sent)
        BY <1>1, <2>1, <3>1, <3>2 DEF KnownInv
      <3>4. form.kind \in Fixed => form.sent = q
        BY <1>3, <3>1 DEF Fixed
      <3>. QED  BY <3>1, <3>3, <3>4 DEF Agree
    <2>2. q.id < nextId /\ Agree(q, q)
      BY <1>1 DEF FormInv, Agree
    <2>3. \A r \in Known' : r.id < nextId
      BY <1>1, <1>2, <2>2 DEF KnownInv
    <2>4. \A r, s \in Known' : r.id = s.id => Agree(r, s)
      BY <1>1, <1>2, <2>1, <2>2 DEF KnownInv
    <2>. QED  BY <2>3, <2>4 DEF KnownInv, Agree
  <1>7. GoalsInv'
    <2>1. goalOf[q.id] = goal
      BY <1>1 DEF FormInv
    <2>2. \A r \in Possible : goalOf[r.id] = goal /\ goal \notin doubt => r.id = q.id
      BY <1>1 DEF GoalsInv, OfGoal
    <2>. QED  BY <1>1, <1>2, <1>3, <2>1, <2>2 DEF GoalsInv, OfGoal, SameAccount
  <1>8. NamesInv'
    BY <1>1 DEF NamesInv, Recorded
  <1>. QED  BY <1>4, <1>5, <1>6, <1>7, <1>8

Flown(q) == [req |-> q, stage |-> "out", answer |-> None, parent |-> TRUE]

LEMMA FlownIsFlight ==
  ASSUME NEW q \in Request
  PROVE  Flown(q) \in Flight /\ Flown(q) # None /\ Flown(q).req = q /\ Flown(q).answer = None
  <1>1. Flown(q) \in Flight /\ Flown(q).req = q /\ Flown(q).answer = None
    BY DEF Flown, Flight
  <1>. QED  BY <1>1, NoneAssumption

LEMMA SentForm ==
  ASSUME NEW f \in Form, NEW q \in Request
  PROVE  LET g == [f EXCEPT !.sent = q, !.error = None] IN
         /\ g \in Form /\ g # None /\ g.kind = f.kind /\ g.id = f.id /\ g.phase = f.phase
         /\ g.sent = q /\ g.unsure = f.unsure /\ g.fields = f.fields
  <1> DEFINE g == [f EXCEPT !.sent = q, !.error = None]
  <1>1. g \in Form
    BY DEF Form
  <1>2. /\ g.kind = f.kind /\ g.id = f.id /\ g.phase = f.phase
        /\ g.sent = q /\ g.unsure = f.unsure /\ g.fields = f.fields
    BY DEF Form
  <1>. QED  BY <1>1, <1>2, NoneAssumption

LEMMA SubmitsInv ==
  ASSUME IInv, NEW k \in Drawn, NEW valid, Submits(k, valid), form.fields \in Bodies,
         k = "count" => nextId \in Ids /\ goal < MaxGoals
  PROVE  IInv'
  <1> DEFINE q == Req(form.id)
  <1>1. /\ FormsTypeOK /\ FormInv /\ StockInv /\ form # None /\ form \in Form /\ form.kind = k
        /\ flight = None /\ form.phase = "editing"
        /\ flight' = Flown(q) /\ form' = [form EXCEPT !.sent = q, !.error = None]
        /\ UNCHANGED <<signedIn, alive, orphan, late, ledger, offered, changes, cache, reading,
                       plan, nextId, goal, goalOf, told, doubt>>
    BY DEF IInv, FormsTypeOK, Submits, Is, Busy, Sends, Flown, network, shop, person, ghosts
  <1>2. q \in Request /\ q.kind = form.kind /\ q.id = form.id
    BY <1>1 DEF Req, Request, FormInv, Drawn, Kinds
  <1> HIDE DEF q
  <1>3. flight' \in Flight /\ flight' # None /\ flight'.req = q /\ flight'.answer = None
    BY <1>1, <1>2, FlownIsFlight
  <1>4. /\ form' \in Form /\ form' # None /\ form'.kind = form.kind /\ form'.id = form.id
        /\ form'.sent = q
    BY <1>1, <1>2, SentForm
  <1>5. form.kind \in Frozen => form.sent \in {None, q}
    BY <1>1 DEF FormInv
  <1>6. FormInv' /\ FlightsInv' /\ KnownInv' /\ NamesInv' /\ GoalsInv'
    BY <1>1, <1>2, <1>3, <1>4, <1>5, SendInv
  <1>7. FormsTypeOK'
    BY <1>1, <1>3, <1>4 DEF FormsTypeOK
  <1>8. StockInv'
    BY <1>1, <1>4, StockLater DEF Movements, Recorded
  <1>. QED  BY <1>6, <1>7, <1>8 DEF IInv

(* The screens that freeze an attempt send what they froze.                *)
LEMMA RepeatsInv ==
  ASSUME IInv, form # None, form.kind \in Frozen, flight = None, form.phase = "failed",
         Sends(form.sent),
         UNCHANGED <<signedIn, form, orphan, network, shop, cache, reading, person, ghosts>>
  PROVE  IInv'
  <1> DEFINE q == form.sent
  <1>1. /\ FormsTypeOK /\ FormInv /\ StockInv /\ form \in Form /\ form.kind \in Drawn
        /\ flight' = Flown(q)
        /\ UNCHANGED <<signedIn, alive, form, orphan, late, ledger, offered, changes, cache,
                       reading, plan, nextId, goal, goalOf, told, doubt>>
    BY DEF IInv, FormsTypeOK, Sends, Flown, Drawn, Moves, network, shop, person, ghosts
  <1>2. q \in Request /\ q.kind = form.kind /\ q.id = form.id
    BY <1>1 DEF FormInv, Form
  <1>3. flight' \in Flight /\ flight' # None /\ flight'.req = q /\ flight'.answer = None
    BY <1>1, <1>2, FlownIsFlight
  <1>4. form.kind # "count"
    BY DEF Frozen
  <1>6. FormInv' /\ FlightsInv' /\ KnownInv' /\ NamesInv' /\ GoalsInv'
    BY <1>1, <1>2, <1>3, <1>4, SendInv
  <1>7. FormsTypeOK'
    BY <1>1, <1>3 DEF FormsTypeOK
  <1>8. StockInv'
    BY <1>1, StockLater DEF Movements, Recorded, StockInv
  <1>. QED  BY <1>6, <1>7, <1>8 DEF IInv

----------------------------------------------------------------------------
(* Trying a product or an account again: another request.                  *)

Another(f, i, q) == [f EXCEPT !.id = i, !.sent = q, !.error = None]

LEMMA AnotherForm ==
  ASSUME NEW f \in Form, NEW i \in Ids, NEW q \in Request
  PROVE  LET g == Another(f, i, q) IN
         /\ g \in Form /\ g # None /\ g.kind = f.kind /\ g.id = i /\ g.phase = f.phase
         /\ g.sent = q /\ g.unsure = f.unsure
  <1>1. Another(f, i, q) \in Form
    BY DEF Another, Form
  <1>2. LET g == Another(f, i, q) IN
        /\ g.kind = f.kind /\ g.id = i /\ g.phase = f.phase
        /\ g.sent = q /\ g.unsure = f.unsure
    BY DEF Another, Form
  <1>. QED  BY <1>1, <1>2, NoneAssumption

LEMMA SubmitsAnotherInv ==
  ASSUME IInv, NEW k \in Single, NEW valid, NEW doubtful, SubmitsAnother(k, valid, doubtful),
         form.fields \in Bodies,
         doubtful <=> form.unsure /\ (k = "user" => form.fields # form.sent.body)
  PROVE  IInv'
  <1> DEFINE q == Req(nextId)
  <1>1. /\ FormsTypeOK /\ FormInv /\ FlightsInv /\ KnownInv /\ NamesInv /\ GoalsInv /\ StockInv
        /\ form # None /\ form \in Form /\ form.kind = k
        /\ flight = None /\ form.phase = "editing" /\ nextId \in Ids /\ nextId \in Nat
        /\ flight' = Flown(q)
        /\ form' = Another(form, nextId, q)
        /\ nextId' = nextId + 1 /\ goalOf' = [goalOf EXCEPT ![nextId] = goal]
        /\ doubt' = IF doubtful THEN doubt \cup {goal} ELSE doubt
        /\ UNCHANGED <<signedIn, alive, orphan, late, ledger, offered, changes, cache, reading,
                       plan, goal, told>>
    BY DEF IInv, FormsTypeOK, SubmitsAnother, Another, Is, Busy, Sends, Flown, network, shop, Ids
  <1>2. q \in Request /\ q.kind = k /\ q.id = nextId /\ q.body = form.fields
    BY <1>1 DEF Req, Request, Single, Kinds
  <1> HIDE DEF q
  <1>3. flight' \in Flight /\ flight' # None /\ flight'.req = q /\ flight'.answer = None
    BY <1>1, <1>2, FlownIsFlight
  <1>4. /\ form' \in Form /\ form' # None /\ form'.kind = k /\ form'.id = nextId
        /\ form'.phase = form.phase /\ form'.sent = q /\ form'.unsure = form.unsure
    <2>1. form \in Form /\ nextId \in Ids /\ q \in Request
      BY <1>1, <1>2
    <2>. QED  BY <1>1, <2>1, AnotherForm
  <1>5. q # None /\ k \notin Drawn /\ k \notin Frozen /\ k # "count"
    BY <1>2, NoneAssumption DEF Single, Drawn, Moves, Frozen, Dialogs
  <1>6. Known' \subseteq Known \cup {q} /\ Possible' \subseteq Possible \cup {q}
    BY <1>1, <1>3, <1>4 DEF Known, Possible, Carries, IsRecorded
  <1>7. Possible \subseteq Known /\ \A r \in Known : r.id \in Nat /\ r.id < nextId
    BY <1>1 DEF Possible, Known, KnownInv, Request, Ids
  <1>8. FormInv'
    BY <1>1, <1>2, <1>4, <1>5 DEF FormInv
  <1>9. FlightsInv'
    <2>1. "recorded" # None /\ "replayed" # None /\ "refused" # None
      BY NoneAssumption DEF Answers
    <2>2. late \subseteq Known /\ (orphan # None => orphan.req \in Known)
      BY <1>1 DEF Known, Carries, FormsTypeOK, Flight
    <2>3. AnswerInv(flight)'
      BY <1>1, <1>2, <1>3, <1>7, <2>1, <2>2 DEF AnswerInv
    <2>4. AnswerInv(orphan)'
      BY <1>1 DEF FlightsInv, AnswerInv
    <2>. QED  BY <1>1, <1>3, <1>4, <1>7, <2>2, <2>3, <2>4 DEF FlightsInv
  <1>10. KnownInv'
    <2>1. Agree(q, q) /\ q.id < nextId'
      BY <1>1, <1>2 DEF Agree
    <2>2. \A r \in Known' : r.id < nextId'
      BY <1>1, <1>6, <1>7, <2>1
    <2>3. \A r, s \in Known' : r.id = s.id => Agree(r, s)
      BY <1>1, <1>2, <1>6, <1>7, <2>1 DEF KnownInv
    <2>. QED  BY <2>2, <2>3 DEF KnownInv, Agree
  <1>11. GoalsInv'
    <2>1. goalOf'[q.id] = goal /\ \A r \in Possible : goalOf'[r.id] = goalOf[r.id]
      <3>1. \A r \in Possible : r.id \in Ids /\ r.id # nextId
        BY <1>1, <1>7 DEF Possible, Request
      <3>. QED  BY <1>1, <1>2, <3>1 DEF FormsTypeOK
    <2>2. \A i \in Ids : goalOf'[i] <= goal
      BY <1>1 DEF GoalsInv, FormsTypeOK
    <2>3. ASSUME NEW r \in Possible, goalOf[r.id] = goal, goal \notin doubt'
          PROVE  k = "user" /\ form.unsure /\ r.kind = "user" /\ r.body = q.body
      <3>1. goal \notin doubt /\ ~doubtful
        BY <1>1, <2>3
      <3>2. r \in OfGoal(goal) /\ ~Carries(flight, r)
        BY <1>1, <2>3 DEF OfGoal, Carries
      <3>3. form.unsure /\ (k = "user" => r.kind = "user" /\ r.body = form.sent.body)
        BY <1>1, <3>1, <3>2 DEF GoalsInv
      <3>4. k = "user" /\ form.fields = form.sent.body
        BY <3>1, <3>3
      <3>. QED  BY <1>2, <3>3, <3>4
    <2>4. doubt \subseteq doubt'
      BY <1>1
    <2>5. \A r, s \in Possible' :
            goalOf'[r.id] = goalOf'[s.id] /\ goalOf'[r.id] \notin doubt'
              => r.id = s.id \/ SameAccount(r, s)
      BY <1>1, <1>2, <1>6, <2>1, <2>3, <2>4 DEF GoalsInv, SameAccount
    <2>6. \A r \in Possible' : goalOf'[r.id] = goal /\ goal \notin doubt' /\ ~Carries(flight', r)
            => form'.unsure /\ (k = "user" => r.kind = "user" /\ r.body = form'.sent.body)
      BY <1>3, <1>4, <1>6, <2>1, <2>3 DEF Carries
    <2>. QED  BY <1>1, <1>4, <1>5, <2>2, <2>5, <2>6 DEF GoalsInv, OfGoal, SameAccount, Carries
  <1>12. NamesInv'
    BY <1>1 DEF NamesInv, Recorded
  <1>13. FormsTypeOK'
    <2>1. nextId' \in 1..(MaxIds + 1) /\ goalOf' \in [Ids -> 0..MaxGoals] /\ doubt' \subseteq 0..MaxGoals
      <3>1. MaxIds \in Nat
        BY BrowserAssumption
      <3>. QED  BY <1>1, <3>1 DEF FormsTypeOK, Ids
    <2>. QED  BY <1>1, <1>3, <1>4, <2>1 DEF FormsTypeOK
  <1>14. StockInv'
    BY <1>1, <1>4, StockLater DEF Movements, Recorded
  <1>. QED  BY <1>8, <1>9, <1>10, <1>11, <1>12, <1>13, <1>14 DEF IInv

----------------------------------------------------------------------------
(* A new form: with an id nobody has seen, or with none.                   *)

LEMMA NewFormInv ==
  ASSUME IInv, form' \in Form, form'.sent = None, form'.phase # "failed", flight' = None,
         orphan' = orphan \/ Goes(orphan, orphan'), UNCHANGED <<late, ledger>>,
         doubt \subseteq doubt', goal' \in {goal, goal + 1},
         \/ /\ form'.kind \in Drawn /\ form'.id = nextId /\ nextId \in Ids
            /\ nextId' = nextId + 1 /\ goalOf' = [goalOf EXCEPT ![nextId] = goal']
            /\ goal' \in 0..MaxGoals
            /\ goal' = goal /\ goal \notin doubt' => OfGoal(goal) = {}
         \/ /\ form'.kind \in Single /\ form'.id = None /\ UNCHANGED <<nextId, goalOf>>
            /\ goal' = goal => form'.phase # "editing"
  PROVE  FormInv' /\ FlightsInv' /\ KnownInv' /\ NamesInv' /\ GoalsInv'
  <1>1. /\ FormsTypeOK /\ FormInv /\ FlightsInv /\ KnownInv /\ NamesInv /\ GoalsInv
        /\ form' # None /\ nextId \in Nat /\ nextId' \in Nat /\ nextId <= nextId'
        /\ goal \in Nat
    BY NoneAssumption DEF IInv, FormsTypeOK
  <1>2. Known' \subseteq Known
    <2>1. \A r \in Request : r # form'.sent
      BY NoneAssumption
    <2>. QED  BY <1>1, <2>1 DEF Known, Carries, IsRecorded, Goes
  <1>3. Possible' \subseteq Possible
    BY DEF Possible, Carries, IsRecorded, Goes
  <1>4. Possible \subseteq Known /\ \A r \in Known : r.id \in Ids /\ r.id \in Nat /\ r.id < nextId
    BY <1>1 DEF Possible, Known, KnownInv, Request, Ids
  <1>5. \A r \in Known : r.id # form'.id
    BY <1>1, <1>4, NoneAssumption
  <1>6. \A k \in Single : k \notin Drawn /\ k \notin Frozen /\ k # "count"
    BY DEF Single, Drawn, Moves, Frozen, Dialogs
  <1>7. form'.kind \in Drawn => form'.id \in Ids /\ form'.id < nextId' /\ goalOf'[form'.id] = goal'
    BY <1>1, <1>6 DEF FormsTypeOK
  <1>8. FormInv'
    BY <1>2, <1>5, <1>7 DEF FormInv
  <1>9. FlightsInv'
    <2>1. AnswerInv(orphan)' /\ AnswerInv(flight)'
      BY <1>1 DEF AnswerInv, FlightsInv, Goes
    <2>2. orphan' # None => orphan'.req \in Known
      <3>1. orphan' # None => orphan # None /\ orphan'.req = orphan.req
        BY DEF Goes
      <3>. QED  BY <1>1, <3>1 DEF Known, Carries, FormsTypeOK, Flight
    <2>. QED  BY <1>5, <2>1, <2>2 DEF FlightsInv
  <1>10. KnownInv'
    BY <1>1, <1>2, <1>4 DEF KnownInv, Agree
  <1>11. NamesInv'
    BY <1>1 DEF NamesInv, Recorded
  <1>12. GoalsInv'
    <2>1. \A r \in Possible : goalOf'[r.id] = goalOf[r.id] /\ goalOf[r.id] \in Nat /\ goalOf[r.id] <= goal
      BY <1>1, <1>4 DEF FormsTypeOK, GoalsInv
    <2>2. \A i \in Ids : goalOf'[i] <= goal'
      <3>1. \A i \in Ids : goalOf[i] \in Nat /\ goalOf[i] <= goal
        BY <1>1, BrowserAssumption DEF FormsTypeOK, GoalsInv
      <3>2. goal' \in Nat /\ goal <= goal'
        BY <1>1
      <3>3. \A i \in Ids : goalOf[i] <= goal'
        BY <1>1, <3>1, <3>2
      <3>4. \A i \in Ids : goalOf'[i] = goalOf[i] \/ goalOf'[i] = goal'
        BY <1>1 DEF FormsTypeOK
      <3>. QED  BY <3>2, <3>3, <3>4
    <2>3. \A r, s \in Possible' :
            goalOf'[r.id] = goalOf'[s.id] /\ goalOf'[r.id] \notin doubt'
              => r.id = s.id \/ SameAccount(r, s)
      BY <1>1, <1>3, <2>1 DEF GoalsInv, SameAccount
    <2>4. ASSUME goal' \notin doubt', NEW r \in Possible, goalOf'[r.id] = goal'
          PROVE  goal' = goal /\ form'.kind \in Single /\ form'.phase # "editing"
      <3>1. goal' = goal
        BY <1>1, <2>1, <2>4
      <3>2. r \in OfGoal(goal)
        BY <2>1, <2>4, <3>1 DEF OfGoal
      <3>. QED  BY <2>4, <3>1, <3>2
    <2>. QED  BY <1>3, <1>6, <2>2, <2>3, <2>4 DEF GoalsInv, OfGoal, SameAccount
  <1>. QED  BY <1>8, <1>9, <1>10, <1>11, <1>12

LEMMA BlankForm ==
  ASSUME NEW k \in Kinds
  PROVE  /\ Blank(k) \in Form /\ Blank(k).kind = k /\ Blank(k).id = None /\ Blank(k).sent = None
         /\ Blank(k).phase = "editing" /\ Blank(k).unsure = FALSE /\ Blank(k) # None
  <1>1. /\ Blank(k) \in Form /\ Blank(k).kind = k /\ Blank(k).id = None /\ Blank(k).sent = None
        /\ Blank(k).phase = "editing" /\ Blank(k).unsure = FALSE
    BY DEF Blank, Form
  <1>. QED  BY <1>1, NoneAssumption

LEMMA DrawnForm ==
  ASSUME NEW f \in Form, NEW i \in Ids
  PROVE  LET g == [f EXCEPT !.id = i] IN
         g \in Form /\ g.kind = f.kind /\ g.id = i /\ g.sent = f.sent /\ g.phase = f.phase
  BY DEF Form

LEMMA OpenInv ==
  ASSUME IInv, NEW k \in Kinds, Open(k)
  PROVE  IInv'
  <1> DEFINE f == IF k = "receive" /\ cache["choices"].held
                  THEN ReceiptAfterRead(Blank(k), cache["choices"].offers) ELSE Blank(k)
  <1>1. /\ FormsTypeOK /\ FlightsInv /\ StockInv /\ form = None /\ goal < MaxGoals
        /\ plan # <<>> /\ plan' = Tail(plan) /\ goal' = goal + 1
        /\ IF k \in Drawn
           THEN /\ nextId \in Ids /\ form' = [f EXCEPT !.id = nextId] /\ nextId' = nextId + 1
                /\ goalOf' = [goalOf EXCEPT ![nextId] = goal']
           ELSE form' = f /\ UNCHANGED <<nextId, goalOf>>
        /\ orphan' = IF orphan # None /\ orphan.req.kind # k THEN [orphan EXCEPT !.parent = FALSE] ELSE orphan
        /\ Attend({})
        /\ UNCHANGED <<signedIn, alive, flight, late, ledger, offered, changes, cache, told, doubt>>
    BY DEF IInv, Open, Draw, network, shop
  <1>2. f \in Form /\ f.kind = k /\ f.id = None /\ f.sent = None /\ f.phase = "editing"
    <2>1. cache["choices"].offers \in SUBSET Bodies
      BY <1>1 DEF FormsTypeOK, Keys, Copy
    <2>2. /\ Blank(k) \in Form /\ Blank(k).kind = k /\ Blank(k).id = None /\ Blank(k).sent = None
          /\ Blank(k).phase = "editing"
      BY BlankForm
    <2>3. \A o \in SUBSET Bodies :
            LET g == ReceiptAfterRead(Blank(k), o)
            IN  g \in Form /\ g.kind = k /\ g.id = None /\ g.sent = None /\ g.phase = "editing"
      BY <2>2, AfterReadForm DEF SameAttempt
    <2>. QED  BY <2>1, <2>2, <2>3
  <1> HIDE DEF f
  <1>3. /\ form' \in Form /\ form'.kind = k /\ form'.sent = None /\ form'.phase = "editing"
        /\ form'.id = IF k \in Drawn THEN nextId ELSE None
    <2>1. CASE k \in Drawn
      <3>1. nextId \in Ids /\ form' = [f EXCEPT !.id = nextId]
        BY <1>1, <2>1
      <3>. QED  BY <1>2, <2>1, <3>1, DrawnForm
    <2>2. CASE k \notin Drawn
      BY <1>1, <1>2, <2>2
    <2>. QED  BY <2>1, <2>2
  <1>4. flight = None
    BY <1>1 DEF FlightsInv
  <1>5. orphan' \in Flight \cup {None} /\ (orphan' = orphan \/ Goes(orphan, orphan'))
    <2>1. ASSUME NEW g \in Flight
          PROVE  [g EXCEPT !.parent = FALSE] \in Flight /\ Goes(g, [g EXCEPT !.parent = FALSE])
      BY NoneAssumption DEF Flight, Goes
    <2>. QED  BY <1>1, <2>1 DEF FormsTypeOK
  <1>6. goal \in Nat /\ MaxGoals \in Nat /\ MaxIds \in Nat /\ goal' \in 0..MaxGoals /\ goal' # goal
    BY <1>1, BrowserAssumption DEF FormsTypeOK
  <1>7. FormInv' /\ FlightsInv' /\ KnownInv' /\ NamesInv' /\ GoalsInv'
    <2>1. k \in Single <=> k \notin Drawn
      BY KindsAreDisjoint
    <2>. QED  BY <1>1, <1>3, <1>4, <1>5, <1>6, <2>1, NewFormInv
  <1>8. FormsTypeOK'
    <2>1. plan' \in Seq(Kinds)
      BY <1>1 DEF FormsTypeOK
    <2>2. nextId' \in 1..(MaxIds + 1) /\ goalOf' \in [Ids -> 0..MaxGoals]
      <3>1. nextId \in 1..(MaxIds + 1) /\ goalOf \in [Ids -> 0..MaxGoals]
        BY <1>1 DEF FormsTypeOK
      <3>2. CASE k \in Drawn
        <4>1. nextId \in 1..MaxIds /\ nextId' = nextId + 1 /\ goalOf' = [goalOf EXCEPT ![nextId] = goal']
          BY <1>1, <3>2 DEF Ids
        <4>2. goal' \in 0..MaxGoals /\ MaxIds \in Nat
          BY <1>6
        <4>3. nextId' \in 1..(MaxIds + 1)
          BY <4>1, <4>2
        <4>4. goalOf' \in [Ids -> 0..MaxGoals]
          BY <3>1, <4>1, <4>2
        <4>. QED  BY <4>3, <4>4
      <3>3. CASE k \notin Drawn
        BY <1>1, <3>1, <3>3
      <3>. QED  BY <3>2, <3>3
    <2>3. reading' \in [Keys -> Reading \cup {None, Pending}]
      BY <1>1, AttendTypes
    <2>. QED  BY <1>1, <1>3, <1>5, <1>6, <2>1, <2>2, <2>3 DEF FormsTypeOK
  <1>9. StockInv'
    BY <1>1, AttendLeaves, StockLater DEF Movements, Recorded, Keys
  <1>. QED  BY <1>7, <1>8, <1>9 DEF IInv

LEMMA StartsNewInv ==
  ASSUME IInv, NEW k \in Frozen, NEW kept \in Bodies \cup {None}, NEW refetched,
         StartsNew(k, kept, refetched)
  PROVE  IInv'
  <1> DEFINE f == [Blank(k) EXCEPT !.fields = kept, !.prefilled = form.prefilled]
  <1>1. /\ FormsTypeOK /\ FormInv /\ FlightsInv /\ KnownInv /\ GoalsInv /\ StockInv
        /\ form # None /\ form \in Form /\ form.kind = k /\ flight = None
        /\ form.phase \in {"failed", "succeeded"}
        /\ goal' = IF form.phase = "succeeded" THEN goal + 1 ELSE goal
        /\ goal' <= MaxGoals /\ nextId \in Ids /\ form' = [f EXCEPT !.id = nextId]
        /\ nextId' = nextId + 1 /\ goalOf' = [goalOf EXCEPT ![nextId] = goal']
        /\ doubt' = IF form.phase = "failed" /\ (form.unsure \/ form.sent \in late \/ form.id \in Recorded)
                    THEN doubt \cup {goal} ELSE doubt
        /\ Attend(refetched)
        /\ UNCHANGED <<signedIn, alive, flight, orphan, late, ledger, offered, changes, cache,
                       plan, told>>
    BY DEF IInv, FormsTypeOK, StartsNew, Is, Busy, Draw, network, shop
  <1>2. f \in Form /\ f.kind = k /\ f.sent = None /\ f.phase = "editing"
    BY <1>1 DEF Blank, Form, Frozen, Kinds, Drawn, Moves
  <1> HIDE DEF f
  <1>3. form' \in Form /\ form'.kind = k /\ form'.id = nextId /\ form'.sent = None
        /\ form'.phase = "editing"
    BY <1>1, <1>2, DrawnForm
  <1>4. /\ goal \in Nat /\ MaxGoals \in Nat /\ MaxIds \in Nat /\ goal' \in 0..MaxGoals
        /\ goal' \in {goal, goal + 1} /\ k \in Drawn /\ doubt \subseteq doubt'
    BY <1>1, BrowserAssumption DEF FormsTypeOK, Drawn, Moves
  <1>5. ASSUME goal' = goal, goal \notin doubt' PROVE OfGoal(goal) = {}
    <2>1. /\ form.phase = "failed" /\ form.sent \notin late /\ form.id \notin Recorded
          /\ goal \notin doubt
      BY <1>1, <1>4, <1>5
    <2>2. form.sent # None /\ form.sent.kind = k /\ form.sent.id = form.id /\ form.sent \in Request
      BY <1>1, <2>1 DEF FormInv, Form
    <2>3. form.sent \in Known /\ k \in Fixed
      BY <1>1, <2>2 DEF Known, Fixed
    <2>4. SUFFICES ASSUME NEW r \in OfGoal(goal) PROVE FALSE
      OBVIOUS
    <2>5. r \in Possible /\ r \in Request /\ r.id = form.id
      BY <1>1, <1>4, <2>1, <2>4 DEF GoalsInv, OfGoal, Possible
    <2>6. r \in late
      <3>1. ~IsRecorded(r)
        BY <2>1, <2>5 DEF IsRecorded, Recorded, Request
      <3>2. ~Carries(orphan, r)
        BY <1>1, <2>5 DEF Carries, FlightsInv
      <3>. QED  BY <1>1, <2>5, <3>1, <3>2 DEF Possible, Carries
    <2>7. r = form.sent
      <3>1. r \in Known
        BY <2>5, <2>6 DEF Known
      <3>2. Agree(form.sent, r)
        BY <1>1, <2>2, <2>3, <2>5, <3>1 DEF KnownInv
      <3>. QED  BY <2>2, <2>3, <2>5, <3>2, SameRequest DEF Agree
    <2>. QED  BY <2>1, <2>6, <2>7
  <1>7. FormInv' /\ FlightsInv' /\ KnownInv' /\ NamesInv' /\ GoalsInv'
    BY <1>1, <1>3, <1>4, <1>5, NewFormInv
  <1>8. FormsTypeOK'
    <2>1. nextId' \in 1..(MaxIds + 1) /\ goalOf' \in [Ids -> 0..MaxGoals] /\ doubt' \subseteq 0..MaxGoals
      BY <1>1, <1>4 DEF FormsTypeOK, Ids
    <2>. QED  BY <1>1, <1>3, <1>4, <2>1, AttendTypes DEF FormsTypeOK
  <1>9. StockInv'
    BY <1>1, AttendLeaves, StockLater DEF Movements, Recorded, Keys
  <1>. QED  BY <1>7, <1>8, <1>9 DEF IInv

----------------------------------------------------------------------------
(* An attempt is over, as far as its form can tell.                        *)

LEMMA HearsWhat ==
  ASSUME FormsTypeOK, NEW f \in Flight, NEW o, Hears(f, o)
  PROVE  /\ late' \subseteq late \cup {f.req} /\ (late' # late => f.stage = "out")
         /\ o \notin Unknown => f.stage = "back" /\ o = f.answer /\ late' = late
  BY DEF Hears, Unknown

LEMMA LearnsInv ==
  ASSUME IInv, flight # None, NEW o, Hears(flight, o), flight' = None,
         form' \in Form, form'.kind = form.kind, form'.id = form.id, form'.sent = form.sent,
         form.kind \in Frozen => form'.phase # "editing",
         form.kind \in Single /\ (form.unsure \/ o \in Unknown) => form'.unsure,
         form.kind \in Single => o \in Unknown \cup {"refused", "replayed"},
         UNCHANGED <<orphan, ledger, nextId, goal, goalOf, doubt>>
  PROVE  FormInv' /\ FlightsInv' /\ KnownInv' /\ NamesInv' /\ GoalsInv'
  <1>1. /\ FormsTypeOK /\ FormInv /\ FlightsInv /\ KnownInv /\ NamesInv /\ GoalsInv
        /\ flight \in Flight /\ form # None /\ form \in Form /\ form' # None
        /\ form.sent = flight.req /\ flight.req.id = form.id /\ flight.req.kind = form.kind
        /\ orphan # None => orphan.req.id # flight.req.id
    BY FlightIsTheForms, NoneAssumption DEF IInv
  <1>2. flight.req \in Request /\ flight.req # None
    BY <1>1, NoneAssumption DEF Flight
  <1>3. /\ late' \subseteq late \cup {flight.req} /\ (late' # late => flight.stage = "out")
        /\ o \notin Unknown => flight.stage = "back" /\ o = flight.answer /\ late' = late
    BY <1>1, HearsWhat
  <1>4. late' \subseteq Possible /\ Possible \subseteq Known
    BY <1>1, <1>2, <1>3, LateIsPossible DEF Possible, Known, Carries
  <1>5. Known' \subseteq Known /\ Possible' \subseteq Possible
    BY <1>1, <1>4 DEF Known, Possible, Carries, IsRecorded
  <1>6. FormInv'
    BY <1>1, <1>2 DEF FormInv
  <1>7. FlightsInv'
    <2>1. AnswerInv(orphan)'
      BY <1>1, <1>3 DEF FlightsInv, AnswerInv
    <2>. QED  BY <1>1, <2>1 DEF FlightsInv, AnswerInv
  <1>8. KnownInv' /\ NamesInv'
    BY <1>1, <1>5 DEF KnownInv, Agree, NamesInv, Recorded
  <1>9. GoalsInv'
    <2>1. ASSUME form.kind \in Single, goal \notin doubt, NEW r \in Possible', goalOf[r.id] = goal
          PROVE  form'.unsure /\ (form.kind = "user" => r.kind = "user" /\ r.body = form.sent.body)
      <3>1. form.phase = "editing" /\ r \in OfGoal(goal)
        BY <1>1, <1>5, <2>1 DEF FormInv, OfGoal
      <3>2. CASE r # flight.req
        <4>1. ~Carries(flight, r)
          BY <3>2 DEF Carries
        <4>. QED  BY <1>1, <2>1, <3>1, <4>1 DEF GoalsInv
      <3>3. CASE r = flight.req
        <4>1. o \in Unknown
          <5>1. SUFFICES ASSUME o \notin Unknown PROVE FALSE
            OBVIOUS
          <5>2. flight.answer = "refused" /\ late' = late
            BY <1>1, <1>3, <2>1, <5>1 DEF FlightsInv, AnswerInv, Fixed
          <5>3. r \notin late /\ ledger[r.id] = None
            BY <1>1, <2>1, <3>3, <5>2 DEF FlightsInv, AnswerInv
          <5>4. ~Carries(orphan, r)
            BY <1>1, <3>3 DEF Carries
          <5>. QED  BY <2>1, <5>2, <5>3, <5>4 DEF Possible, Carries, IsRecorded
        <4>. QED  BY <1>1, <2>1, <3>3, <4>1
      <3>. QED  BY <3>2, <3>3
    <2>2. \A r \in Possible' : form.kind \in Drawn /\ goal \notin doubt /\ goalOf[r.id] = goal => r.id = form.id
      BY <1>1, <1>5 DEF GoalsInv, OfGoal
    <2>3. \A r, s \in Possible' :
            goalOf[r.id] = goalOf[s.id] /\ goalOf[r.id] \notin doubt => r.id = s.id \/ SameAccount(r, s)
      BY <1>1, <1>5 DEF GoalsInv
    <2>4. \A i \in Ids : goalOf[i] <= goal
      BY <1>1 DEF GoalsInv
    <2>. QED  BY <2>1, <2>2, <2>3, <2>4 DEF GoalsInv, OfGoal, SameAccount
  <1>. QED  BY <1>6, <1>7, <1>8, <1>9

FailedAs(f, o, p, u) == [f EXCEPT !.phase = p, !.error = o, !.unsure = u]

LEMMA FailedForm ==
  ASSUME NEW f \in Form, NEW o \in Answers \cup Unknown, NEW p \in {"editing", "failed"},
         NEW u \in BOOLEAN
  PROVE  LET g == FailedAs(f, o, p, u) IN
         g \in Form /\ g.kind = f.kind /\ g.id = f.id /\ g.sent = f.sent /\ g.phase = p /\ g.unsure = u
  BY DEF FailedAs, Form

LEMMA FailsInv ==
  ASSUME IInv, form # None, NEW k \in Kinds, NEW o \in Answers \cup Unknown,
         NEW p \in {"editing", "failed"}, NEW refetched,
         Fails(k, o, Failed(o, p), refetched), k \in Frozen <=> p = "failed"
  PROVE  IInv'
  <1>1. /\ FormsTypeOK /\ FormInv /\ FlightsInv /\ StockInv /\ form \in Form /\ form.kind = k
        /\ flight # None /\ flight \in Flight /\ Hears(flight, o) /\ flight' = None
        /\ o # "recorded"
        /\ UNCHANGED <<alive, orphan, ledger, offered, changes, plan, nextId, goal, goalOf, told, doubt>>
    BY DEF IInv, FormsTypeOK, Fails, Is, Hears, shop, person, ghosts
  <1>2. late' \subseteq late \cup {flight.req} /\ (o \notin Unknown => late' = late)
    BY <1>1, HearsWhat
  <1>3. late' \subseteq Request
    BY <1>1, <1>2 DEF FormsTypeOK, Flight
  <1>4. CASE o = "expired"
    <2>1. signedIn' = FALSE /\ form' = None /\ cache' = EmptyCache /\ reading' = NoReads
      BY <1>4 DEF Fails, SessionEnds
    <2>2. orphan' = None \/ Goes(orphan, orphan')
      BY <1>1 DEF Goes
    <2>3. late' = late
      BY <1>2, <1>4 DEF Unknown
    <2>4. FormInv' /\ FlightsInv' /\ KnownInv' /\ NamesInv' /\ GoalsInv'
      BY <1>1, <2>1, <2>2, <2>3, ClosesInv, LateIsPossible
    <2>5. FormsTypeOK'
      BY <1>1, <1>3, <2>1, EmptyTypes DEF FormsTypeOK
    <2>6. StockInv'
      BY <1>1, <2>1, EmptyTypes, StockLater DEF Movements, Recorded, Keys
    <2>. QED  BY <2>4, <2>5, <2>6 DEF IInv
  <1>5. CASE o # "expired"
    <2> DEFINE u == o \in Unknown \/ (form.kind \notin Drawn /\ form.unsure)
    <2>1. form' = FailedAs(form, o, p, u) /\ u \in BOOLEAN
          /\ UNCHANGED <<signedIn, cache>> /\ Attend(refetched)
      BY <1>1, <1>5 DEF Fails, Failed, FailedAs, Form
    <2> HIDE DEF u
    <2>2. /\ form' \in Form /\ form'.kind = form.kind /\ form'.id = form.id
          /\ form'.sent = form.sent /\ form'.phase = p /\ form'.unsure = u
      BY <1>1, <2>1, FailedForm
    <2>3. k \in Single /\ (form.unsure \/ o \in Unknown) => form'.unsure
      BY <1>1, <2>2, KindsAreDisjoint DEF u
    <2>4. o \in Unknown \cup {"refused", "replayed"}
      BY <1>1, <1>5 DEF Answers, Unknown
    <2>5. FormInv' /\ FlightsInv' /\ KnownInv' /\ NamesInv' /\ GoalsInv'
      BY <1>1, <2>2, <2>3, <2>4, LearnsInv
    <2>6. FormsTypeOK'
      BY <1>1, <1>3, <2>1, <2>2, AttendTypes DEF FormsTypeOK
    <2>7. StockInv'
      BY <1>1, <2>1, <2>2, AttendLeaves, StockLater, NoneAssumption DEF Movements, Recorded, Keys
    <2>. QED  BY <2>5, <2>6, <2>7 DEF IInv
  <1>. QED  BY <1>4, <1>5

----------------------------------------------------------------------------
(* A command is heard to be recorded.                                      *)

LEMMA HeardIsRecorded ==
  ASSUME IInv, NEW f \in {flight, orphan}, f # None, Hears(f, "recorded")
  PROVE  /\ late' = late /\ f \in Flight
         /\ f.req.kind \in Moves => f.req.id \in Movements
  <1>1. FormsTypeOK /\ FlightsInv /\ KnownInv /\ f \in Flight /\ f.req \in Request
    BY DEF IInv, FormsTypeOK, Flight
  <1>2. late' = late /\ f.answer = "recorded"
    BY <1>1, HearsWhat DEF Unknown
  <1>3. f.req \in Known /\ f.req.id \in Ids /\ ledger[f.req.id] # None
    BY <1>1, <1>2 DEF FlightsInv, AnswerInv, Known, Carries, Request
  <1> DEFINE s == [kind |-> ledger[f.req.id].kind, id |-> f.req.id, body |-> ledger[f.req.id].body]
  <1>4. s \in Known
    BY <1>1, <1>3 DEF Known, IsRecorded, FormsTypeOK, Command, Request
  <1>5. ledger[f.req.id].kind = f.req.kind
    BY <1>1, <1>3, <1>4 DEF KnownInv, Agree
  <1>. QED  BY <1>1, <1>2, <1>3, <1>5 DEF Movements, Recorded

LEMMA SucceedsFrame ==
  ASSUME IInv, form # None, NEW k \in Kinds, NEW g, NEW invalidated, Succeeds(k, g, invalidated),
         k \in Moves => "stock" \in invalidated
  PROVE  /\ StockInv' /\ form' = g /\ flight' = None /\ flight # None /\ form.kind = k
         /\ form \in Form /\ Hears(flight, "recorded")
         /\ cache' \in [Keys -> Copy] /\ reading' \in [Keys -> Reading \cup {None, Pending}]
         /\ told' \subseteq Ids
         /\ UNCHANGED <<signedIn, alive, orphan, late, ledger, offered, changes, plan, doubt>>
  <1>1. /\ FormsTypeOK /\ FormInv /\ FlightsInv /\ StockInv /\ form.kind = k
        /\ flight # None /\ Hears(flight, "recorded") /\ flight' = None /\ form' = g
        /\ Keep(invalidated) /\ Attend(invalidated)
        /\ told' = IF k \in Moves THEN told \cup {form.id} ELSE told
        /\ UNCHANGED <<signedIn, alive, orphan, ledger, offered, changes, plan, doubt>>
    BY DEF IInv, Succeeds, Is, Hears, shop
  <1>2. form \in Form /\ flight.req.id = form.id /\ flight.req.kind = k
    BY <1>1, FlightIsTheForms
  <1>3. late' = late /\ (k \in Moves => form.id \in Movements)
    BY <1>1, <1>2, HeardIsRecorded
  <1>4. cache' \in [Keys -> Copy] /\ reading' \in [Keys -> Reading \cup {None, Pending}]
    BY <1>1, KeepLeaves, AttendTypes
  <1>5. Movements' = Movements /\ Movements \subseteq Ids
    BY <1>1 DEF Movements, Recorded
  <1>6. "stock" \in Keys /\ (form' = None => \A i \in Keys : reading'[i] = None)
    BY <1>1, AttendLeaves DEF Keys
  <1>7. StockInv'
    <2>1. CASE k \in Moves
      <3>1. told' \subseteq Movements'
        BY <1>1, <1>3, <1>5, <2>1 DEF StockInv
      <3>2. ~cache'["stock"].trusted /\ reading'["stock"] \in {None, Pending}
        BY <1>1, <1>6, <2>1, KeepLeaves, AttendLeaves
      <3>. QED  BY <1>1, <1>6, <3>1, <3>2, StockHeard
    <2>2. CASE k \notin Moves
      <3>1. cache'["stock"] = cache["stock"] \/ ~cache'["stock"].trusted
        BY <1>1, KeepLeaves
      <3>2. reading'["stock"] \in {None, Pending, reading["stock"]}
        BY <1>1, <1>6, AttendLeaves
      <3>. QED  BY <1>1, <1>5, <1>6, <2>2, <3>1, <3>2, StockLater
    <2>. QED  BY <2>1, <2>2
  <1>8. told' \subseteq Ids
    BY <1>1, <1>3, <1>5 DEF FormsTypeOK
  <1>. QED  BY <1>1, <1>2, <1>3, <1>4, <1>7, <1>8

LEMMA SucceededForm ==
  ASSUME NEW f \in Form
  PROVE  LET g == [f EXCEPT !.phase = "succeeded", !.error = None] IN
         g \in Form /\ g.kind = f.kind /\ g.id = f.id /\ g.sent = f.sent /\ g.phase = "succeeded"
  BY DEF Form

LEMMA FrozenSucceedsInv ==
  ASSUME IInv, form # None, NEW k \in Frozen,
         Succeeds(k, [form EXCEPT !.phase = "succeeded", !.error = None], {"stock"}),
         UNCHANGED <<nextId, goal, goalOf>>
  PROVE  IInv'
  <1> DEFINE g == [form EXCEPT !.phase = "succeeded", !.error = None]
  <1>1. k \in Kinds /\ k \in Moves /\ k \notin Single
    BY DEF Kinds, Drawn, Moves, Frozen, Single
  <1>2. /\ StockInv' /\ form' = g /\ flight' = None /\ flight # None /\ form.kind = k
        /\ form \in Form /\ Hears(flight, "recorded")
        /\ cache' \in [Keys -> Copy] /\ reading' \in [Keys -> Reading \cup {None, Pending}]
        /\ told' \subseteq Ids
        /\ UNCHANGED <<signedIn, alive, orphan, late, ledger, offered, changes, plan, doubt>>
    BY <1>1, SucceedsFrame
  <1>3. /\ form' \in Form /\ form'.kind = form.kind /\ form'.id = form.id
        /\ form'.sent = form.sent /\ form'.phase = "succeeded"
    BY <1>2, SucceededForm
  <1>4. FormInv' /\ FlightsInv' /\ KnownInv' /\ NamesInv' /\ GoalsInv'
    BY <1>1, <1>2, <1>3, LearnsInv
  <1>5. FormsTypeOK'
    BY <1>2, <1>3 DEF IInv, FormsTypeOK
  <1>. QED  BY <1>2, <1>4, <1>5 DEF IInv

LEMMA ClosesFormInv ==
  ASSUME IInv, form # None, NEW k \in Kinds, NEW invalidated, Closes(k, invalidated),
         k \in Moves => "stock" \in invalidated
  PROVE  IInv'
  <1>1. /\ StockInv' /\ form' = None /\ flight' = None
        /\ cache' \in [Keys -> Copy] /\ reading' \in [Keys -> Reading \cup {None, Pending}]
        /\ told' \subseteq Ids
        /\ UNCHANGED <<signedIn, alive, orphan, late, ledger, offered, changes, plan, doubt>>
    BY SucceedsFrame DEF Closes
  <1>2. FormsTypeOK /\ UNCHANGED <<nextId, goal, goalOf>> /\ (orphan' = None \/ Goes(orphan, orphan'))
    BY <1>1 DEF IInv, Closes, Goes
  <1>3. FormInv' /\ FlightsInv' /\ KnownInv' /\ NamesInv' /\ GoalsInv'
    BY <1>1, <1>2, ClosesInv, LateIsPossible
  <1>4. FormsTypeOK'
    BY <1>1, <1>2 DEF FormsTypeOK
  <1>. QED  BY <1>1, <1>3, <1>4 DEF IInv

LEMMA CountRecordedInv ==
  ASSUME IInv, CountRecorded
  PROVE  IInv'
  <1>1. form # None /\ nextId' = nextId + 1 /\ goal' = goal + 1 /\ goalOf' = [goalOf EXCEPT ![nextId] = goal']
    BY DEF CountRecorded
  <1>2. "count" \in Kinds /\ "count" \in Drawn /\ "count" \notin Moves
    BY DEF Kinds, Drawn, Moves, Frozen, Dialogs
  <1>3. /\ StockInv' /\ form' = [Blank("count") EXCEPT !.id = nextId] /\ flight' = None
        /\ flight # None /\ form.kind = "count"
        /\ cache' \in [Keys -> Copy] /\ reading' \in [Keys -> Reading \cup {None, Pending}]
        /\ told' \subseteq Ids
        /\ UNCHANGED <<signedIn, alive, orphan, late, ledger, offered, changes, plan, doubt>>
    BY <1>2, SucceedsFrame DEF CountRecorded
  <1>4. FormsTypeOK /\ nextId \in Ids /\ goal < MaxGoals
    BY <1>1, <1>3 DEF IInv, FormInv
  <1>5. /\ form' \in Form /\ form'.kind = "count" /\ form'.id = nextId /\ form'.sent = None
        /\ form'.phase = "editing"
    <2>1. /\ Blank("count") \in Form /\ Blank("count").kind = "count"
          /\ Blank("count").sent = None /\ Blank("count").phase = "editing"
      BY <1>2, BlankForm
    <2>. QED  BY <1>3, <1>4, <2>1, DrawnForm
  <1>6. goal \in Nat /\ MaxGoals \in Nat /\ MaxIds \in Nat /\ goal' \in 0..MaxGoals /\ goal' # goal
    BY <1>1, <1>4, BrowserAssumption DEF FormsTypeOK
  <1>7. FormInv' /\ FlightsInv' /\ KnownInv' /\ NamesInv' /\ GoalsInv'
    BY <1>1, <1>2, <1>3, <1>4, <1>5, <1>6, NewFormInv
  <1>8. FormsTypeOK'
    <2>1. nextId' \in 1..(MaxIds + 1)
      BY <1>1, <1>4, <1>6 DEF Ids
    <2>2. goalOf' \in [Ids -> 0..MaxGoals]
      BY <1>1, <1>4, <1>6 DEF FormsTypeOK
    <2>. QED  BY <1>3, <1>4, <1>5, <1>6, <2>1, <2>2 DEF FormsTypeOK
  <1>. QED  BY <1>3, <1>7, <1>8 DEF IInv

LEMMA UserCreatedInv ==
  ASSUME IInv, UserCreated
  PROVE  IInv'
  <1>1. form # None /\ UNCHANGED <<nextId, goal, goalOf>>
    BY DEF UserCreated
  <1>2. "user" \in Kinds /\ "user" \in Single /\ "user" \notin Moves
    BY DEF Kinds, Single, Drawn, Moves, Frozen, Dialogs
  <1>3. /\ StockInv' /\ form' = [Blank("user") EXCEPT !.phase = "succeeded"] /\ flight' = None
        /\ cache' \in [Keys -> Copy] /\ reading' \in [Keys -> Reading \cup {None, Pending}]
        /\ told' \subseteq Ids
        /\ UNCHANGED <<signedIn, alive, orphan, late, ledger, offered, changes, plan, doubt>>
    BY <1>2, SucceedsFrame DEF UserCreated
  <1>4. /\ form' \in Form /\ form'.kind = "user" /\ form'.id = None /\ form'.sent = None
        /\ form'.phase = "succeeded"
    BY <1>2, <1>3 DEF Blank, Form
  <1>5. FormInv' /\ FlightsInv' /\ KnownInv' /\ NamesInv' /\ GoalsInv'
    BY <1>1, <1>2, <1>3, <1>4, NewFormInv
  <1>6. FormsTypeOK'
    BY <1>1, <1>3, <1>4 DEF IInv, FormsTypeOK
  <1>. QED  BY <1>3, <1>5, <1>6 DEF IInv

LEMMA StartAnotherInv ==
  ASSUME IInv, startAnother
  PROVE  IInv'
  <1>1. /\ FormsTypeOK /\ FlightsInv /\ StockInv /\ form # None /\ form \in Form /\ form.kind = "user"
        /\ flight = None
        /\ UNCHANGED <<signedIn, alive, flight, orphan, late, ledger, offered, changes, cache,
                       reading, plan, nextId, goalOf, told, doubt>>
    BY DEF IInv, FormsTypeOK, startAnother, Is, Busy, network, shop, ghosts
  <1>2. "user" \in Kinds /\ "user" \in Single
    BY DEF Kinds, Single
  <1>3. CASE goal < MaxGoals /\ goal' = goal + 1 /\ form' = Blank("user")
    <2>1. /\ form' \in Form /\ form' # None /\ form'.kind = "user" /\ form'.id = None
          /\ form'.sent = None /\ form'.phase = "editing"
      BY <1>2, <1>3, BlankForm
    <2>2. goal \in Nat /\ MaxGoals \in Nat /\ goal' \in 0..MaxGoals /\ goal' # goal
      BY <1>1, <1>3, BrowserAssumption DEF FormsTypeOK
    <2>3. FormInv' /\ FlightsInv' /\ KnownInv' /\ NamesInv' /\ GoalsInv'
      BY <1>1, <1>2, <1>3, <2>1, <2>2, NewFormInv
    <2>4. FormsTypeOK'
      BY <1>1, <2>1, <2>2 DEF FormsTypeOK
    <2>5. StockInv'
      BY <1>1, <2>1, StockLater DEF Movements, Recorded
    <2>. QED  BY <2>3, <2>4, <2>5 DEF IInv
  <1>4. CASE form' = [form EXCEPT !.error = None] /\ goal' = goal
    <2>1. form' \in Form /\ SameAttempt(form', form)
      BY <1>1, <1>4 DEF Form, SameAttempt
    <2>2. SameForm
      BY <1>1, <2>1, NoneAssumption DEF SameForm
    <2>3. FormsTypeOK'
      BY <1>1, <1>4, <2>1 DEF FormsTypeOK
    <2>4. StockInv'
      BY <1>1, <2>2, StockLater DEF Movements, Recorded, SameForm
    <2>. QED  BY <1>1, <1>4, <2>2, <2>3, <2>4, PlainInv DEF IInv
  <1>. QED  BY <1>3, <1>4 DEF startAnother

----------------------------------------------------------------------------
(* Answers whose form has gone.                                            *)

(* The answer is no longer awaited; what is on screen stays.               *)
LEMMA ForgetsInv ==
  ASSUME IInv, orphan # None, orphan' = None, late' \subseteq late \cup {orphan.req},
         late' # late => orphan.stage = "out",
         UNCHANGED <<form, flight, ledger, nextId, goal, goalOf, doubt>>
  PROVE  FormInv' /\ FlightsInv' /\ KnownInv' /\ NamesInv' /\ GoalsInv'
  <1>1. /\ FormsTypeOK /\ FormInv /\ FlightsInv /\ NamesInv /\ orphan \in Flight
        /\ orphan.req \in Request
    BY DEF IInv, FormsTypeOK, Flight
  <1>2. late' \subseteq Possible /\ Possible \subseteq Known
    BY <1>1, LateIsPossible DEF Possible, Known, Carries
  <1>3. Known' \subseteq Known /\ Possible' \subseteq Possible
    BY <1>2 DEF Known, Possible, Carries, IsRecorded
  <1>4. FlightsInv'
    <2>1. AnswerInv(flight)'
      <3>1. flight # None => orphan.req.id # flight.req.id
        BY <1>1, FlightIsTheForms
      <3>. QED  BY <1>1, <3>1 DEF FlightsInv, AnswerInv
    <2>. QED  BY <1>1, <2>1 DEF FlightsInv, AnswerInv
  <1>5. FormInv' /\ KnownInv' /\ GoalsInv'
    <2>1. form' = form /\ flight' = flight
      OBVIOUS
    <2>2. form' = None \/ (SameForm /\ SameFlight)
      BY <2>1 DEF SameForm, SameAttempt, SameFlight
    <2>. QED  BY <1>3, <2>2, QuietInv
  <1>6. NamesInv'
    BY <1>1 DEF NamesInv, Recorded
  <1>. QED  BY <1>4, <1>5, <1>6

LEMMA OrphanSucceedsInv ==
  ASSUME IInv, OrphanSucceeds
  PROVE  IInv'
  <1> DEFINE ks == Invalidates(orphan.req.kind)
  <1>1. /\ FormsTypeOK /\ FlightsInv /\ StockInv /\ orphan # None /\ Hears(orphan, "recorded")
        /\ Keep(ks) /\ Attend(ks)
        /\ told' = IF orphan.req.kind \in Moves THEN told \cup {orphan.req.id} ELSE told
        /\ UNCHANGED <<signedIn, alive, ledger, offered, changes, plan, nextId, goal, goalOf, doubt>>
    BY DEF IInv, OrphanSucceeds, Hears, shop, person
  <1>2. /\ late' = late /\ orphan \in Flight
        /\ orphan.req.kind \in Moves => orphan.req.id \in Movements /\ "stock" \in ks
    BY <1>1, HeardIsRecorded DEF Invalidates
  <1> HIDE DEF ks
  <1>3. \/ form' = None /\ flight' = None /\ orphan' = flight
        \/ form' = form /\ flight' = flight /\ orphan' = None
    BY DEF OrphanSucceeds
  <1>4. FormInv' /\ FlightsInv' /\ KnownInv' /\ NamesInv' /\ GoalsInv'
    <2>1. CASE form' = None /\ flight' = None /\ orphan' = flight
      <3>1. orphan' = None \/ Goes(flight, orphan')
        BY <2>1 DEF Goes
      <3>2. late' \subseteq Possible /\ late' \subseteq late
        BY <1>1, <1>2, LateIsPossible
      <3>. QED  BY <1>1, <2>1, <3>1, <3>2, ClosesInv
    <2>2. CASE form' = form /\ flight' = flight /\ orphan' = None
      BY <1>1, <1>2, <2>2, ForgetsInv
    <2>. QED  BY <1>3, <2>1, <2>2
  <1>5. cache' \in [Keys -> Copy] /\ reading' \in [Keys -> Reading \cup {None, Pending}]
    BY <1>1, KeepLeaves, AttendTypes
  <1>6. Movements' = Movements /\ Movements \subseteq Ids
    BY <1>1 DEF Movements, Recorded
  <1>7. FormsTypeOK'
    BY <1>1, <1>2, <1>3, <1>5, <1>6 DEF FormsTypeOK
  <1>8. "stock" \in Keys /\ (form' = None => \A i \in Keys : reading'[i] = None)
    BY <1>1, AttendLeaves DEF Keys
  <1>9. StockInv'
    <2>1. CASE orphan.req.kind \in Moves
      <3>1. told' \subseteq Movements'
        BY <1>1, <1>2, <1>6, <2>1 DEF StockInv
      <3>2. ~cache'["stock"].trusted /\ reading'["stock"] \in {None, Pending}
        BY <1>1, <1>2, <1>8, <2>1, KeepLeaves, AttendLeaves
      <3>. QED  BY <1>1, <1>8, <3>1, <3>2, StockHeard
    <2>2. CASE orphan.req.kind \notin Moves
      <3>1. cache'["stock"] = cache["stock"] \/ ~cache'["stock"].trusted
        BY <1>1, KeepLeaves
      <3>2. reading'["stock"] \in {None, Pending, reading["stock"]}
        BY <1>1, <1>8, AttendLeaves
      <3>. QED  BY <1>1, <1>6, <1>8, <2>2, <3>1, <3>2, StockLater
    <2>. QED  BY <2>1, <2>2
  <1>. QED  BY <1>4, <1>7, <1>9 DEF IInv

LEMMA OrphanFailsInv ==
  ASSUME IInv, OrphanFails
  PROVE  IInv'
  <1>1. PICK o \in (Answers \cup Unknown) \ {"recorded"} :
          /\ Hears(orphan, o)
          /\ IF o = "expired" /\ signedIn
             THEN SessionEnds /\ flight' = None /\ orphan' = flight
             ELSE orphan' = None /\ UNCHANGED <<signedIn, form, flight, cache, reading>>
    BY DEF OrphanFails
  <1>2. /\ FormsTypeOK /\ FlightsInv /\ StockInv /\ orphan # None /\ orphan \in Flight
        /\ UNCHANGED <<alive, ledger, offered, changes, plan, nextId, goal, goalOf, told, doubt>>
    BY <1>1 DEF IInv, FormsTypeOK, OrphanFails, Hears, shop, person, ghosts
  <1>3. /\ late' \subseteq late \cup {orphan.req} /\ (late' # late => orphan.stage = "out")
        /\ o \notin Unknown => late' = late
    BY <1>1, <1>2, HearsWhat
  <1>4. late' \subseteq Request
    BY <1>2, <1>3 DEF FormsTypeOK, Flight
  <1>5. CASE o = "expired" /\ signedIn
    <2>1. /\ signedIn' = FALSE /\ form' = None /\ cache' = EmptyCache /\ reading' = NoReads
          /\ flight' = None /\ orphan' = flight
      BY <1>1, <1>5 DEF SessionEnds
    <2>2. orphan' = None \/ Goes(flight, orphan')
      BY <2>1 DEF Goes
    <2>3. late' = late
      BY <1>3, <1>5 DEF Unknown
    <2>4. FormInv' /\ FlightsInv' /\ KnownInv' /\ NamesInv' /\ GoalsInv'
      BY <1>2, <2>1, <2>2, <2>3, ClosesInv, LateIsPossible
    <2>5. FormsTypeOK'
      BY <1>2, <1>4, <2>1, EmptyTypes DEF FormsTypeOK
    <2>6. StockInv'
      BY <1>2, <2>1, EmptyTypes, StockLater DEF Movements, Recorded, Keys
    <2>. QED  BY <2>4, <2>5, <2>6 DEF IInv
  <1>6. CASE ~(o = "expired" /\ signedIn)
    <2>1. orphan' = None /\ UNCHANGED <<signedIn, form, flight, cache, reading>>
      BY <1>1, <1>6
    <2>2. FormInv' /\ FlightsInv' /\ KnownInv' /\ NamesInv' /\ GoalsInv'
      BY <1>2, <1>3, <2>1, ForgetsInv
    <2>3. FormsTypeOK'
      BY <1>2, <1>4, <2>1 DEF FormsTypeOK
    <2>4. StockInv'
      BY <1>2, <2>1, StockLater DEF Movements, Recorded, StockInv
    <2>. QED  BY <2>2, <2>3, <2>4 DEF IInv
  <1>. QED  BY <1>5, <1>6

----------------------------------------------------------------------------
(* Every step keeps the invariant.                                         *)

LEMMA FieldsAreBodies ==
  ASSUME FormsTypeOK, form # None
  PROVE  /\ form \in Form /\ form.fields \in Bodies \cup {None}
         /\ cache["choices"].offers \subseteq Bodies /\ cache["stock"].offers \subseteq Bodies
  BY DEF FormsTypeOK, Form, Keys, Copy

LEMMA BrowsesInv ==
  ASSUME IInv, Browses
  PROVE  IInv'
  BY OpenInv, LeaveInv, ReloadInv, AroundInv, ServerAnswersInv, OrphanAnsweredInv, LateArrivesInv,
     OrphanSucceedsInv, OrphanFailsInv DEF Browses

LEMMA ReadingInv ==
  ASSUME IInv, Reads
  PROVE  IInv'
  BY ReadsInv, FinishReadInv, ReadIsRefusedInv DEF Reads

LEMMA ReceivesInv ==
  ASSUME IInv, Receives
  PROVE  IInv'
  <1>1. FormsTypeOK /\ "receive" \in Frozen /\ "receive" \in Drawn /\ "receive" \in Kinds /\ "receive" # "count"
    BY DEF IInv, Frozen, Drawn, Moves, Kinds
  <1>2. CASE EditReceipt
    BY <1>1, <1>2, EditsInv, FieldsAreBodies DEF EditReceipt, Is, activeVariantChoices
  <1>3. CASE SubmitReceipt
    <2>1. form # None /\ Submits("receive", validateReceivingForm(form)) /\ form.fields \in Bodies
      BY <1>1, <1>3, FieldsAreBodies DEF SubmitReceipt, Submits, validateReceivingForm
    <2>. QED  BY <1>1, <2>1, SubmitsInv
  <1>4. CASE ReceiptRecorded
    BY <1>1, <1>4, FrozenSucceedsInv DEF ReceiptRecorded
  <1>5. CASE ReceiptFailed
    <2>1. PICK o \in Answers \cup Unknown :
            form # None /\ Fails("receive", o, Failed(o, "failed"), {})
      BY <1>5 DEF ReceiptFailed
    <2>. QED  BY <1>1, <2>1, FailsInv
  <1>6. CASE RetrySameReceipt
    BY <1>1, <1>6, RepeatsInv DEF RetrySameReceipt, Is, Busy
  <1>7. CASE StartNewReceipt
    BY <1>1, <1>7, StartsNewInv, FieldsAreBodies DEF StartNewReceipt
  <1>. QED  BY <1>2, <1>3, <1>4, <1>5, <1>6, <1>7 DEF Receives

LEMMA RemovesInv ==
  ASSUME IInv, Removes
  PROVE  IInv'
  <1>1. FormsTypeOK /\ "remove" \in Frozen /\ "remove" \in Drawn /\ "remove" \in Kinds /\ "remove" # "count"
    BY DEF IInv, Frozen, Drawn, Moves, Kinds
  <1>2. CASE ChooseVariant \/ EditRemoval
    <2>1. form # None /\ removableVariantChoices \in SUBSET Bodies
      BY <1>1, <1>2, FieldsAreBodies DEF ChooseVariant, EditRemoval, Is, removableVariantChoices
    <2>2. PICK b \in Bodies \cup {None} : Edits(b)
      BY <1>2, <2>1, PreferredIsOffered DEF ChooseVariant, EditRemoval
    <2>. QED  BY <2>1, <2>2, EditsInv
  <1>3. CASE SubmitRemoval
    <2>1. form # None /\ Submits("remove", validateRemovalForm(form)) /\ form.fields \in Bodies
      BY <1>1, <1>3, FieldsAreBodies DEF SubmitRemoval, Submits, validateRemovalForm, removableVariantChoices
    <2>. QED  BY <1>1, <2>1, SubmitsInv
  <1>4. CASE RemovalRecorded
    BY <1>1, <1>4, FrozenSucceedsInv DEF RemovalRecorded
  <1>5. CASE RemovalFailed
    <2>1. PICK o \in Answers \cup Unknown :
            form # None /\ Fails("remove", o, Failed(o, "failed"), IF BalancesAreStaleAfter(o) THEN {"stock"} ELSE {})
      BY <1>5 DEF RemovalFailed
    <2>. QED  BY <1>1, <2>1, FailsInv
  <1>6. CASE RetrySameRemoval
    BY <1>1, <1>6, RepeatsInv DEF RetrySameRemoval, Is, Busy
  <1>7. CASE StartNewRemoval
    <2>1. form # None /\ None \in Bodies \cup {None} /\ StartsNew("remove", None, {})
      BY <1>7 DEF StartNewRemoval, StartsNew, Is
    <2>. QED  BY <1>1, <2>1, StartsNewInv
  <1>. QED  BY <1>2, <1>3, <1>4, <1>5, <1>6, <1>7 DEF Removes

(* The forms that stay open for correction.                                *)
LEMMA StaysOpenInv ==
  ASSUME IInv, NEW k \in Kinds \ Frozen, StaysOpen(k)
  PROVE  IInv'
  <1>1. PICK o \in Answers \cup Unknown : form # None /\ Fails(k, o, Failed(o, "editing"), {})
    BY DEF StaysOpen
  <1>2. k \in Kinds /\ (k \in Frozen <=> "editing" = "failed")
    OBVIOUS
  <1>. QED  BY <1>1, <1>2, FailsInv

LEMMA TypesInv ==
  ASSUME IInv, NEW k, Types(k)
  PROVE  IInv'
  BY EditsInv DEF Types, Is

LEMMA ConfirmsInv ==
  ASSUME IInv, NEW k \in Drawn, Submits(k, form.fields # None), form # None,
         k = "count" => nextId \in Ids /\ goal < MaxGoals
  PROVE  IInv'
  <1>1. form.fields \in Bodies
    BY FieldsAreBodies DEF IInv, Submits
  <1>. QED  BY <1>1, SubmitsInv

LEMMA CorrectsInv ==
  ASSUME IInv, Corrects
  PROVE  IInv'
  <1>1. /\ {"adjust", "reverse", "reconcile"} \subseteq Moves
        /\ {"adjust", "reverse", "reconcile", "count"} \subseteq Drawn
        /\ {"adjust", "reverse", "reconcile", "count"} \subseteq Kinds \ Frozen
    BY DEF Frozen, Dialogs, Drawn, Moves, Kinds
  <1>2. CASE AdjustValues \/ ReverseValues \/ ReconcileValues \/ CountValues
    BY <1>2, TypesInv DEF AdjustValues, ReverseValues, ReconcileValues, CountValues
  <1>3. CASE ConfirmAdjust \/ ConfirmReverse \/ ConfirmReconcile \/ SubmitCount
    BY <1>1, <1>3, ConfirmsInv DEF ConfirmAdjust, ConfirmReverse, ConfirmReconcile, SubmitCount,
       validateAdjustmentForm, validateReconcileForm, validateCountForm
  <1>4. CASE AdjustDone \/ ReverseDone \/ ReconcileDone
    <2>1. form # None
      BY <1>4 DEF AdjustDone, ReverseDone, ReconcileDone, Closes, Succeeds, Is
    <2>. QED  BY <1>1, <1>4, <2>1, ClosesFormInv DEF AdjustDone, ReverseDone, ReconcileDone
  <1>5. CASE CountRecorded
    BY <1>5, CountRecordedInv
  <1>6. CASE AdjustFailed \/ ReverseFailed \/ ReconcileFailed \/ CountFailed
    BY <1>1, <1>6, StaysOpenInv DEF AdjustFailed, ReverseFailed, ReconcileFailed, CountFailed
  <1>. QED  BY <1>2, <1>3, <1>4, <1>5, <1>6 DEF Corrects

LEMMA RegistersInv ==
  ASSUME IInv, Registers
  PROVE  IInv'
  <1>1. /\ FormsTypeOK /\ {"product", "user"} \subseteq Single
        /\ {"product", "user"} \subseteq Kinds \ Frozen /\ "product" \notin Moves
    BY DEF IInv, Single, Frozen, Dialogs, Drawn, Moves, Kinds
  <1>2. CASE ProductValues \/ UserValues
    BY <1>2, TypesInv DEF ProductValues, UserValues
  <1>3. CASE SubmitProduct
    <2>1. form # None /\ SubmitsAnother("product", validateNewProductForm(form), form.unsure)
      BY <1>3 DEF SubmitProduct
    <2>2. form.fields \in Bodies
      BY <1>1, <2>1, FieldsAreBodies DEF SubmitsAnother, validateNewProductForm
    <2>. QED  BY <1>1, <2>1, <2>2, SubmitsAnotherInv
  <1>4. CASE SubmitUser
    <2>1. form # None /\ SubmitsAnother("user", validateNewUserForm(form),
                                        form.unsure /\ form.fields # form.sent.body)
      BY <1>4 DEF SubmitUser
    <2>2. form.fields \in Bodies
      BY <1>1, <2>1, FieldsAreBodies DEF SubmitsAnother, validateNewUserForm
    <2>. QED  BY <1>1, <2>1, <2>2, SubmitsAnotherInv
  <1>5. CASE ProductCreated
    <2>1. form # None
      BY <1>5 DEF ProductCreated, Closes, Succeeds, Is
    <2>. QED  BY <1>1, <1>5, <2>1, ClosesFormInv DEF ProductCreated
  <1>6. CASE UserCreated
    BY <1>6, UserCreatedInv
  <1>7. CASE ProductFailed \/ UserFailed
    BY <1>1, <1>7, StaysOpenInv DEF ProductFailed, UserFailed
  <1>8. CASE checkTheList \/ startAnother
    BY <1>8, CheckTheListInv, StartAnotherInv
  <1>. QED  BY <1>2, <1>3, <1>4, <1>5, <1>6, <1>7, <1>8 DEF Registers

LEMMA StepIInv == IInv /\ [Next]_vars => IInv'
  <1>1. SUFFICES ASSUME IInv, [Next]_vars PROVE IInv'
    OBVIOUS
  <1>2. CASE Next
    BY <1>1, <1>2, BrowsesInv, ReadingInv, ReceivesInv, RemovesInv, CorrectsInv, RegistersInv DEF Next
  <1>3. CASE UNCHANGED vars
    <2>1. UNCHANGED <<signedIn, alive, form, flight, orphan, late, ledger, offered, changes,
                      cache, reading, plan, nextId, goal, goalOf, told, doubt>>
      BY <1>3 DEF vars
    <2>2. FormsTypeOK' /\ StockInv'
      BY <1>1, <2>1 DEF IInv, FormsTypeOK, StockInv, StockKnowsOwnMovements, Movements, Recorded
    <2>. QED  BY <1>1, <2>1, <2>2, PlainInv DEF IInv
  <1>. QED  BY <1>1, <1>2, <1>3

LEMMA InitIInv == Init => IInv
  <1>1. SUFFICES ASSUME Init PROVE IInv
    OBVIOUS
  <1>2. FormsTypeOK
    <2>1. MaxIds \in Nat /\ MaxGoals \in Nat /\ MaxChanges \in Nat /\ plan \in Seq(Kinds)
      BY <1>1, BrowserAssumption DEF Init
    <2>2. nextId \in 1..(MaxIds + 1) /\ goal \in 0..MaxGoals /\ changes \in 0..MaxChanges
          /\ goalOf \in [Ids -> 0..MaxGoals]
      BY <1>1, <2>1 DEF Init
    <2>. QED  BY <1>1, <2>1, <2>2, EmptyTypes DEF Init, FormsTypeOK
  <1>3. Known = {} /\ Possible = {}
    BY <1>1 DEF Init, Known, Possible, Carries, IsRecorded, Request
  <1>4. FormInv /\ FlightsInv /\ KnownInv
    BY <1>1, <1>3 DEF Init, FormInv, FlightsInv, AnswerInv, KnownInv
  <1>5. NamesInv /\ GoalsInv
    BY <1>1, <1>3 DEF Init, NamesInv, Recorded, GoalsInv, OfGoal
  <1>6. StockInv
    BY <1>1, EmptyTypes DEF Init, StockInv, StockKnowsOwnMovements, Keys
  <1>. QED  BY <1>2, <1>4, <1>5, <1>6 DEF IInv

(* The inductive invariant of the forms.                                   *)
THEOREM FormsInvariant == Spec => []IInv
  BY InitIInv, StepIInv, PTL DEF Spec

(* Every variable keeps its type.                                          *)
THEOREM FormsTypes == Spec => []FormsTypeOK
  <1>1. IInv => FormsTypeOK
    BY DEF IInv
  <1>. QED  BY <1>1, FormsInvariant, PTL

(* Receiving, removal, dialogs, counts, products and accounts: whatever is *)
(* lost, given up or sent again, what somebody set out to do is recorded   *)
(* once, unless it was begun anew in doubt (StartsNew).                    *)
THEOREM NothingIsRecordedTwice == Spec => []NothingTwice
  <1>1. IInv => NothingTwice
    <2>1. SUFFICES ASSUME IInv, NEW i \in Recorded, NEW j \in Recorded,
                          goalOf[i] = goalOf[j], goalOf[i] \notin doubt
                   PROVE  i = j
      BY DEF NothingTwice
    <2> DEFINE Of(n) == [kind |-> ledger[n].kind, id |-> n, body |-> ledger[n].body]
    <2>2. \A n \in Recorded : Of(n) \in Possible
      BY <2>1 DEF IInv, FormsTypeOK, Recorded, Possible, IsRecorded, Command, Request
    <2>3. Of(i).id = Of(j).id \/ SameAccount(Of(i), Of(j))
      BY <2>1, <2>2 DEF IInv, GoalsInv
    <2>. QED  BY <2>1, <2>3 DEF IInv, NamesInv, SameAccount
  <1>. QED  BY <1>1, FormsInvariant, PTL

(* RetrySame...: a repeated receipt or removal is the one that was sent.   *)
THEOREM RepeatsAgree == Spec => []NeverContradicts
  <1>1. IInv => NeverContradicts
    BY DEF IInv, FlightsInv, AnswerInv, Fixed, NeverContradicts
  <1>. QED  BY <1>1, FormsInvariant, PTL

(* invalidateQueries: balances shown without asking know every movement    *)
(* this browser was told of.                                               *)
THEOREM BalancesKnowOwnMovements == Spec => []StockKnowsOwnMovements
  <1>1. IInv => StockKnowsOwnMovements
    BY DEF IInv, StockInv
  <1>. QED  BY <1>1, FormsInvariant, PTL
===============================================================================
