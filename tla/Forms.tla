---------------------------------- MODULE Forms ----------------------------------
(***************************************************************************)
(* The forms (src/frontend/src/screens): what each lets somebody do, and   *)
(* what it makes of the answer.  Two of them freeze a failed attempt and   *)
(* offer to send the same request again; the dialogs and the count stay    *)
(* open for correction under the id they drew; a product and an account    *)
(* carry no operation id at all.                                           *)
(***************************************************************************)
EXTENDS Browser

Busy == flight # None

Req(id) == [kind |-> form.kind, id |-> id, body |-> form.fields]

Sends(r) == flight' = [req |-> r, stage |-> "out", answer |-> None, parent |-> TRUE]

(* lib/api.ts: no answer is a NetworkError, a status is an ApiError, and a *)
(* 2xx whose body cannot be read is neither.                               *)
Hears(f, o) ==
  /\ f # None
  /\ \/ f.stage = "back" /\ o = f.answer /\ UNCHANGED late
     \/ f.stage = "back" /\ f.answer = "recorded" /\ o = "cut" /\ UNCHANGED late
     \/ f.stage = "back" /\ o = "lost" /\ UNCHANGED late
     \/ /\ f.stage = "out" /\ o = "lost"
        /\ late' \in {late, late \cup {f.req}} /\ Cardinality(late') <= MaxLate

Edits(b) ==
  /\ b # form.fields
  /\ form' = [form EXCEPT !.fields = b]
  /\ UNCHANGED <<signedIn, flight, orphan, network, shop, cache, reading, person, ghosts>>

(* What the two stock screens offer: the merchandise and shelves that are  *)
(* active, and the shelves that held something when they were last read.   *)
activeVariantChoices    == cache["choices"].offers
removableVariantChoices == cache["stock"].offers

(* What each form insists on before anything is sent: everything is filled *)
(* in, and a removal is from a shelf that held something.                  *)
validateReceivingForm(f)  == f.fields # None
validateRemovalForm(f)    == f.fields \in removableVariantChoices
validateAdjustmentForm(f) == f.fields # None
validateReconcileForm(f)  == f.fields # None
validateCountForm(f)      == f.fields # None
validateNewProductForm(f) == f.fields # None
validateNewUserForm(f)    == f.fields # None

(* A form that drew its id when it opened sends what it holds under it.    *)
Submits(k, valid) ==
  /\ Is(k) /\ ~Busy /\ form.phase = "editing" /\ valid
  /\ Sends(Req(form.id))
  /\ form' = [form EXCEPT !.sent = Req(form.id), !.error = None]
  /\ UNCHANGED <<signedIn, orphan, network, shop, cache, reading, person, ghosts>>

Succeeds(k, g, invalidated) ==
  /\ Is(k) /\ Hears(flight, "recorded") /\ flight' = None
  /\ form' = g
  /\ Keep(invalidated) /\ Attend(invalidated)
  /\ told' = IF k \in Moves THEN told \cup {form.id} ELSE told
  /\ UNCHANGED <<signedIn, alive, orphan, ledger, shop, plan, doubt>>

(* The outcome of an attempt that carried an operation id is learnt by     *)
(* asking again; one without it never is.                                  *)
Failed(o, phase) ==
  [form EXCEPT !.phase = phase, !.error = o,
               !.unsure = o \in Unknown \/ (form.kind \notin Drawn /\ form.unsure)]

Fails(k, o, g, refetched) ==
  /\ Is(k) /\ o # "recorded" /\ Hears(flight, o) /\ flight' = None
  /\ IF o = "expired" THEN SessionEnds
     ELSE form' = g /\ UNCHANGED <<signedIn, cache>> /\ Attend(refetched)
  /\ UNCHANGED <<alive, orphan, ledger, shop, person, ghosts>>

(* A new command on a screen that stays: after a success it is for the     *)
(* next thing somebody sets out to do, after a failure for the same one.   *)
(* It is doubtful when what came before may yet be recorded after all, or  *)
(* was: a refusal says nothing of an attempt that had been given up.       *)
StartsNew(k, kept, refetched) ==
  /\ Is(k) /\ ~Busy /\ form.phase \in {"failed", "succeeded"}
  /\ goal' = IF form.phase = "succeeded" THEN goal + 1 ELSE goal
  /\ goal' <= MaxGoals
  /\ Draw([Blank(k) EXCEPT !.fields = kept, !.prefilled = form.prefilled])
  /\ goalOf' = [goalOf EXCEPT ![nextId] = goal']
  /\ doubt' = IF form.phase = "failed" /\ (form.unsure \/ form.sent \in late \/ form.id \in Recorded)
              THEN doubt \cup {goal} ELSE doubt
  /\ UNCHANGED cache /\ Attend(refetched)
  /\ UNCHANGED <<signedIn, flight, orphan, network, shop, plan, told>>

----------------------------------------------------------------------------
(* Receiving (screens/ReceivingScreen.tsx, lib/receiving.ts).              *)

EditReceipt ==
  /\ Is("receive") /\ ~Busy /\ form.phase = "editing"
  /\ \E b \in activeVariantChoices \cup {None} : Edits(b)

SubmitReceipt == form # None /\ Submits("receive", validateReceivingForm(form))

(* Defect: the balances are left as they are.                              *)
DefectKeepsTheBalances ==
  /\ form # None /\ Succeeds("receive", [form EXCEPT !.phase = "succeeded", !.error = None], {})
  /\ UNCHANGED <<nextId, goal, goalOf>>

ReceiptRecorded ==
  /\ form # None /\ Succeeds("receive", [form EXCEPT !.phase = "succeeded", !.error = None], {"stock"})
  /\ UNCHANGED <<nextId, goal, goalOf>>

ReceiptFailed == \E o \in Answers \cup Unknown :
  form # None /\ Fails("receive", o, Failed(o, "failed"), {})

(* A 2xx that cannot be read counts as the server stating something true.  *)
CanRetryReceipt(error) == error \in {"lost", "fault"}

(* Defect: the retry is built from the fields again.                       *)
DefectRebuildsTheRequest ==
  /\ Is("receive") /\ ~Busy /\ form.phase = "failed" /\ CanRetryReceipt(form.error)
  /\ Sends(Req(form.id))
  /\ UNCHANGED <<signedIn, form, orphan, network, shop, cache, reading, person, ghosts>>

RetrySameReceipt ==
  /\ Is("receive") /\ ~Busy /\ form.phase = "failed" /\ CanRetryReceipt(form.error)
  /\ Sends(form.sent)
  /\ UNCHANGED <<signedIn, form, orphan, network, shop, cache, reading, person, ghosts>>

(* The shelf of the last delivery is kept for the next one.                *)
StartNewReceipt ==
  form # None /\ StartsNew("receive", form.fields, IF form.phase = "failed" THEN {"choices"} ELSE {})

----------------------------------------------------------------------------
(* Removal (screens/RemovalScreen.tsx, lib/removal.ts).                    *)

(* Choosing the item chooses its shelf when there is one sensible one.     *)
ChooseVariant ==
  /\ Is("remove") /\ ~Busy /\ form.phase = "editing" /\ removableVariantChoices # {}
  /\ Edits(PreferredRemovalLocation(removableVariantChoices))

EditRemoval ==
  /\ Is("remove") /\ ~Busy /\ form.phase = "editing"
  /\ \E b \in removableVariantChoices \cup {None} : Edits(b)

SubmitRemoval == form # None /\ Submits("remove", validateRemovalForm(form))

RemovalRecorded ==
  /\ form # None /\ Succeeds("remove", [form EXCEPT !.phase = "succeeded", !.error = None], {"stock"})
  /\ UNCHANGED <<nextId, goal, goalOf>>

BalancesAreStaleAfter(error) == error = "refused"

RemovalFailed == \E o \in Answers \cup Unknown :
  form # None /\ Fails("remove", o, Failed(o, "failed"), IF BalancesAreStaleAfter(o) THEN {"stock"} ELSE {})

(* Defect: only a dropped connection is worth another attempt.             *)
DefectTrustsFaults(error) == error = "lost"

CanRetryRemoval(error) == error \in Unknown

(* Defect: an id for the attempt instead of the command.                   *)
DefectDrawsAgain ==
  /\ Is("remove") /\ ~Busy /\ form.phase = "failed" /\ CanRetryRemoval(form.error)
  /\ nextId \in Ids /\ nextId' = nextId + 1
  /\ goalOf' = [goalOf EXCEPT ![nextId] = goal]
  /\ form' = [form EXCEPT !.id = nextId, !.sent = Req(nextId)]
  /\ Sends(Req(nextId))
  /\ UNCHANGED <<signedIn, orphan, network, shop, cache, reading, plan, goal, told, doubt>>

RetrySameRemoval ==
  /\ Is("remove") /\ ~Busy /\ form.phase = "failed" /\ CanRetryRemoval(form.error)
  /\ Sends(form.sent)
  /\ UNCHANGED <<signedIn, form, orphan, network, shop, cache, reading, person, ghosts>>

StartNewRemoval == StartsNew("remove", None, {})

----------------------------------------------------------------------------
(* The dialogs: one id for as long as the dialog is open, whatever its     *)
(* fields become; they close when they hear that the command is recorded.  *)

Types(k) == Is(k) /\ form.phase = "editing" /\ \E b \in Bodies : Edits(b)

Closes(k, invalidated) ==
  /\ Succeeds(k, None, invalidated)
  /\ UNCHANGED <<nextId, goal, goalOf>>

StaysOpen(k) == \E o \in Answers \cup Unknown : form # None /\ Fails(k, o, Failed(o, "editing"), {})

AdjustValues   == Types("adjust")
ConfirmAdjust  == form # None /\ Submits("adjust", validateAdjustmentForm(form))
AdjustDone     == Closes("adjust", {"stock"})
AdjustFailed   == StaysOpen("adjust")

ReverseValues  == Types("reverse")
ConfirmReverse == form # None /\ Submits("reverse", form.fields # None)
ReverseDone    == Closes("reverse", {"stock"})
ReverseFailed  == StaysOpen("reverse")

ReconcileValues  == Types("reconcile")
ConfirmReconcile == form # None /\ Submits("reconcile", validateReconcileForm(form))
ReconcileDone    == Closes("reconcile", {"stock"})
ReconcileFailed  == StaysOpen("reconcile")

(* Counting: the id is renewed when a count is recorded, and only then, so *)
(* a form whose id is used for another count says so until it is reopened. *)
CountValues == Types("count")

SubmitCount ==
  /\ form # None /\ Submits("count", validateCountForm(form))
  /\ nextId \in Ids /\ goal < MaxGoals

CountRecorded ==
  /\ form # None
  /\ Succeeds("count", [Blank("count") EXCEPT !.id = nextId], {})
  /\ nextId' = nextId + 1 /\ goal' = goal + 1
  /\ goalOf' = [goalOf EXCEPT ![nextId] = goal']

CountFailed == StaysOpen("count")

----------------------------------------------------------------------------
(* A product and an account: no operation id, so every attempt is another  *)
(* request (`id` only tells them apart).  Trying again is doubtful when    *)
(* the outcome of an attempt was not learnt; an account under the same     *)
(* name is not, because the server takes a name once.                      *)

SubmitsAnother(k, valid, doubtful) ==
  /\ Is(k) /\ ~Busy /\ form.phase = "editing" /\ valid /\ nextId \in Ids
  /\ Sends(Req(nextId))
  /\ form' = [form EXCEPT !.id = nextId, !.sent = Req(nextId), !.error = None]
  /\ nextId' = nextId + 1
  /\ goalOf' = [goalOf EXCEPT ![nextId] = goal]
  /\ doubt' = IF doubtful THEN doubt \cup {goal} ELSE doubt
  /\ UNCHANGED <<signedIn, orphan, network, shop, cache, reading, plan, goal, told>>

ProductValues == Types("product")
SubmitProduct ==
  form # None /\ SubmitsAnother("product", validateNewProductForm(form), form.unsure)

ProductCreated == Closes("product", {"choices"})
ProductFailed == StaysOpen("product")

isUncertain(error) == error \in {"lost", "fault"}

(* The list is where the answer is.                                        *)
checkTheList ==
  /\ Is("product") /\ ~Busy /\ isUncertain(form.error)
  /\ form' = None
  /\ Keep({"choices"}) /\ Attend({})
  /\ UNCHANGED <<signedIn, flight, orphan, network, shop, person, ghosts>>

UserValues == Types("user")
SubmitUser ==
  /\ form # None
  /\ SubmitsAnother("user", validateNewUserForm(form), form.unsure /\ form.fields # form.sent.body)

UserCreated ==
  /\ form # None /\ Succeeds("user", [Blank("user") EXCEPT !.phase = "succeeded"], {})
  /\ UNCHANGED <<nextId, goal, goalOf>>

UserFailed == StaysOpen("user")

(* After a success for somebody else, after a refusal only without it.     *)
startAnother ==
  /\ Is("user") /\ ~Busy
  /\ \/ /\ form.phase = "succeeded" /\ goal < MaxGoals
        /\ goal' = goal + 1
        /\ form' = Blank("user")
     \/ /\ form.phase = "editing" /\ form.error # None
        /\ form' = [form EXCEPT !.error = None]
        /\ UNCHANGED goal
  /\ UNCHANGED <<signedIn, flight, orphan, network, shop, cache, reading, plan, nextId, ghosts>>

----------------------------------------------------------------------------
(* The answer to a request whose form has gone: its callbacks run all the  *)
(* same.  A parent that is still there closes whatever dialog of its kind  *)
(* is open by then, and a 401 ends the session of whoever is signed in.    *)

Invalidates(k) == IF k \in Moves THEN {"stock"} ELSE IF k = "product" THEN {"choices"} ELSE {}

OrphanSucceeds ==
  /\ Hears(orphan, "recorded")
  /\ LET closes == orphan.parent /\ Is(orphan.req.kind)
     IN /\ form' = IF closes THEN None ELSE form
        /\ flight' = IF closes THEN None ELSE flight
        /\ orphan' = IF closes THEN flight ELSE None
  /\ Keep(Invalidates(orphan.req.kind)) /\ Attend(Invalidates(orphan.req.kind))
  /\ told' = IF orphan.req.kind \in Moves THEN told \cup {orphan.req.id} ELSE told
  /\ UNCHANGED <<signedIn, alive, ledger, shop, person, goalOf, doubt>>

OrphanFails ==
  /\ \E o \in (Answers \cup Unknown) \ {"recorded"} :
       /\ Hears(orphan, o)
       /\ IF o = "expired" /\ signedIn
          THEN SessionEnds /\ flight' = None /\ orphan' = flight
          ELSE orphan' = None /\ UNCHANGED <<signedIn, form, flight, cache, reading>>
  /\ UNCHANGED <<alive, ledger, shop, person, ghosts>>
----------------------------------------------------------------------------

Browses == \/ \E k \in Kinds : Open(k)
           \/ Leave \/ Reload \/ Expire \/ SignInAgain \/ ShopChanges
           \/ ServerAnswers \/ OrphanAnswered \/ LateArrives
           \/ OrphanSucceeds \/ OrphanFails

Reads == \E k \in Keys : CopyAges(k) \/ ReadsAgain(k) \/ ServerReads(k) \/ ReadFails(k)
                         \/ FinishRead(k) \/ ReadIsRefused(k)

Receives == EditReceipt \/ SubmitReceipt \/ ReceiptRecorded \/ ReceiptFailed
            \/ RetrySameReceipt \/ StartNewReceipt

Removes == ChooseVariant \/ EditRemoval \/ SubmitRemoval \/ RemovalRecorded \/ RemovalFailed
           \/ RetrySameRemoval \/ StartNewRemoval

Corrects == AdjustValues \/ ConfirmAdjust \/ AdjustDone \/ AdjustFailed
            \/ ReverseValues \/ ConfirmReverse \/ ReverseDone \/ ReverseFailed
            \/ ReconcileValues \/ ConfirmReconcile \/ ReconcileDone \/ ReconcileFailed
            \/ CountValues \/ SubmitCount \/ CountRecorded \/ CountFailed

Registers == ProductValues \/ SubmitProduct \/ ProductCreated \/ ProductFailed \/ checkTheList
             \/ UserValues \/ SubmitUser \/ UserCreated \/ UserFailed \/ startAnother

Next == Browses \/ Reads \/ Receives \/ Removes \/ Corrects \/ Registers

(* Who waits for a removal presses the button that is offered, the page    *)
(* hears of every end of a request, and a server and a connection that are *)
(* tried again and again work now and then.                                *)
HearsOfRemoval == RemovalRecorded \/ RemovalFailed

ServerWorks == ServerAnswers /\ flight'.answer # "fault"

AnswerArrives ==
  /\ flight # None /\ flight.stage = "back" /\ flight.answer # "fault"
  /\ HearsOfRemoval
  /\ form' = None \/ form'.error \notin Unknown

Fairness == /\ WF_vars(RetrySameRemoval) /\ WF_vars(HearsOfRemoval)
            /\ SF_vars(ServerWorks) /\ SF_vars(AnswerArrives)

Spec == Init /\ [][Next]_vars /\ Fairness
=============================================================================
