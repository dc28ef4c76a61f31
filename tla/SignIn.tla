---------------------------------- MODULE SignIn ----------------------------------
(***************************************************************************)
(* Who is at the counter (frontend/src/auth against identity's public      *)
(* routes): the tabs of one browser share a cookie, every tab keeps its    *)
(* own answer to who is signed in, and requests are answered late, twice   *)
(* out of order, or never.  Writes outlive the screen that sent them;      *)
(* reads are aborted with the session that opened them.                    *)
(***************************************************************************)
EXTENDS Naturals, FiniteSets

CONSTANTS
  Tabs,          \* pages open in this browser
  Sessions,      \* sessions the server may come to hand out
  MaxFlight,     \* bound: requests under way at once
  MaxOpens,      \* bound: page loads
  None

ASSUME SignInAssumption ==
  /\ MaxFlight \in Nat /\ MaxOpens \in Nat
  /\ None \notin Sessions
  /\ Sessions \cap {"none", "ok", "setup", "refused"} = {}

VARIABLES
  session,   \* [Sessions -> "unused", "alive" or "over"]
  owned,     \* the users table has somebody in it
  cookie,    \* ekon_session in the browser's jar, or None
  auth,      \* [Tabs -> what the `me` query holds]
  reason,    \* [Tabs -> why nobody is signed in]
  shown,     \* [Tabs -> the sign-in under which what the screens show was read, or None]
  flight,    \* the requests under way
  opens,
  signIns,   \* [Tabs -> sign-ins in the life of the tab], for the properties
  left       \* [Tabs -> the session the last completed sign-out presented], likewise

server  == <<session, owned>>
page    == <<auth, reason, shown, signIns, left>>
signInVars == <<session, owned, cookie, auth, reason, shown, flight, opens, signIns, left>>

Kinds == {"me", "login", "logout", "setup", "read", "write"}

(* The cookie is the one of the moment it was sent; `heard` is FALSE once  *)
(* the page that would have handled the answer is gone.                    *)
TabRequest == [tab : Tabs, kind : Kinds, cookie : Sessions \cup {None}, signIn : Nat,
               heard : BOOLEAN, answer : {"none", "ok", "setup", "refused"} \cup Sessions]

SignInInit ==
  /\ session = [s \in Sessions |-> "unused"]
  /\ owned \in BOOLEAN
  /\ cookie = None
  /\ auth = [t \in Tabs |-> "closed"]
  /\ reason = [t \in Tabs |-> "never-signed-in"]
  /\ shown = [t \in Tabs |-> None]
  /\ flight = {}
  /\ opens = 0
  /\ signIns = [t \in Tabs |-> 0]
  /\ left = [t \in Tabs |-> None]

New(t, kind) == [tab |-> t, kind |-> kind, cookie |-> cookie, signIn |-> signIns[t],
                 heard |-> TRUE, answer |-> "none"]

Send(t, kind) ==
  /\ Cardinality(flight) < MaxFlight
  /\ flight' = flight \cup {New(t, kind)}

Waiting(t, kinds) == \E r \in flight : r.tab = t /\ r.heard /\ r.kind \in kinds

(* Nobody handles what these bring any more; a read is aborted outright.   *)
Unheard(rs) ==
  (flight \ rs) \cup {[r EXCEPT !.heard = FALSE] :
                       r \in {q \in rs : q.kind \in {"login", "logout", "setup"}}}

----------------------------------------------------------------------------
(* The page.                                                               *)

(* Opening or reloading a tab: `me` is asked and nothing is remembered.    *)
Open(t) ==
  /\ opens < MaxOpens /\ Cardinality(flight) < MaxFlight
  /\ opens' = opens + 1
  /\ auth' = [auth EXCEPT ![t] = "pending"]
  /\ reason' = [reason EXCEPT ![t] = "never-signed-in"]
  /\ shown' = [shown EXCEPT ![t] = None]
  /\ signIns' = [signIns EXCEPT ![t] = 0]
  /\ left' = [left EXCEPT ![t] = None]
  /\ flight' = Unheard({r \in flight : r.tab = t}) \cup {[New(t, "me") EXCEPT !.signIn = 0]}
  /\ UNCHANGED <<server, cookie>>

(* Defect: `me` is refetched like any other query, when the window is      *)
(* looked at or a connection comes back.                                   *)
DefectAsksLikeAnyQuery(t) == auth[t] \in {"error", "setup", "anonymous", "authenticated"}

(* retryBootstrap, from the notice of a failed bootstrap only.             *)
MayAskAgain(t) == auth[t] = "error"

retryBootstrap(t) ==
  /\ MayAskAgain(t) /\ ~Waiting(t, {"me"})
  /\ Send(t, "me")
  /\ auth' = [auth EXCEPT ![t] = IF @ = "error" THEN "refetching" ELSE @]
  /\ UNCHANGED <<server, cookie, reason, shown, signIns, left, opens>>

(* LoginScreen: a submission that passes the shared schema, and only while *)
(* no other is pending.                                                    *)
login(t) ==
  /\ auth[t] = "anonymous" /\ ~Waiting(t, {"login"})
  /\ Send(t, "login")
  /\ UNCHANGED <<server, cookie, page, opens>>

(* SetupOwnerScreen likewise; it asks for no session.                      *)
setUpFirstOwner(t) ==
  /\ auth[t] = "setup" /\ ~Waiting(t, {"setup"})
  /\ Send(t, "setup")
  /\ UNCHANGED <<server, cookie, page, opens>>

(* SignOutButton, disabled while its own request is pending.               *)
SignOut(t) ==
  /\ auth[t] = "authenticated"
  /\ ~\E r \in flight : r.tab = t /\ r.heard /\ r.kind = "logout" /\ r.signIn = signIns[t]
  /\ Send(t, "logout")
  /\ UNCHANGED <<server, cookie, page, opens>>

(* A screen reads, or a form writes.                                       *)
Works(t) ==
  /\ auth[t] = "authenticated"
  /\ \E kind \in {"read", "write"} : ~Waiting(t, {kind}) /\ Send(t, kind)
  /\ UNCHANGED <<server, cookie, page, opens>>

----------------------------------------------------------------------------
(* The server.                                                             *)

Alive(s) == s # None /\ session[s] = "alive"

Answered(r, answer) == flight' = (flight \ {r}) \cup {[r EXCEPT !.answer = answer]}

(* GET /api/auth/me, and what enforcement says to a read or a write.       *)
ServeRead(r) ==
  /\ r.kind \in {"me", "read", "write"} /\ r.answer = "none"
  /\ Answered(r, CASE Alive(r.cookie) -> "ok"
                   [] ~Alive(r.cookie) /\ r.kind = "me" /\ ~owned -> "setup"
                   [] OTHER -> "refused")
  /\ UNCHANGED <<server, cookie, page, opens>>

ServeLogin(r) ==
  /\ r.kind = "login" /\ r.answer = "none"
  /\ \/ Answered(r, "refused") /\ UNCHANGED session
     \/ /\ owned
        /\ \E s \in Sessions : /\ session[s] = "unused"
                               /\ session' = [session EXCEPT ![s] = "alive"]
                               /\ Answered(r, s)
  /\ UNCHANGED <<owned, cookie, page, opens>>

(* Always 204.                                                             *)
ServeLogout(r) ==
  /\ r.kind = "logout" /\ r.answer = "none"
  /\ session' = [s \in Sessions |-> IF s = r.cookie /\ session[s] = "alive" THEN "over" ELSE session[s]]
  /\ Answered(r, "ok")
  /\ UNCHANGED <<owned, cookie, page, opens>>

ServeSetup(r) ==
  /\ r.kind = "setup" /\ r.answer = "none"
  /\ Answered(r, IF owned THEN "refused" ELSE "ok")
  /\ owned' = TRUE
  /\ UNCHANGED <<session, cookie, page, opens>>

(* The twelve hours are over, or the person was deactivated.               *)
Lapses(s) ==
  /\ session[s] = "alive"
  /\ session' = [session EXCEPT ![s] = "over"]
  /\ UNCHANGED <<owned, cookie, page, flight, opens>>

----------------------------------------------------------------------------
(* Answers.                                                                *)

Gone(r) == flight' = flight \ {r}

(* Defect: only who is signed in is reset; the queries stay.               *)
DefectKeepsTheQueries(t, why, r) ==
  /\ auth' = [auth EXCEPT ![t] = "anonymous"]
  /\ reason' = [reason EXCEPT ![t] = why]
  /\ Gone(r) /\ UNCHANGED shown

(* endSession: every query but `me` is removed, the reads under way with   *)
(* them, and `me` is set.                                                  *)
endSession(t, why, r) ==
  /\ auth' = [auth EXCEPT ![t] = "anonymous"]
  /\ reason' = [reason EXCEPT ![t] = why]
  /\ shown' = [shown EXCEPT ![t] = None]
  /\ flight' = {q \in flight : ~(q.tab = t /\ q.kind = "read")} \ {r}

(* Only while somebody is signed in.                                       *)
reportSessionEnded(t, r) ==
  IF auth[t] = "authenticated" THEN endSession(t, "session-ended", r)
  ELSE Gone(r) /\ UNCHANGED <<auth, reason, shown>>

(* getCurrentUser: 401 is an answer.                                       *)
MeAnswered(r) ==
  /\ r.kind = "me" /\ r.heard /\ r.answer # "none"
  /\ auth' = [auth EXCEPT ![r.tab] = CASE r.answer = "ok" -> "authenticated"
                                       [] r.answer = "setup" -> "setup"
                                       [] OTHER -> "anonymous"]
  /\ Gone(r)
  /\ UNCHANGED <<server, cookie, reason, shown, signIns, left, opens>>

completeSignIn(r) ==
  /\ r.kind = "login" /\ r.heard /\ r.answer \in Sessions
  /\ cookie' = r.answer
  /\ auth' = [auth EXCEPT ![r.tab] = "authenticated"]
  /\ signIns' = [signIns EXCEPT ![r.tab] = @ + 1]
  /\ Gone(r)
  /\ UNCHANGED <<server, reason, shown, left, opens>>

(* Whatever the tab has come to show since the button was pressed.         *)
completeSignOut(r) ==
  /\ r.kind = "logout" /\ r.heard /\ r.answer = "ok"
  /\ cookie' = None
  /\ endSession(r.tab, "signed-out", r)
  /\ left' = [left EXCEPT ![r.tab] = r.cookie]
  /\ UNCHANGED <<server, signIns, opens>>

completeSetup(r) ==
  /\ r.kind = "setup" /\ r.heard /\ r.answer = "ok"
  /\ auth' = [auth EXCEPT ![r.tab] = "anonymous"]
  /\ Gone(r)
  /\ UNCHANGED <<server, cookie, reason, shown, signIns, left, opens>>

(* A refused sign-in or setup is only said, also when the setup is refused *)
(* because somebody else has done it.                                      *)
SignInFailed(r) ==
  /\ r.kind \in {"setup", "login"} /\ r.heard /\ r.answer = "refused"
  /\ Gone(r)
  /\ UNCHANGED <<server, cookie, page, opens>>

ReadAnswered(r) ==
  /\ r.kind = "read" /\ r.heard /\ r.answer # "none"
  /\ IF r.answer = "refused" THEN reportSessionEnded(r.tab, r)
     ELSE Gone(r) /\ shown' = [shown EXCEPT ![r.tab] = r.signIn] /\ UNCHANGED <<auth, reason>>
  /\ UNCHANGED <<server, cookie, signIns, left, opens>>

WriteAnswered(r) ==
  /\ r.kind = "write" /\ r.heard /\ r.answer # "none"
  /\ IF r.answer = "refused" THEN reportSessionEnded(r.tab, r)
     ELSE Gone(r) /\ UNCHANGED <<auth, reason, shown>>
  /\ UNCHANGED <<server, cookie, signIns, left, opens>>

(* An answer nobody handles still sets the cookie it carries, if the       *)
(* browser had it before the page was left.                                *)
Orphaned(r) ==
  /\ ~r.heard /\ r.answer # "none"
  /\ Gone(r)
  /\ \/ UNCHANGED cookie
     \/ cookie' = CASE r.kind = "login" /\ r.answer \in Sessions -> r.answer
                    [] r.kind = "logout" -> None
                    [] OTHER -> cookie
  /\ UNCHANGED <<server, page, opens>>

(* Defect: the screen forgets the session whether or not the server did.   *)
DefectSignsOutLocally(r) ==
  /\ auth[r.tab] # "closed"
  /\ IF r.kind = "logout"
     THEN endSession(r.tab, "signed-out", r) /\ left' = [left EXCEPT ![r.tab] = r.cookie]
     ELSE /\ auth' = [auth EXCEPT ![r.tab] = IF r.kind = "me" THEN "error" ELSE @]
          /\ Gone(r) /\ UNCHANGED <<reason, shown, left>>

(* A mutation that failed changes nothing; a read is asked again or says   *)
(* so; a bootstrap that failed is a screen of its own.                     *)
Failed(r) ==
  /\ auth' = [auth EXCEPT ![r.tab] = IF r.kind = "me" THEN "error" ELSE @]
  /\ Gone(r) /\ UNCHANGED <<reason, shown, left>>

(* The connection breaks before the server hears of it, or after.  A login *)
(* whose answer was cut after its headers has failed, and has set the      *)
(* cookie.                                                                 *)
Breaks(r) ==
  /\ IF r.heard THEN Failed(r) ELSE Gone(r) /\ UNCHANGED <<auth, reason, shown, left>>
  /\ cookie' \in {cookie} \cup {s \in Sessions : r.kind = "login" /\ r.answer = s}
  /\ UNCHANGED <<server, signIns, opens>>

Handles(r) ==
  \/ MeAnswered(r) \/ completeSignIn(r) \/ completeSignOut(r) \/ completeSetup(r)
  \/ SignInFailed(r)
  \/ ReadAnswered(r) \/ WriteAnswered(r) \/ Orphaned(r) \/ Breaks(r)

Serve(r) == ServeRead(r) \/ ServeLogin(r) \/ ServeLogout(r) \/ ServeSetup(r)

SignInNext ==
  \/ \E t \in Tabs : Open(t) \/ retryBootstrap(t) \/ login(t) \/ setUpFirstOwner(t)
                    \/ SignOut(t) \/ Works(t)
  \/ \E r \in flight : Serve(r) \/ Handles(r)
  \/ \E s \in Sessions : Lapses(s)

SignInSpec == SignInInit /\ [][SignInNext]_signInVars
===============================================================================
