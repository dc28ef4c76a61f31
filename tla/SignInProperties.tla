----------------------------- MODULE SignInProperties -----------------------------
(***************************************************************************)
(* What a person at a shared computer may rely on.                         *)
(***************************************************************************)
EXTENDS SignIn

Auths   == {"closed", "pending", "refetching", "error", "setup", "anonymous", "authenticated"}
Reasons == {"never-signed-in", "session-ended", "signed-out"}

SignInTypeOK ==
  /\ session \in [Sessions -> {"unused", "alive", "over"}]
  /\ owned \in BOOLEAN
  /\ cookie \in Sessions \cup {None}
  /\ auth \in [Tabs -> Auths]
  /\ reason \in [Tabs -> Reasons]
  /\ shown \in [Tabs -> Nat \cup {None}]
  /\ flight \subseteq TabRequest
  /\ opens \in Nat
  /\ signIns \in [Tabs -> Nat]
  /\ left \in [Tabs -> Sessions \cup {None}]

(* A screen that says "signed out" says it of a session the server has     *)
(* ended: whoever sits down next cannot use it, whatever was lost on the   *)
(* way (SignOutButton).                                                    *)
SignedOutIsRevoked ==
  \A t \in Tabs : reason[t] = "signed-out" => ~Alive(left[t])

(* What the screens show was read since the last sign-in in this tab:      *)
(* nothing an earlier session loaded, and no answer of that session that   *)
(* came late, is left for the next person (endSession).                    *)
ShownIsHers ==
  \A t \in Tabs : shown[t] # None => auth[t] = "authenticated" /\ shown[t] = signIns[t]

(* Somebody who was signed in and finds herself on the login form is told  *)
(* why: no late answer to "who is this" overwrites a sign-in, and nobody   *)
(* is greeted as a first-time visitor after one (AuthProvider's reason).   *)
NeverGreetedAsNew ==
  \A t \in Tabs : auth[t] = "anonymous" /\ signIns[t] > 0 => reason[t] # "never-signed-in"
===============================================================================
