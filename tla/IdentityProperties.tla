--------------------------- MODULE IdentityProperties ---------------------------
(***************************************************************************)
(* Who may come into being, who may come in, and who may not come back.    *)
(***************************************************************************)
EXTENDS Identity

TypeOK ==
  /\ now \in Nat
  /\ users \in [UserIds -> Row \cup {Nobody}]
  /\ sessions \in [Tokens -> Session \cup {Nobody}]
  /\ tableLock \in Tasks \cup {Nobody}
  /\ task \in [Tasks -> {Idle} \cup Bootstrap \cup SigningIn \cup Request]

(***************************************************************************)
(* One person, one username - although creating an owner relies on its     *)
(* check under the table lock, and creating an account on the constraint   *)
(* (bootstrapService.ts, "under the lock the two agree").                  *)
(***************************************************************************)
NamesAreUnique == \A u, v \in Known : users[u].name = users[v].name => u = v

(***************************************************************************)
(* The public first-run route creates a user only in an empty table, and   *)
(* the operator command an owner only where none is active, at the moment  *)
(* the row becomes visible and whatever runs beside it.                    *)
(***************************************************************************)
Creates(t, kind) == task[t] # Idle /\ task[t].kind = kind /\ users' # users
                    /\ task'[t] = Idle
FirstOwnerOnly ==
  [][\A t \in Tasks :
       /\ Creates(t, "setup") => Known = {}
       /\ Creates(t, "operator") => ~ActiveUserWithRoleExists]_vars

(***************************************************************************)
(* Nobody who has been deactivated gets a session, however long the        *)
(* verification of the password took (identityRepository.ts,               *)
(* insertSessionForActiveUser), and no session changes hands.              *)
(***************************************************************************)
SessionsAreGranted ==
  [][\A k \in Tokens : sessions'[k] # sessions[k] =>
       IF sessions[k] = Nobody THEN users[sessions'[k].user].active
       ELSE sessions'[k] = [sessions[k] EXCEPT !.revoked = TRUE]]_vars

(***************************************************************************)
(* A session that is over stays over: a request sent after its session was *)
(* revoked, had expired or had lost its user does not get in, whenever the *)
(* statement that decides it runs.                                         *)
(***************************************************************************)
OverIsOver ==
  [][\A t \in Tasks : task[t] # Idle /\ task[t].kind = "request" /\ task[t].late =>
       task'[t] # [task[t] EXCEPT !.pc = "handler"]]_vars
===============================================================================
