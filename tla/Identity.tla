-------------------------------- MODULE Identity ---------------------------------
(***************************************************************************)
(* People and sessions (modules/identity): the two ways to create the      *)
(* first owner, creating accounts, signing in and out, and admitting a     *)
(* request (bootstrapService, userService, authService, enforcement and    *)
(* the statements of identityRepository).                                  *)
(*                                                                         *)
(* A task is one HTTP request or one operator command; it is idle, or      *)
(* between two statements.  Hashing and verifying a password is what takes *)
(* its time.  Nothing in the code deactivates a person or changes a role,  *)
(* but all of it expects an administrator to: Deactivate and SetRole.      *)
(***************************************************************************)
EXTENDS Integers, FiniteSets

CONSTANTS
  Tasks,          \* requests and commands that may overlap
  UserIds, Names, \* ids are minted fresh; names are typed
  Roles, Owner,   \* Owner is the role OWNER
  Managers,       \* the roles that role_capabilities grants identity.manage
  Tokens,         \* session tokens: what the generator may return
  MaxClock,       \* bound on the clock
  Lifetime,       \* SESSION_ABSOLUTE_LIFETIME_MS
  MaxAttempts,    \* MAX_SESSION_TOKEN_ATTEMPTS
  Nobody          \* no row, no task

ASSUME IdentityAssumption ==
  /\ Owner \in Roles /\ Managers \subseteq Roles
  /\ MaxClock \in Nat /\ Lifetime \in Nat \ {0} /\ MaxAttempts \in Nat \ {0}
  /\ Nobody \notin Tasks /\ Nobody \notin UserIds

VARIABLES
  now,       \* the injected clock
  users,     \* [UserIds -> row, or Nobody while the id is not in use]
  sessions,  \* [Tokens -> row of that token's digest, or Nobody]
  tableLock, \* who holds SHARE ROW EXCLUSIVE on users, or Nobody
  task       \* [Tasks -> where each one is]

vars == <<now, users, sessions, tableLock, task>>

Row     == [name : Names, role : Roles, active : BOOLEAN]
Session == [user : UserIds, expires : Nat, revoked : BOOLEAN]
ASSUME NobodyAssumption == Nobody \notin Row /\ Nobody \notin Session

Idle      == [kind |-> "idle"]
Bootstrap == [kind : {"operator", "setup"}, pc : {"lock", "guard", "name", "insert"}, name : Names]
SigningIn == [kind : {"login"}, pc : {"verify", "token", "session", "answer"}, user : UserIds,
              seen : [role : Roles, active : BOOLEAN], token : Tokens \cup {Nobody}, at : Nat,
              attempt : 1..MaxAttempts]
Request   == [kind : {"request"}, pc : {"admit", "handler"}, token : Tokens, at : Nat,
              needs : {"session", "identity.manage"}, late : BOOLEAN]

Known == {u \in UserIds : users[u] # Nobody}
Init ==
  /\ now = 0
  /\ users = [u \in UserIds |-> Nobody]
  /\ sessions = [k \in Tokens |-> Nobody]
  /\ tableLock = Nobody
  /\ task = [t \in Tasks |-> Idle]

At(t, kinds, pc) == task[t].kind \in kinds /\ task[t].pc = pc
Goto(t, pc)      == task' = [task EXCEPT ![t].pc = pc]
Ends(t)          == task' = [task EXCEPT ![t] = Idle]
Begins(t, what)  == task[t] = Idle /\ task' = [task EXCEPT ![t] = what]

------------------------------------------------------------------------------
(* The first owner.  The password has been hashed before the transaction.  *)

CreateOwner(t) ==
  /\ \E kind \in {"operator", "setup"}, name \in Names :
       Begins(t, [kind |-> kind, pc |-> "lock", name |-> name])
  /\ UNCHANGED <<now, users, sessions, tableLock>>

(* Defect: the check and the insert are only in one transaction.           *)
DefectDoesNotLock(t) ==
  /\ At(t, {"operator", "setup"}, "lock")
  /\ Goto(t, "guard")
  /\ UNCHANGED <<now, users, sessions, tableLock>>

LockUsersForBootstrap(t) ==
  /\ At(t, {"operator", "setup"}, "lock") /\ tableLock = Nobody
  /\ tableLock' = t
  /\ Goto(t, "guard")
  /\ UNCHANGED <<now, users, sessions>>

UsersTableIsEmpty        == Known = {}
ActiveUserWithRoleExists == \E u \in Known : users[u].role = Owner /\ users[u].active

Permitted(t) ==
  IF task[t].kind = "setup" THEN UsersTableIsEmpty ELSE ~ActiveUserWithRoleExists

Refused(t) == tableLock' = Nobody /\ Ends(t)

Guard(t) ==
  /\ At(t, {"operator", "setup"}, "guard")
  /\ IF Permitted(t) THEN Goto(t, "name") /\ UNCHANGED tableLock ELSE Refused(t)
  /\ UNCHANGED <<now, users, sessions>>

UsernameExists(name) == \E u \in Known : users[u].name = name

(* Defect: the unique constraint will do.                                  *)
DefectSkipsTheNameCheck(t) ==
  /\ At(t, {"operator", "setup"}, "name")
  /\ Goto(t, "insert")
  /\ UNCHANGED <<now, users, sessions, tableLock>>

CheckName(t) ==
  /\ At(t, {"operator", "setup"}, "name")
  /\ IF UsernameExists(task[t].name) THEN Refused(t) ELSE Goto(t, "insert") /\ UNCHANGED tableLock
  /\ UNCHANGED <<now, users, sessions>>

NewRow(u, name, role) ==
  /\ u \notin Known
  /\ users' = [users EXCEPT ![u] = [name |-> name, role |-> role, active |-> TRUE]]

(* The insert and the commit.  The unique constraint is left out of this   *)
(* one on purpose: NamesAreUnique shows that it never has to act.          *)
InsertOwner(t) ==
  /\ At(t, {"operator", "setup"}, "insert")
  /\ \E u \in UserIds : NewRow(u, task[t].name, Owner)
  /\ Refused(t)
  /\ UNCHANGED <<now, sessions>>

------------------------------------------------------------------------------
(* Signing in.                                                             *)

(* findLoginUser; an unknown name, like a wrong password, changes nothing. *)
FindLoginUser(t) ==
  /\ \E u \in Known :
       Begins(t, [kind |-> "login", pc |-> "verify", user |-> u,
                  seen |-> [role |-> users[u].role, active |-> users[u].active], token |-> Nobody,
                  at |-> now, attempt |-> 1])
  /\ UNCHANGED <<now, users, sessions, tableLock>>

VerifyPassword(t) ==
  /\ At(t, {"login"}, "verify")
  /\ \/ task[t].seen.active /\ Goto(t, "token")
     \/ Ends(t)
  /\ UNCHANGED <<now, users, sessions, tableLock>>

GenerateSessionToken(t) ==
  /\ At(t, {"login"}, "token")
  /\ \E k \in Tokens :
       task' = [task EXCEPT ![t].pc = "session", ![t].token = k, ![t].at = now]
  /\ UNCHANGED <<now, users, sessions, tableLock>>

NewSession(t) == [user |-> task[t].user, expires |-> task[t].at + Lifetime, revoked |-> FALSE]

MayTryAgain(t) == task[t].attempt < MaxAttempts

(* Defect: that the user was active before the password was verified is    *)
(* enough.                                                                 *)
DefectTrustsTheEarlierRead(t) ==
  LET k == task[t].token IN
  /\ At(t, {"login"}, "session")
  /\ IF sessions[k] = Nobody
     THEN sessions' = [sessions EXCEPT ![k] = NewSession(t)] /\ Goto(t, "answer")
     ELSE Ends(t) /\ UNCHANGED sessions
  /\ UNCHANGED <<now, users, tableLock>>

(* insertSessionForActiveUser: no row for an inactive user; a token in use *)
(* violates the unique constraint, and another is tried.                   *)
InsertSessionForActiveUser(t) ==
  LET k == task[t].token IN
  /\ At(t, {"login"}, "session")
  /\ \/ ~users[task[t].user].active /\ Ends(t) /\ UNCHANGED sessions
     \/ /\ users[task[t].user].active /\ sessions[k] # Nobody
        /\ IF MayTryAgain(t)
           THEN task' = [task EXCEPT ![t].pc = "token", ![t].attempt = @ + 1]
           ELSE Ends(t)
        /\ UNCHANGED sessions
     \/ /\ users[task[t].user].active /\ sessions[k] = Nobody
        /\ sessions' = [sessions EXCEPT ![k] = NewSession(t)]
        /\ Goto(t, "answer")
  /\ UNCHANGED <<now, users, tableLock>>

(* The answer names the role that was read at first, and what that role    *)
(* may do now.                                                             *)
AnswerLogin(t) ==
  /\ At(t, {"login"}, "answer")
  /\ Ends(t)
  /\ UNCHANGED <<now, users, sessions, tableLock>>

------------------------------------------------------------------------------
(* Admitting a request, and what the only handler here then does.          *)

(* `late` is for the properties: the session was over when this was sent.  *)
IsOver(k) ==
  /\ sessions[k] # Nobody
  /\ sessions[k].revoked \/ sessions[k].expires <= now \/ ~users[sessions[k].user].active

Arrive(t) ==
  /\ \E k \in Tokens, needs \in {"session", "identity.manage"} :
       Begins(t, [kind |-> "request", pc |-> "admit", token |-> k, at |-> now,
                  needs |-> needs, late |-> IsOver(k)])
  /\ UNCHANGED <<now, users, sessions, tableLock>>

(* Defect: the cookie's Max-Age is trusted to end a session.               *)
DefectForgetsExpiry(k, at) ==
  /\ sessions[k] # Nobody
  /\ ~sessions[k].revoked
  /\ users[sessions[k].user].active

(* findSessionPrincipal's WHERE clause                                     *)
IsPrincipal(k, at) ==
  /\ sessions[k] # Nobody
  /\ ~sessions[k].revoked /\ at < sessions[k].expires
  /\ users[sessions[k].user].active

(* authenticate, and enforcement's check of the capability                 *)
Admits(t) ==
  /\ IsPrincipal(task[t].token, task[t].at)
  /\ task[t].needs = "session" \/ users[sessions[task[t].token].user].role \in Managers

Admit(t) ==
  /\ At(t, {"request"}, "admit")
  /\ IF Admits(t) THEN Goto(t, "handler") ELSE Ends(t)
  /\ UNCHANGED <<now, users, sessions, tableLock>>

(* createUser, one statement on the pool: it waits while a bootstrap holds *)
(* the table, and the unique constraint refuses a name in use.             *)
CreateUser(t) ==
  /\ At(t, {"request"}, "handler") /\ task[t].needs = "identity.manage"
  /\ tableLock = Nobody
  /\ \E name \in Names, role \in Roles :
       IF UsernameExists(name) THEN UNCHANGED users
       ELSE \E u \in UserIds : NewRow(u, name, role)
  /\ Ends(t)
  /\ UNCHANGED <<now, sessions, tableLock>>

Respond(t) ==
  /\ At(t, {"request"}, "handler") /\ task[t].needs = "session"
  /\ Ends(t)
  /\ UNCHANGED <<now, users, sessions, tableLock>>

(* logout, one statement; it reports nothing about what it found.          *)
RevokeSession(k) ==
  /\ sessions' = IF sessions[k] = Nobody THEN sessions
                                         ELSE [sessions EXCEPT ![k].revoked = TRUE]
  /\ UNCHANGED <<now, users, tableLock, task>>

------------------------------------------------------------------------------
(* What the code expects of its surroundings: an administrator at the      *)
(* database, who waits for the table lock too, a process that may die, and *)
(* a clock that is not set back.                                           *)

Deactivate(u) ==
  /\ u \in Known /\ tableLock = Nobody
  /\ users' = [users EXCEPT ![u].active = FALSE]
  /\ UNCHANGED <<now, sessions, tableLock, task>>

SetRole(u, role) ==
  /\ u \in Known /\ tableLock = Nobody
  /\ users' = [users EXCEPT ![u].role = role]
  /\ UNCHANGED <<now, sessions, tableLock, task>>

Dies(t) ==
  /\ task[t] # Idle
  /\ Ends(t)
  /\ tableLock' = IF tableLock = t THEN Nobody ELSE tableLock
  /\ UNCHANGED <<now, users, sessions>>

Tick ==
  /\ now < MaxClock
  /\ now' = now + 1
  /\ UNCHANGED <<users, sessions, tableLock, task>>

Step(t) ==
  \/ CreateOwner(t) \/ LockUsersForBootstrap(t) \/ Guard(t) \/ CheckName(t) \/ InsertOwner(t)
  \/ FindLoginUser(t) \/ VerifyPassword(t) \/ GenerateSessionToken(t)
  \/ InsertSessionForActiveUser(t) \/ AnswerLogin(t)
  \/ Arrive(t) \/ Admit(t) \/ CreateUser(t) \/ Respond(t)
  \/ Dies(t)

Next ==
  \/ \E t \in Tasks : Step(t)
  \/ \E k \in Tokens : RevokeSession(k)
  \/ \E u \in UserIds : Deactivate(u) \/ \E role \in Roles : SetRole(u, role)
  \/ Tick

Spec == Init /\ [][Next]_vars
===============================================================================
