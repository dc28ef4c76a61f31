------------------------------- MODULE AccessProofs -------------------------------
(***************************************************************************)
(* Who gets in, and what a person at a shared computer may rely on.        *)
(*                                                                         *)
(* At the server, for any number of tasks, people, tokens and roles:       *)
(* usernames are unique, the two bootstraps create first owners only,      *)
(* sessions are granted to the active, and a session that is over stays    *)
(* over.  In the browser, for any number of tabs, sessions and requests    *)
(* under way: who is shown as signed out is, and nothing that an earlier   *)
(* session read is shown.                                                  *)
(***************************************************************************)
EXTENDS IdentityProperties, SignInProperties, TLAPS


Creating(t) == task[t].kind \in {"operator", "setup"}
InTable(t)  == Creating(t) /\ task[t].pc \in {"guard", "name", "insert"}

(* Between its guard and its commit a bootstrap owns the table, so what it *)
(* found there is still so.                                                *)
LockHeld(t)  == InTable(t) => tableLock = t
StillSo(t)   == Creating(t) /\ task[t].pc \in {"name", "insert"} => Permitted(t)
StillFree(t) == Creating(t) /\ task[t].pc = "insert" => ~UsernameExists(task[t].name)

(* Users are never deleted, so neither sessions nor logins lose theirs.    *)
HasUser(t)   == task[t].kind = "login" => users[task[t].user] # Nobody
SessionsHaveUsers == \A k \in Tokens : sessions[k] # Nobody => users[sessions[k].user] # Nobody

(* What was over when the request was sent is over now.                    *)
Ended(k, at) ==
  /\ sessions[k] # Nobody
  /\ sessions[k].revoked \/ sessions[k].expires <= at \/ ~users[sessions[k].user].active
LateIsOver(t) ==
  task[t].kind = "request" /\ task[t].late => task[t].pc = "admit" /\ Ended(task[t].token, task[t].at)

PerTask(t) == LockHeld(t) /\ StillSo(t) /\ StillFree(t) /\ HasUser(t) /\ LateIsOver(t)
IInv == TypeOK /\ NamesAreUnique /\ SessionsHaveUsers /\ \A t \in Tasks : PerTask(t)

LEMMA Shapes ==
  ASSUME TypeOK, NEW t \in Tasks
  PROVE  /\ Creating(t) => task[t] \in Bootstrap
         /\ task[t].kind = "login" => task[t] \in SigningIn
         /\ task[t].kind = "request" => task[t] \in Request
         /\ task[t] \in {Idle} \cup Bootstrap \cup SigningIn \cup Request
  BY DEF TypeOK, Creating, Idle, Bootstrap, SigningIn, Request

LEMMA InitIInv == Init => IInv
  BY DEF Init, IInv, TypeOK, NamesAreUnique, Known, SessionsHaveUsers, PerTask, LockHeld, StillSo,
         StillFree, HasUser, LateIsOver, InTable, Creating, Idle

(* Nobody else's step touches a task.                                      *)
LEMMA OneTask ==
  ASSUME TypeOK, NEW t \in Tasks, Step(t)
  PROVE  \A s \in Tasks \ {t} : task'[s] = task[s]
  BY DEF TypeOK, Step, CreateOwner, LockUsersForBootstrap, Guard, Refused, CheckName, InsertOwner,
         FindLoginUser, VerifyPassword, GenerateSessionToken, InsertSessionForActiveUser,
         AnswerLogin, Arrive, Admit, CreateUser, Respond, Dies, Goto, Ends, Begins

------------------------------------------------------------------------------
(* Types.                                                                  *)

LEMMA GotoType ==
  ASSUME TypeOK, NEW t \in Tasks, NEW pc, Goto(t, pc),
         \/ Creating(t) /\ pc \in {"lock", "guard", "name", "insert"}
         \/ task[t].kind = "login" /\ pc \in {"verify", "token", "session", "answer"}
         \/ task[t].kind = "request" /\ pc \in {"admit", "handler"}
  PROVE  task' \in [Tasks -> {Idle} \cup Bootstrap \cup SigningIn \cup Request]
  <1>1. [task[t] EXCEPT !.pc = pc] \in Bootstrap \cup SigningIn \cup Request
    BY Shapes DEF Bootstrap, SigningIn, Request
  <1>. QED  BY <1>1 DEF TypeOK, Goto

LEMMA EndsType ==
  ASSUME TypeOK, NEW t \in Tasks, Ends(t)
  PROVE  task' \in [Tasks -> {Idle} \cup Bootstrap \cup SigningIn \cup Request]
  BY DEF TypeOK, Ends

LEMMA RowsOfUsers ==
  ASSUME TypeOK
  PROVE  /\ \A u \in Known : users[u] \in Row
         /\ \A k \in Tokens : sessions[k] # Nobody => sessions[k] \in Session
  BY DEF TypeOK, Known

LEMMA NewRowType ==
  ASSUME TypeOK, NEW u \in UserIds, NEW name \in Names, NEW role \in Roles, NewRow(u, name, role)
  PROVE  users' \in [UserIds -> Row \cup {Nobody}]
  BY DEF TypeOK, NewRow, Row

LEMMA TypeStep == IInv /\ [Next]_vars => TypeOK'
  <1>. SUFFICES ASSUME IInv, [Next]_vars PROVE TypeOK'
    OBVIOUS
  <1>. USE IdentityAssumption
  <1>0. TypeOK
    BY DEF IInv
  <1>1. ASSUME NEW t \in Tasks, CreateOwner(t) PROVE TypeOK'
    BY <1>0, <1>1 DEF CreateOwner, Begins, TypeOK, Bootstrap
  <1>2. ASSUME NEW t \in Tasks, LockUsersForBootstrap(t) PROVE TypeOK'
    <2>1. Creating(t) /\ Goto(t, "guard")
      BY <1>2 DEF LockUsersForBootstrap, At, Creating
    <2>. QED  BY <1>0, <1>2, <2>1, GotoType DEF LockUsersForBootstrap, TypeOK
  <1>3. ASSUME NEW t \in Tasks, Guard(t) PROVE TypeOK'
    <2>1. Creating(t) /\ (Goto(t, "name") \/ Ends(t)) /\ tableLock' \in {tableLock, Nobody}
      BY <1>3 DEF Guard, At, Creating, Refused
    <2>. QED  BY <1>0, <1>3, <2>1, GotoType, EndsType DEF Guard, TypeOK
  <1>4. ASSUME NEW t \in Tasks, CheckName(t) PROVE TypeOK'
    <2>1. Creating(t) /\ (Goto(t, "insert") \/ Ends(t)) /\ tableLock' \in {tableLock, Nobody}
      BY <1>4 DEF CheckName, At, Creating, Refused
    <2>. QED  BY <1>0, <1>4, <2>1, GotoType, EndsType DEF CheckName, TypeOK
  <1>5. ASSUME NEW t \in Tasks, InsertOwner(t) PROVE TypeOK'
    <2>1. task[t].name \in Names
      BY <1>0, <1>5, Shapes DEF InsertOwner, At, Creating, Bootstrap
    <2>2. users' \in [UserIds -> Row \cup {Nobody}]
      BY <1>0, <1>5, <2>1, NewRowType DEF InsertOwner
    <2>. QED  BY <1>0, <1>5, <2>2, EndsType DEF InsertOwner, Refused, TypeOK
  <1>6. ASSUME NEW t \in Tasks, FindLoginUser(t) PROVE TypeOK'
    <2>. PICK u \in Known :
           task' = [task EXCEPT ![t] = [kind |-> "login", pc |-> "verify", user |-> u,
                    seen |-> [role |-> users[u].role, active |-> users[u].active],
                    token |-> Nobody, at |-> now, attempt |-> 1]]
      BY <1>6 DEF FindLoginUser, Begins
    <2>1. users[u] \in Row /\ u \in UserIds
      BY <1>0, RowsOfUsers DEF Known
    <2>2. 1 \in 1..MaxAttempts
      OBVIOUS
    <2>3. [kind |-> "login", pc |-> "verify", user |-> u,
           seen |-> [role |-> users[u].role, active |-> users[u].active],
           token |-> Nobody, at |-> now, attempt |-> 1] \in SigningIn
      BY <1>0, <2>1, <2>2 DEF SigningIn, Row, TypeOK
    <2>. QED  BY <1>0, <1>6, <2>3 DEF FindLoginUser, TypeOK
  <1>7. ASSUME NEW t \in Tasks, VerifyPassword(t) PROVE TypeOK'
    <2>1. task[t].kind = "login" /\ (Goto(t, "token") \/ Ends(t))
      BY <1>7 DEF VerifyPassword, At
    <2>. QED  BY <1>0, <1>7, <2>1, GotoType, EndsType DEF VerifyPassword, TypeOK
  <1>8. ASSUME NEW t \in Tasks, GenerateSessionToken(t) PROVE TypeOK'
    <2>. PICK k \in Tokens :
           task' = [task EXCEPT ![t] = [task[t] EXCEPT !.pc = "session", !.token = k, !.at = now]]
      BY <1>0, <1>8 DEF GenerateSessionToken, TypeOK
    <2>1. task[t] \in SigningIn
      BY <1>0, <1>8, Shapes DEF GenerateSessionToken, At
    <2>2. [task[t] EXCEPT !.pc = "session", !.token = k, !.at = now] \in SigningIn
      BY <1>0, <2>1 DEF SigningIn, TypeOK
    <2>. QED  BY <1>0, <1>8, <2>2 DEF GenerateSessionToken, TypeOK
  <1>9. ASSUME NEW t \in Tasks, InsertSessionForActiveUser(t) PROVE TypeOK'
    <2>1. task[t] \in SigningIn /\ task[t].kind = "login"
      BY <1>0, <1>9, Shapes DEF InsertSessionForActiveUser, At
    <2>2. NewSession(t) \in Session
      BY <2>1 DEF NewSession, Session, SigningIn
    <2>3. sessions' \in [Tokens -> Session \cup {Nobody}]
      BY <1>0, <1>9, <2>2 DEF InsertSessionForActiveUser, TypeOK
    <2>4. CASE Goto(t, "answer") \/ Ends(t)
      BY <1>0, <1>9, <2>1, <2>3, <2>4, GotoType, EndsType DEF InsertSessionForActiveUser, TypeOK
    <2>5. CASE /\ task' = [task EXCEPT ![t].pc = "token", ![t].attempt = @ + 1]
               /\ MayTryAgain(t)
      <3>. DEFINE n == task[t].attempt + 1
      <3>0. n \in 1..MaxAttempts
        BY <2>1, <2>5 DEF SigningIn, MayTryAgain
      <3>. HIDE DEF n
      <3>1. [task[t] EXCEPT !.pc = "token", !.attempt = n] \in SigningIn
        BY <2>1, <3>0 DEF SigningIn
      <3>2. task' = [task EXCEPT ![t] = [task[t] EXCEPT !.pc = "token", !.attempt = n]]
        BY <1>0, <2>5 DEF TypeOK, n
      <3>. QED  BY <1>0, <1>9, <2>3, <3>1, <3>2 DEF InsertSessionForActiveUser, TypeOK
    <2>. QED  BY <1>9, <2>4, <2>5 DEF InsertSessionForActiveUser
  <1>10. ASSUME NEW t \in Tasks, AnswerLogin(t) PROVE TypeOK'
    BY <1>0, <1>10, EndsType DEF AnswerLogin, TypeOK
  <1>11. ASSUME NEW t \in Tasks, Arrive(t) PROVE TypeOK'
    <2>1. \A k \in Tokens : IsOver(k) \in BOOLEAN
      BY DEF IsOver
    <2>. PICK k \in Tokens, needs \in {"session", "identity.manage"} :
           task' = [task EXCEPT ![t] = [kind |-> "request", pc |-> "admit", token |-> k,
                      at |-> now, needs |-> needs, late |-> IsOver(k)]]
      BY <1>11 DEF Arrive, Begins
    <2>2. [kind |-> "request", pc |-> "admit", token |-> k,
           at |-> now, needs |-> needs, late |-> IsOver(k)] \in Request
      BY <1>0, <2>1 DEF Request, TypeOK
    <2>. QED  BY <1>0, <1>11, <2>2 DEF Arrive, TypeOK
  <1>12. ASSUME NEW t \in Tasks, Admit(t) PROVE TypeOK'
    <2>1. task[t].kind = "request" /\ (Goto(t, "handler") \/ Ends(t))
      BY <1>12 DEF Admit, At
    <2>. QED  BY <1>0, <1>12, <2>1, GotoType, EndsType DEF Admit, TypeOK
  <1>13. ASSUME NEW t \in Tasks, CreateUser(t) PROVE TypeOK'
    <2>1. users' \in [UserIds -> Row \cup {Nobody}]
      BY <1>0, <1>13, NewRowType DEF CreateUser, TypeOK
    <2>. QED  BY <1>0, <1>13, <2>1, EndsType DEF CreateUser, TypeOK
  <1>14. ASSUME NEW t \in Tasks, Respond(t) PROVE TypeOK'
    BY <1>0, <1>14, EndsType DEF Respond, TypeOK
  <1>15. ASSUME NEW t \in Tasks, Dies(t) PROVE TypeOK'
    BY <1>0, <1>15, EndsType DEF Dies, TypeOK
  <1>16. ASSUME NEW k \in Tokens, RevokeSession(k) PROVE TypeOK'
    <2>1. sessions[k] # Nobody => [sessions[k] EXCEPT !.revoked = TRUE] \in Session
      BY <1>0, RowsOfUsers DEF Session
    <2>. QED  BY <1>0, <1>16, <2>1 DEF RevokeSession, TypeOK
  <1>17. ASSUME NEW u \in UserIds, Deactivate(u) PROVE TypeOK'
    <2>1. [users[u] EXCEPT !.active = FALSE] \in Row
      BY <1>0, <1>17, RowsOfUsers DEF Row, Deactivate
    <2>. QED  BY <1>0, <1>17, <2>1 DEF Deactivate, TypeOK
  <1>18. ASSUME NEW u \in UserIds, NEW role \in Roles, SetRole(u, role) PROVE TypeOK'
    <2>1. [users[u] EXCEPT !.role = role] \in Row
      BY <1>0, <1>18, RowsOfUsers DEF Row, SetRole
    <2>. QED  BY <1>0, <1>18, <2>1 DEF SetRole, TypeOK
  <1>19. ASSUME Tick PROVE TypeOK'
    BY <1>0, <1>19 DEF Tick, TypeOK
  <1>20. ASSUME UNCHANGED vars PROVE TypeOK'
    BY <1>0, <1>20 DEF vars, TypeOK
  <1>. QED
    BY <1>1, <1>2, <1>3, <1>4, <1>5, <1>6, <1>7, <1>8, <1>9, <1>10, <1>11, <1>12, <1>13, <1>14,
       <1>15, <1>16, <1>17, <1>18, <1>19, <1>20 DEF Next, Step

------------------------------------------------------------------------------
(* How the tables change.                                                  *)

(* While a bootstrap owns the table nobody else writes it.                 *)
LEMMA WritersWait ==
  ASSUME IInv, [Next]_vars, users' # users
  PROVE  tableLock = Nobody \/ \E t \in Tasks : InsertOwner(t) /\ tableLock = t
  <1>1. ASSUME NEW t \in Tasks, InsertOwner(t) PROVE tableLock = t
    BY <1>1 DEF IInv, PerTask, LockHeld, InTable, Creating, InsertOwner, At
  <1>2. ASSUME NEW t \in Tasks, Step(t), ~InsertOwner(t), tableLock # Nobody PROVE users' = users
    BY <1>2 DEF Step, CreateOwner, LockUsersForBootstrap, Guard, CheckName, FindLoginUser,
         VerifyPassword, GenerateSessionToken, InsertSessionForActiveUser, AnswerLogin, Arrive,
         Admit, CreateUser, Respond, Dies
  <1>. QED
    BY <1>1, <1>2 DEF Next, vars, RevokeSession, Deactivate, SetRole, Tick

(* A row stays, under its name, and what is not active stays so.           *)
Keeps(u) == users[u] # Nobody =>
              /\ users'[u] # Nobody /\ users'[u].name = users[u].name
              /\ ~users[u].active => ~users'[u].active

LEMMA RowsStay ==
  ASSUME IInv, [Next]_vars
  PROVE  \A u \in UserIds : Keeps(u)
  <1>0. TypeOK
    BY DEF IInv
  <1>1. CASE users' = users
    BY <1>1 DEF Keeps
  <1>2. ASSUME NEW v \in UserIds, NEW name, NEW role, NewRow(v, name, role)
        PROVE  \A u \in UserIds : Keeps(u)
    BY <1>0, <1>2 DEF NewRow, Keeps, TypeOK, Known
  <1>3. ASSUME NEW v \in UserIds, Deactivate(v) PROVE \A u \in UserIds : Keeps(u)
    <2>1. users[v] \in Row /\ [users[v] EXCEPT !.active = FALSE] \in Row
      BY <1>0, <1>3, RowsOfUsers DEF Row, Deactivate
    <2>. QED  BY <1>0, <1>3, <2>1, NobodyAssumption DEF Deactivate, Keeps, TypeOK, Row
  <1>4. ASSUME NEW v \in UserIds, NEW role \in Roles, SetRole(v, role)
        PROVE  \A u \in UserIds : Keeps(u)
    <2>1. users[v] \in Row /\ [users[v] EXCEPT !.role = role] \in Row
      BY <1>0, <1>4, RowsOfUsers DEF Row, SetRole
    <2>. QED  BY <1>0, <1>4, <2>1, NobodyAssumption DEF SetRole, Keeps, TypeOK, Row
  <1>5. ASSUME NEW t \in Tasks, Step(t), users' # users PROVE InsertOwner(t) \/ CreateUser(t)
    BY <1>5 DEF Step, CreateOwner, LockUsersForBootstrap, Guard, CheckName, FindLoginUser,
         VerifyPassword, GenerateSessionToken, InsertSessionForActiveUser, AnswerLogin, Arrive,
         Admit, Respond, Dies
  <1>6. ASSUME NEW t \in Tasks, InsertOwner(t) PROVE \A u \in UserIds : Keeps(u)
    BY <1>2, <1>6 DEF InsertOwner
  <1>7. ASSUME NEW t \in Tasks, CreateUser(t) PROVE \A u \in UserIds : Keeps(u)
    BY <1>1, <1>2, <1>7 DEF CreateUser
  <1>. QED
    BY <1>1, <1>3, <1>4, <1>5, <1>6, <1>7 DEF Next, vars, RevokeSession, Tick

(* A session is written once and then only revoked.                        *)
LEMMA SessionsStay ==
  ASSUME IInv, [Next]_vars, NEW k \in Tokens
  PROVE  IF sessions[k] = Nobody
         THEN sessions'[k] = Nobody \/ \E t \in Tasks :
                /\ InsertSessionForActiveUser(t)
                /\ users[task[t].user].active /\ sessions'[k] = NewSession(t)
         ELSE sessions'[k] \in {sessions[k], [sessions[k] EXCEPT !.revoked = TRUE]}
  <1>0. TypeOK
    BY DEF IInv
  <1>1. ASSUME NEW t \in Tasks, Step(t), ~InsertSessionForActiveUser(t)
        PROVE  sessions' = sessions
    BY <1>1 DEF Step, CreateOwner, LockUsersForBootstrap, Guard, CheckName, FindLoginUser,
         VerifyPassword, GenerateSessionToken, AnswerLogin, Arrive, InsertOwner,
         Admit, CreateUser, Respond, Dies
  <1>2. ASSUME NEW t \in Tasks, InsertSessionForActiveUser(t)
        PROVE  IF sessions[k] = Nobody
               THEN sessions'[k] = Nobody \/ (users[task[t].user].active /\ sessions'[k] = NewSession(t))
               ELSE sessions'[k] = sessions[k]
    BY <1>0, <1>2 DEF InsertSessionForActiveUser, TypeOK
  <1>3. ASSUME NEW l \in Tokens, RevokeSession(l)
        PROVE  IF sessions[k] = Nobody THEN sessions'[k] = Nobody
               ELSE sessions'[k] \in {sessions[k], [sessions[k] EXCEPT !.revoked = TRUE]}
    BY <1>0, <1>3 DEF RevokeSession, TypeOK
  <1>. QED
    BY <1>1, <1>2, <1>3 DEF Next, vars, Deactivate, SetRole, Tick

LEMMA EndedStays ==
  ASSUME IInv, [Next]_vars, NEW k \in Tokens, NEW at, Ended(k, at)
  PROVE  Ended(k, at)'
  <1>0. sessions[k] \in Session /\ sessions[k].user \in UserIds
    BY RowsOfUsers DEF IInv, Ended, Session
  <1>1. /\ sessions'[k] \in Session /\ sessions'[k].user = sessions[k].user
        /\ sessions'[k].expires = sessions[k].expires
        /\ sessions[k].revoked => sessions'[k].revoked
    BY <1>0, SessionsStay DEF Ended, Session
  <1>2. Keeps(sessions[k].user) /\ users[sessions[k].user] # Nobody
    BY <1>0, RowsStay DEF IInv, Ended, SessionsHaveUsers
  <1>. QED  BY <1>1, <1>2, NobodyAssumption DEF Ended, Keeps

LEMMA NewRowIsUnique ==
  ASSUME TypeOK, NamesAreUnique, NEW u \in UserIds, NEW name \in Names, NEW role,
         NewRow(u, name, role), ~UsernameExists(name)
  PROVE  NamesAreUnique'
  <1>1. \A v \in UserIds \ {u} : users'[v] = users[v]
    BY DEF TypeOK, NewRow
  <1>2. users'[u].name = name
    BY DEF TypeOK, NewRow
  <1>. QED  BY <1>1, <1>2 DEF NamesAreUnique, UsernameExists, Known

LEMMA NamesStep == IInv /\ [Next]_vars => NamesAreUnique'
  <1>. SUFFICES ASSUME IInv, [Next]_vars PROVE NamesAreUnique'
    OBVIOUS
  <1>0. TypeOK /\ NamesAreUnique
    BY DEF IInv
  <1>1. CASE users' = users
    BY <1>0, <1>1 DEF NamesAreUnique, Known
  <1>2. ASSUME NEW t \in Tasks, InsertOwner(t) PROVE NamesAreUnique'
    <2>1. task[t].name \in Names
      BY <1>0, <1>2, Shapes DEF InsertOwner, At, Creating, Bootstrap
    <2>2. ~UsernameExists(task[t].name)
      BY <1>2 DEF InsertOwner, At, Creating, IInv, PerTask, StillFree
    <2>. QED  BY <1>0, <1>2, <2>1, <2>2, NewRowIsUnique DEF InsertOwner
  <1>3. ASSUME NEW t \in Tasks, CreateUser(t) PROVE NamesAreUnique'
    BY <1>0, <1>1, <1>3, NewRowIsUnique DEF CreateUser
  <1>4. ASSUME NEW v \in UserIds, Deactivate(v) \/ \E role \in Roles : SetRole(v, role)
        PROVE  NamesAreUnique'
    <2>1. \A u \in UserIds : users[u] = Nobody => users'[u] = Nobody
      BY <1>0, <1>4 DEF Deactivate, SetRole, TypeOK, Known
    <2>2. \A u \in UserIds : Keeps(u)
      BY RowsStay
    <2>. QED  BY <1>0, <2>1, <2>2 DEF NamesAreUnique, Known, Keeps
  <1>5. ASSUME NEW t \in Tasks, Step(t), users' # users PROVE InsertOwner(t) \/ CreateUser(t)
    BY <1>5 DEF Step, CreateOwner, LockUsersForBootstrap, Guard, CheckName, FindLoginUser,
         VerifyPassword, GenerateSessionToken, InsertSessionForActiveUser, AnswerLogin, Arrive,
         Admit, Respond, Dies
  <1>. QED
    BY <1>1, <1>2, <1>3, <1>4, <1>5 DEF Next, vars, RevokeSession, Tick

LEMMA SessionUsersStep == IInv /\ [Next]_vars => SessionsHaveUsers'
  <1>. SUFFICES ASSUME IInv, [Next]_vars, NEW k \in Tokens, sessions'[k] # Nobody
                PROVE  users'[sessions'[k].user] # Nobody
    BY DEF SessionsHaveUsers
  <1>0. TypeOK
    BY DEF IInv
  <1>1. CASE sessions[k] = Nobody
    <2>. PICK t \in Tasks : InsertSessionForActiveUser(t) /\ sessions'[k] = NewSession(t)
      BY <1>1, SessionsStay
    <2>1. task[t].kind = "login" /\ task[t].user \in UserIds
      BY <1>0, Shapes DEF InsertSessionForActiveUser, At, SigningIn
    <2>2. users[task[t].user] # Nobody
      BY <2>1 DEF IInv, PerTask, HasUser
    <2>. QED  BY <2>1, <2>2, RowsStay DEF Keeps, NewSession
  <1>2. CASE sessions[k] # Nobody
    <2>1. sessions[k] \in Session /\ sessions[k].user \in UserIds
      BY <1>0, <1>2, RowsOfUsers DEF Session
    <2>2. sessions'[k].user = sessions[k].user
      BY <1>2, <2>1, SessionsStay DEF Session
    <2>. QED  BY <1>2, <2>1, <2>2, RowsStay DEF IInv, SessionsHaveUsers, Keeps
  <1>. QED  BY <1>1, <1>2

LEMMA LockMoves ==
  ASSUME IInv, [Next]_vars, tableLock' # tableLock
  PROVE  tableLock = Nobody \/ \E t \in Tasks : tableLock = t /\ task'[t] = Idle
  <1>0. \A t \in Tasks : Ends(t) => task'[t] = Idle
    BY DEF IInv, TypeOK, Ends
  <1>1. \A t \in Tasks : InTable(t) => tableLock = t
    BY DEF IInv, PerTask, LockHeld
  <1>2. ASSUME NEW t \in Tasks, Guard(t) \/ CheckName(t) \/ InsertOwner(t)
        PROVE  tableLock = t /\ task'[t] = Idle
    <2>1. InTable(t)
      BY <1>2 DEF Guard, CheckName, InsertOwner, At, InTable, Creating
    <2>2. Ends(t)
      BY <1>2 DEF Guard, CheckName, InsertOwner, Refused
    <2>. QED  BY <1>0, <1>1, <2>1, <2>2
  <1>3. ASSUME NEW t \in Tasks, Dies(t) PROVE tableLock = t /\ task'[t] = Idle
    BY <1>0, <1>3 DEF Dies
  <1>4. ASSUME NEW t \in Tasks, LockUsersForBootstrap(t) PROVE tableLock = Nobody
    BY <1>4 DEF LockUsersForBootstrap
  <1>5. ASSUME NEW t \in Tasks,
               \/ CreateOwner(t) \/ FindLoginUser(t) \/ VerifyPassword(t)
               \/ GenerateSessionToken(t) \/ InsertSessionForActiveUser(t) \/ AnswerLogin(t)
               \/ Arrive(t) \/ Admit(t) \/ CreateUser(t) \/ Respond(t)
        PROVE  FALSE
    BY <1>5 DEF CreateOwner, FindLoginUser,
         VerifyPassword, GenerateSessionToken, InsertSessionForActiveUser, AnswerLogin, Arrive,
         Admit, CreateUser, Respond
  <1>6. ASSUME NEW t \in Tasks, Step(t) PROVE tableLock = Nobody \/ (tableLock = t /\ task'[t] = Idle)
    BY <1>2, <1>3, <1>4, <1>5, <1>6 DEF Step
  <1>. QED
    BY <1>6 DEF Next, vars, RevokeSession, Deactivate, SetRole, Tick

(* A task that does not move keeps its part of the invariant.              *)
LEMMA Bystander ==
  ASSUME IInv, [Next]_vars, NEW s \in Tasks, task'[s] = task[s]
  PROVE  PerTask(s)'
  <1>. USE IdentityAssumption
  <1>0. TypeOK /\ PerTask(s)
    BY DEF IInv
  <1>1. InTable(s) => task[s] # Idle /\ tableLock = s
    BY <1>0 DEF InTable, Creating, Idle, PerTask, LockHeld
  <1>2. InTable(s) => tableLock' = s
    BY <1>1, LockMoves
  <1>3. InTable(s) => users' = users
    <2>1. ASSUME InsertOwner(s) PROVE task'[s] = Idle
      BY <1>0, <2>1 DEF InsertOwner, Refused, Ends, TypeOK
    <2>. QED  BY <1>1, <2>1, WritersWait
  <1>4. LockHeld(s)'
    BY <1>2 DEF LockHeld, InTable, Creating
  <1>5. StillSo(s)' /\ StillFree(s)'
    BY <1>0, <1>3 DEF PerTask, StillSo, StillFree, InTable, Creating, Permitted, UsersTableIsEmpty,
         ActiveUserWithRoleExists, UsernameExists, Known
  <1>6. HasUser(s)'
    <2>1. task[s].kind = "login" => task[s].user \in UserIds
      BY <1>0, Shapes DEF SigningIn
    <2>. QED  BY <1>0, <2>1, RowsStay DEF PerTask, HasUser, Keeps
  <1>7. LateIsOver(s)'
    <2>. SUFFICES ASSUME task[s].kind = "request", task[s].late
                  PROVE  task[s].pc = "admit" /\ Ended(task[s].token, task[s].at)'
      BY DEF LateIsOver, Ended
    <2>1. task[s].token \in Tokens
      BY <1>0, Shapes DEF Request
    <2>2. task[s].pc = "admit" /\ Ended(task[s].token, task[s].at)
      BY <1>0 DEF PerTask, LateIsOver
    <2>. DEFINE k == task[s].token
                at == task[s].at
    <2>3. Ended(k, at)'
      BY <2>1, <2>2, EndedStays
    <2>. QED  BY <2>2, <2>3
  <1>. QED  BY <1>4, <1>5, <1>6, <1>7 DEF PerTask

------------------------------------------------------------------------------
(* The task that moves.                                                    *)

LEMMA IdleIsFine ==
  ASSUME NEW s \in Tasks, task'[s] = Idle
  PROVE  PerTask(s)'
  BY DEF PerTask, LockHeld, StillSo, StillFree, HasUser, LateIsOver, InTable, Creating, Idle

LEMMA BootstrapMoves ==
  ASSUME IInv, NEW s \in Tasks,
         \/ CreateOwner(s) \/ LockUsersForBootstrap(s) \/ Guard(s) \/ CheckName(s)
         \/ InsertOwner(s)
  PROVE  PerTask(s)'
  <1>0. TypeOK /\ PerTask(s)
    BY DEF IInv
  <1>. DEFINE Kept == /\ task'[s].kind = task[s].kind /\ task'[s].name = task[s].name
                      /\ users' = users
  <1>1. ASSUME Creating(s), task'[s].kind = task[s].kind
        PROVE  HasUser(s)' /\ LateIsOver(s)'
    BY <1>1 DEF HasUser, LateIsOver, Creating
  <1>2. ASSUME NEW pc, Creating(s), Goto(s, pc)
        PROVE  task'[s].kind = task[s].kind /\ task'[s].name = task[s].name /\ task'[s].pc = pc
    BY <1>0, <1>2, Shapes DEF Goto, TypeOK, Bootstrap
  <1>3. CASE CreateOwner(s)
    <2>. PICK kind \in {"operator", "setup"}, name \in Names :
           task' = [task EXCEPT ![s] = [kind |-> kind, pc |-> "lock", name |-> name]]
      BY <1>3 DEF CreateOwner, Begins
    <2>1. task'[s] = [kind |-> kind, pc |-> "lock", name |-> name]
      BY <1>0 DEF TypeOK
    <2>. QED  BY <2>1 DEF PerTask, LockHeld, StillSo, StillFree, HasUser, LateIsOver, InTable, Creating
  <1>4. CASE LockUsersForBootstrap(s)
    <2>1. Creating(s) /\ Goto(s, "guard") /\ tableLock' = s
      BY <1>4 DEF LockUsersForBootstrap, At, Creating
    <2>2. Kept /\ task'[s].pc = "guard"
      BY <1>2, <1>4, <2>1 DEF LockUsersForBootstrap
    <2>. QED  BY <1>1, <2>1, <2>2 DEF PerTask, LockHeld, StillSo, StillFree, InTable, Creating
  <1>5. CASE Guard(s)
    <2>1. Creating(s) /\ task[s].pc = "guard" /\ tableLock = s
      BY <1>0, <1>5 DEF Guard, At, Creating, PerTask, LockHeld, InTable
    <2>2. CASE Permitted(s)
      <3>1. Goto(s, "name") /\ users' = users /\ tableLock' = s
        BY <1>5, <2>1, <2>2 DEF Guard
      <3>2. Kept /\ task'[s].pc = "name"
        BY <1>2, <2>1, <3>1
      <3>3. Permitted(s)'
        BY <2>2, <3>2 DEF Permitted, UsersTableIsEmpty, ActiveUserWithRoleExists, Known
      <3>. QED  BY <1>1, <2>1, <3>1, <3>2, <3>3 DEF PerTask, LockHeld, StillSo, StillFree, InTable, Creating
    <2>3. CASE ~Permitted(s)
      BY <1>0, <1>5, <2>3, IdleIsFine DEF Guard, Refused, Ends, TypeOK
    <2>. QED  BY <2>2, <2>3
  <1>6. CASE CheckName(s)
    <2>1. Creating(s) /\ task[s].pc = "name" /\ tableLock = s /\ Permitted(s)
      BY <1>0, <1>6 DEF CheckName, At, Creating, PerTask, LockHeld, InTable, StillSo
    <2>2. CASE ~UsernameExists(task[s].name)
      <3>1. Goto(s, "insert") /\ users' = users /\ tableLock' = s
        BY <1>6, <2>1, <2>2 DEF CheckName
      <3>2. Kept /\ task'[s].pc = "insert"
        BY <1>2, <2>1, <3>1
      <3>3. Permitted(s)' /\ ~UsernameExists(task[s].name)'
        BY <2>1, <2>2, <3>2 DEF Permitted, UsersTableIsEmpty, ActiveUserWithRoleExists, UsernameExists, Known
      <3>. QED  BY <1>1, <2>1, <3>1, <3>2, <3>3 DEF PerTask, LockHeld, StillSo, StillFree, InTable, Creating
    <2>3. CASE UsernameExists(task[s].name)
      BY <1>0, <1>6, <2>3, IdleIsFine DEF CheckName, Refused, Ends, TypeOK
    <2>. QED  BY <2>2, <2>3
  <1>7. CASE InsertOwner(s)
    BY <1>0, <1>7, IdleIsFine DEF InsertOwner, Refused, Ends, TypeOK
  <1>. QED  BY <1>3, <1>4, <1>5, <1>6, <1>7

LEMMA LoginMoves ==
  ASSUME IInv, NEW s \in Tasks,
         \/ FindLoginUser(s) \/ VerifyPassword(s) \/ GenerateSessionToken(s)
         \/ InsertSessionForActiveUser(s) \/ AnswerLogin(s)
  PROVE  PerTask(s)'
  <1>0. TypeOK /\ PerTask(s)
    BY DEF IInv
  <1>1. CASE FindLoginUser(s)
    <2>. PICK u \in Known :
           task' = [task EXCEPT ![s] = [kind |-> "login", pc |-> "verify", user |-> u,
                    seen |-> [role |-> users[u].role, active |-> users[u].active],
                    token |-> Nobody, at |-> now, attempt |-> 1]]
      BY <1>1 DEF FindLoginUser, Begins
    <2>1. task'[s].kind = "login" /\ task'[s].user = u /\ users' = users /\ users[u] # Nobody
      BY <1>0, <1>1 DEF TypeOK, FindLoginUser, Known
    <2>. QED  BY <2>1 DEF PerTask, LockHeld, StillSo, StillFree, HasUser, LateIsOver, InTable, Creating
  <1>2. CASE ~FindLoginUser(s)
    <2>1. task[s].kind = "login" /\ users' = users
      BY <1>2 DEF VerifyPassword, GenerateSessionToken, InsertSessionForActiveUser, AnswerLogin, At
    <2>2. task[s] \in SigningIn /\ users[task[s].user] # Nobody
      BY <1>0, <2>1, Shapes DEF PerTask, HasUser
    <2>3. task'[s] = Idle \/ (task'[s].kind = "login" /\ task'[s].user = task[s].user)
      <3>1. \A pc : Goto(s, pc) => task'[s].kind = "login" /\ task'[s].user = task[s].user
        BY <1>0, <2>1, <2>2 DEF Goto, TypeOK, SigningIn
      <3>2. Ends(s) => task'[s] = Idle
        BY <1>0 DEF Ends, TypeOK
      <3>3. CASE VerifyPassword(s) \/ AnswerLogin(s)
        BY <3>1, <3>2, <3>3 DEF VerifyPassword, AnswerLogin
      <3>4. CASE GenerateSessionToken(s)
        <4>. PICK k \in Tokens :
               task' = [task EXCEPT ![s].pc = "session", ![s].token = k, ![s].at = now]
          BY <3>4 DEF GenerateSessionToken
        <4>1. task' = [task EXCEPT ![s] = [task[s] EXCEPT !.pc = "session", !.token = k, !.at = now]]
          BY <1>0, <2>2 DEF TypeOK
        <4>2. task'[s] = [task[s] EXCEPT !.pc = "session", !.token = k, !.at = now]
          BY <1>0, <4>1 DEF TypeOK
        <4>3. \A r \in SigningIn :
                LET q == [r EXCEPT !.pc = "session", !.token = k, !.at = now]
                IN  q.kind = r.kind /\ q.user = r.user
          BY Zenon DEF SigningIn
        <4>. QED  BY <2>1, <2>2, <4>2, <4>3, Zenon
      <3>5. CASE InsertSessionForActiveUser(s)
        <4>1. \/ Goto(s, "answer") \/ Ends(s)
              \/ task' = [task EXCEPT ![s].pc = "token", ![s].attempt = @ + 1]
          BY <3>5 DEF InsertSessionForActiveUser
        <4>2. task' = [task EXCEPT ![s].pc = "token", ![s].attempt = @ + 1] =>
                task'[s].kind = "login" /\ task'[s].user = task[s].user
          BY <1>0, <2>1, <2>2 DEF TypeOK, SigningIn
        <4>. QED  BY <3>1, <3>2, <4>1, <4>2
      <3>. QED  BY <1>2, <3>3, <3>4, <3>5
    <2>4. CASE task'[s].kind = "login" /\ task'[s].user = task[s].user
      BY <2>1, <2>2, <2>4 DEF PerTask, LockHeld, StillSo, StillFree, HasUser, LateIsOver, InTable, Creating
    <2>. QED  BY <2>3, <2>4, IdleIsFine
  <1>. QED  BY <1>1, <1>2

(* What was over when the request was sent is over when it is decided.     *)
LEMMA LateIsRefused ==
  ASSUME IInv, NEW s \in Tasks, Admit(s), task[s].late
  PROVE  task'[s] = Idle
  <1>0. TypeOK /\ PerTask(s)
    BY DEF IInv
  <1>1. task[s].kind = "request" /\ task[s].token \in Tokens /\ task[s].at \in Nat
    BY <1>0, Shapes DEF Admit, At, Request
  <1>2. Ended(task[s].token, task[s].at)
    BY <1>0, <1>1 DEF PerTask, LateIsOver
  <1>3. sessions[task[s].token].expires \in Nat
    BY <1>0, <1>1, <1>2, RowsOfUsers DEF Ended, Session
  <1>4. ~IsPrincipal(task[s].token, task[s].at)
    BY <1>1, <1>2, <1>3 DEF Ended, IsPrincipal
  <1>. QED  BY <1>0, <1>4 DEF Admit, Admits, Ends, TypeOK

LEMMA RequestMoves ==
  ASSUME IInv, NEW s \in Tasks, Arrive(s) \/ Admit(s) \/ CreateUser(s) \/ Respond(s)
  PROVE  PerTask(s)'
  <1>0. TypeOK /\ PerTask(s)
    BY DEF IInv
  <1>1. CASE Arrive(s)
    <2>. PICK k \in Tokens, needs \in {"session", "identity.manage"} :
           task' = [task EXCEPT ![s] = [kind |-> "request", pc |-> "admit", token |-> k,
                      at |-> now, needs |-> needs, late |-> IsOver(k)]]
      BY <1>1 DEF Arrive, Begins
    <2>1. task'[s] = [kind |-> "request", pc |-> "admit", token |-> k,
                      at |-> now, needs |-> needs, late |-> IsOver(k)]
      BY <1>0 DEF TypeOK
    <2>2. IsOver(k) => Ended(k, now)
      BY DEF IsOver, Ended
    <2>3. users' = users /\ sessions' = sessions
      BY <1>1 DEF Arrive
    <2>. QED  BY <2>1, <2>2, <2>3 DEF PerTask, LockHeld, StillSo, StillFree, HasUser, LateIsOver,
                InTable, Creating, Ended
  <1>2. CASE Admit(s)
    <2>1. task[s] \in Request
      BY <1>0, <1>2, Shapes DEF Admit, At
    <2>2. task'[s] = Idle \/ (task'[s].kind = "request" /\ task'[s].late = task[s].late)
      BY <1>0, <1>2, <2>1 DEF Admit, Goto, Ends, TypeOK, Request
    <2>3. CASE task'[s].kind = "request" /\ task'[s].late = task[s].late /\ ~task[s].late
      BY <2>3 DEF PerTask, LockHeld, StillSo, StillFree, HasUser, LateIsOver, InTable, Creating
    <2>. QED  BY <1>2, <2>2, <2>3, LateIsRefused, IdleIsFine
  <1>3. CASE CreateUser(s) \/ Respond(s)
    BY <1>0, <1>3, IdleIsFine DEF CreateUser, Respond, Ends, TypeOK
  <1>. QED  BY <1>1, <1>2, <1>3

LEMMA TasksStep == IInv /\ [Next]_vars => \A s \in Tasks : PerTask(s)'
  <1>. SUFFICES ASSUME IInv, [Next]_vars, NEW s \in Tasks PROVE PerTask(s)'
    OBVIOUS
  <1>0. TypeOK
    BY DEF IInv
  <1>1. CASE task'[s] = task[s]
    BY <1>1, Bystander
  <1>2. CASE task'[s] # task[s]
    <2>1. Step(s)
      BY <1>0, <1>2, OneTask DEF Next, vars, RevokeSession, Deactivate, SetRole, Tick
    <2>2. Dies(s) => task'[s] = Idle
      BY <1>0 DEF Dies, Ends, TypeOK
    <2>. QED  BY <2>1, <2>2, BootstrapMoves, LoginMoves, RequestMoves, IdleIsFine DEF Step
  <1>. QED  BY <1>1, <1>2

------------------------------------------------------------------------------
(***************************************************************************)
(* What holds between any two statements of identityRepository: types, one *)
(* username each, users that stay, and what each task has seen.            *)
(***************************************************************************)
THEOREM IdentityInvariant == Spec => []IInv
  <1>1. IInv /\ [Next]_vars => IInv'
    BY TypeStep, NamesStep, SessionUsersStep, TasksStep DEF IInv
  <1>. QED  BY <1>1, InitIInv, PTL DEF Spec

(***************************************************************************)
(* Every variable keeps its type: no attempt beyond MAX_SESSION_TOKEN_     *)
(* ATTEMPTS, no row without its columns.                                   *)
(***************************************************************************)
THEOREM TypeCorrect == Spec => []TypeOK
  <1>1. IInv => TypeOK
    BY DEF IInv
  <1>. QED  BY <1>1, IdentityInvariant, PTL

(***************************************************************************)
(* Usernames are unique, although InsertOwner does not ask the constraint. *)
(***************************************************************************)
THEOREM UsernamesAreUnique == Spec => []NamesAreUnique
  <1>1. IInv => NamesAreUnique
    BY DEF IInv
  <1>. QED  BY <1>1, IdentityInvariant, PTL

(***************************************************************************)
(* Neither bootstrap creates an owner it should have refused to create.    *)
(***************************************************************************)
THEOREM OnlyFirstOwners == Spec => FirstOwnerOnly
  <1>1. ASSUME IInv, [Next]_vars, NEW t \in Tasks,
               task[t] # Idle, Creating(t), users' # users, task'[t] = Idle
        PROVE  Permitted(t)
    <2>1. TypeOK
      BY <1>1 DEF IInv
    <2>2. Step(t)
      BY <1>1, <2>1, OneTask DEF Next, vars, RevokeSession, Deactivate, SetRole, Tick
    <2>3. InsertOwner(t)
      BY <1>1, <2>2 DEF Step, CreateOwner, LockUsersForBootstrap, Guard, CheckName, FindLoginUser,
           VerifyPassword, GenerateSessionToken, InsertSessionForActiveUser, AnswerLogin, Arrive,
           Admit, CreateUser, Respond, Dies, At, Creating
    <2>. QED  BY <1>1, <2>3 DEF InsertOwner, At, IInv, PerTask, StillSo, Creating
  <1>2. IInv /\ [Next]_vars =>
          [\A t \in Tasks : /\ Creates(t, "setup") => Known = {}
                            /\ Creates(t, "operator") => ~ActiveUserWithRoleExists]_vars
    BY <1>1 DEF Creates, Creating, Permitted, UsersTableIsEmpty
  <1>. QED  BY <1>2, IdentityInvariant, PTL DEF Spec, FirstOwnerOnly

(***************************************************************************)
(* A session begins with an active user and changes only by being revoked. *)
(***************************************************************************)
THEOREM SessionsOnlyGranted == Spec => SessionsAreGranted
  <1>1. ASSUME IInv, [Next]_vars, NEW k \in Tokens, sessions'[k] # sessions[k]
        PROVE  IF sessions[k] = Nobody THEN users[sessions'[k].user].active
               ELSE sessions'[k] = [sessions[k] EXCEPT !.revoked = TRUE]
    <2>1. CASE sessions[k] = Nobody
      <3>. PICK t \in Tasks : users[task[t].user].active /\ sessions'[k] = NewSession(t)
        BY <1>1, <2>1, SessionsStay
      <3>1. sessions'[k].user = task[t].user
        BY DEF NewSession
      <3>. QED  BY <2>1, <3>1
    <2>2. CASE sessions[k] # Nobody
      BY <1>1, <2>2, SessionsStay
    <2>. QED  BY <2>1, <2>2
  <1>2. IInv /\ [Next]_vars =>
          [\A k \in Tokens : sessions'[k] # sessions[k] =>
             IF sessions[k] = Nobody THEN users[sessions'[k].user].active
             ELSE sessions'[k] = [sessions[k] EXCEPT !.revoked = TRUE]]_vars
    BY <1>1
  <1>. QED  BY <1>2, IdentityInvariant, PTL DEF Spec, SessionsAreGranted

(***************************************************************************)
(* No request sent after its session was over gets in.                     *)
(***************************************************************************)
THEOREM WhatIsOverStaysOver == Spec => OverIsOver
  <1>1. ASSUME IInv, [Next]_vars, NEW t \in Tasks,
               task[t] # Idle, task[t].kind = "request", task[t].late
        PROVE  task'[t] # [task[t] EXCEPT !.pc = "handler"]
    <2>1. TypeOK /\ task[t] \in Request /\ task[t].pc = "admit"
      BY <1>1, Shapes DEF IInv, PerTask, LateIsOver
    <2>2. [task[t] EXCEPT !.pc = "handler"] \notin {Idle, task[t]}
      BY <2>1 DEF Request, Idle
    <2>3. CASE task'[t] # task[t]
      <3>1. Step(t)
        BY <2>1, <2>3, <1>1, OneTask DEF Next, vars, RevokeSession, Deactivate, SetRole, Tick
      <3>2. Admit(t) \/ Dies(t)
        BY <1>1, <2>1, <3>1 DEF Step, CreateOwner, LockUsersForBootstrap, Guard, CheckName,
             InsertOwner, FindLoginUser, VerifyPassword, GenerateSessionToken,
             InsertSessionForActiveUser, AnswerLogin, Arrive, CreateUser, Respond, At, Begins
      <3>3. task'[t] = Idle
        BY <1>1, <2>1, <3>2, LateIsRefused DEF Dies, Ends, TypeOK
      <3>. QED  BY <2>2, <3>3
    <2>. QED  BY <2>2, <2>3
  <1>2. IInv /\ [Next]_vars =>
          [\A t \in Tasks : task[t] # Idle /\ task[t].kind = "request" /\ task[t].late =>
             task'[t] # [task[t] EXCEPT !.pc = "handler"]]_vars
    BY <1>1
  <1>. QED  BY <1>2, IdentityInvariant, PTL DEF Spec, OverIsOver

----------------------------------------------------------------------------
(* Signing in and out.  A session that was presented to a sign-out the     *)
(* server answered is over, and a session that is over stays over: only an *)
(* unused one is handed out.  In a tab, a request under way says what the  *)
(* tab must be: nobody signs in while `me` is still asked, and a read is   *)
(* under way only under the sign-in that sent it.  So no late answer finds *)
(* a tab it does not belong to.                                            *)


(* A session somebody has been given; one nobody can use again.            *)
Begun(s)   == s # None => session[s] # "unused"
Revoked(s) == s # None => session[s] = "over"

SessionsInv ==
  /\ Begun(cookie)
  /\ \A r \in flight :
       /\ Begun(r.cookie)
       /\ r.kind = "login" /\ r.answer \in Sessions => Begun(r.answer)
       /\ r.kind = "logout" /\ r.answer = "ok" => Revoked(r.cookie)
  /\ \A t \in Tabs : Revoked(left[t])

(* What the tab is while a request of it is under way.                     *)
Fits(r) ==
  /\ r.kind = "me" => r.heard /\ auth[r.tab] \in {"pending", "refetching"}
  /\ r.kind = "setup" /\ r.heard => auth[r.tab] = "setup"
  /\ r.kind = "login" /\ r.heard => auth[r.tab] = "anonymous"
  /\ r.kind = "logout" /\ r.heard => auth[r.tab] \in {"anonymous", "authenticated"}
  /\ r.kind = "write" => r.heard /\ auth[r.tab] \in {"anonymous", "authenticated"}
  /\ r.kind = "read" => r.heard /\ auth[r.tab] = "authenticated" /\ r.signIn = signIns[r.tab]

RequestsFit == \A r \in flight : Fits(r)

Single == {"me", "setup", "login"}
AskedOnce ==
  \A r, q \in flight :
    r.tab = q.tab /\ r.kind = q.kind /\ r.kind \in Single /\ r.heard /\ q.heard => r = q

NotYetSignedIn ==
  \A t \in Tabs : auth[t] \notin {"anonymous", "authenticated"} => signIns[t] = 0

TabsInv == RequestsFit /\ AskedOnce /\ NotYetSignedIn /\ ShownIsHers /\ NeverGreetedAsNew

SignInInv == SignInTypeOK /\ SessionsInv /\ TabsInv

------------------------------------------------------------------------------
(* Types.                                                                  *)

Answers == {"none", "ok", "setup", "refused"} \cup Sessions

LEMMA RequestShape ==
  ASSUME SignInTypeOK, NEW r \in flight
  PROVE  /\ r \in TabRequest /\ r.tab \in Tabs /\ r.kind \in Kinds
         /\ r.cookie \in Sessions \cup {None} /\ r.signIn \in Nat
         /\ r.heard \in BOOLEAN /\ r.answer \in Answers
  BY DEF SignInTypeOK, TabRequest, Answers

LEMMA NewShape ==
  ASSUME SignInTypeOK, NEW t \in Tabs, NEW kind \in Kinds
  PROVE  /\ New(t, kind) \in TabRequest
         /\ New(t, kind).tab = t /\ New(t, kind).kind = kind /\ New(t, kind).cookie = cookie
         /\ New(t, kind).signIn = signIns[t] /\ New(t, kind).heard /\ New(t, kind).answer = "none"
  BY DEF SignInTypeOK, TabRequest, New

(* The same request, answered.                                             *)
Carries(q, r) == /\ q.tab = r.tab /\ q.kind = r.kind /\ q.cookie = r.cookie
                 /\ q.signIn = r.signIn /\ q.heard = r.heard

LEMMA AnsweredShape ==
  ASSUME SignInTypeOK, NEW r \in flight, NEW answer \in Answers, Answered(r, answer)
  PROVE  \E q \in TabRequest : /\ Carries(q, r) /\ q.answer = answer
                            /\ flight' = (flight \ {r}) \cup {q}
  <1> DEFINE q == [r EXCEPT !.answer = answer]
  <1>1. q \in TabRequest /\ Carries(q, r) /\ q.answer = answer
    BY RequestShape DEF TabRequest, Carries, Answers
  <1>2. flight' = (flight \ {r}) \cup {q}
    BY DEF Answered
  <1> HIDE DEF q
  <1>. QED  BY <1>1, <1>2

(* What a page leaves under way when it goes.                              *)
LEMMA UnheardShape ==
  ASSUME SignInTypeOK, NEW rs \in SUBSET flight, NEW q \in Unheard(rs)
  PROVE  /\ q \in TabRequest
         /\ \/ q \in flight /\ q \notin rs
            \/ \E r \in rs : /\ q.tab = r.tab /\ q.kind = r.kind /\ q.cookie = r.cookie
                             /\ q.answer = r.answer /\ ~q.heard
                             /\ q.kind \in {"login", "logout", "setup"}
  <1>1. CASE q \in flight \ rs
    BY <1>1 DEF SignInTypeOK
  <1>2. CASE q \notin flight \ rs
    <2>1. PICK r \in rs : /\ r.kind \in {"login", "logout", "setup"}
                          /\ q = [r EXCEPT !.heard = FALSE]
      BY <1>2 DEF Unheard
    <2>2. r \in TabRequest
      BY RequestShape
    <2>. QED  BY <2>1, <2>2 DEF TabRequest
  <1>. QED  BY <1>1, <1>2

(* What opening a tab leaves under way.                                    *)
LEMMA OpenShape ==
  ASSUME SignInTypeOK, NEW t \in Tabs, Open(t), NEW q \in flight'
  PROVE  /\ q \in TabRequest
         /\ \/ q \in flight /\ q.tab # t
            \/ \E r \in flight : /\ r.tab = t /\ q.tab = t /\ q.kind = r.kind
                                 /\ q.cookie = r.cookie /\ q.answer = r.answer /\ ~q.heard
                                 /\ q.kind \in {"login", "logout", "setup"}
            \/ /\ q.tab = t /\ q.kind = "me" /\ q.cookie = cookie /\ q.heard
               /\ q.answer = "none"
               /\ \A p \in flight' : p.tab = t /\ p.kind = "me" => p = q
  <1> DEFINE mine == {r \in flight : r.tab = t}
             asks == [New(t, "me") EXCEPT !.signIn = 0]
  <1>1. flight' = Unheard(mine) \cup {asks}
    BY DEF Open
  <1>2. /\ asks \in TabRequest /\ asks.tab = t /\ asks.kind = "me" /\ asks.cookie = cookie
        /\ asks.heard /\ asks.answer = "none"
    BY NewShape DEF Kinds, TabRequest
  <1> HIDE DEF asks
  <1>3. \A p \in Unheard(mine) :
          /\ p \in TabRequest
          /\ \/ p \in flight /\ p.tab # t
             \/ \E r \in flight : /\ r.tab = t /\ p.tab = t /\ p.kind = r.kind
                                  /\ p.cookie = r.cookie /\ p.answer = r.answer /\ ~p.heard
                                  /\ p.kind \in {"login", "logout", "setup"}
    BY UnheardShape
  <1>4. \A p \in flight' : p.tab = t /\ p.kind = "me" => p = asks
    BY <1>1, <1>3
  <1> HIDE DEF mine
  <1>. QED  BY <1>1, <1>2, <1>3, <1>4

LEMMA EndSessionShape ==
  ASSUME SignInTypeOK, NEW t \in Tabs, NEW why \in {"session-ended", "signed-out"}, NEW r \in flight,
         endSession(t, why, r)
  PROVE  /\ auth' = [auth EXCEPT ![t] = "anonymous"]
         /\ reason' = [reason EXCEPT ![t] = why]
         /\ shown' = [shown EXCEPT ![t] = None]
         /\ flight' \subseteq flight \ {r}
         /\ \A q \in flight' : ~(q.tab = t /\ q.kind = "read")
  BY DEF endSession

LEMMA ServeShape ==
  ASSUME SignInTypeOK, NEW r \in flight, Serve(r)
  PROVE  /\ \E q \in TabRequest : /\ Carries(q, r)
                               /\ flight' = (flight \ {r}) \cup {q}
         /\ session' \in [Sessions -> {"unused", "alive", "over"}] /\ owned' \in BOOLEAN
         /\ UNCHANGED <<cookie, page, opens>>
  <1>1. CASE ServeRead(r)
    <2>1. PICK answer \in Answers : Answered(r, answer)
      BY <1>1 DEF ServeRead, Answers
    <2>. QED  BY <1>1, <2>1, AnsweredShape DEF ServeRead, server, SignInTypeOK
  <1>2. CASE ServeLogin(r)
    <2>1. PICK answer \in Answers : Answered(r, answer)
      BY <1>2 DEF ServeLogin, Answers
    <2>. QED  BY <1>2, <2>1, AnsweredShape DEF ServeLogin, SignInTypeOK
  <1>3. CASE ServeLogout(r)
    <2>1. PICK answer \in Answers : Answered(r, answer)
      BY <1>3 DEF ServeLogout, Answers
    <2>2. session' \in [Sessions -> {"unused", "alive", "over"}]
      BY <1>3 DEF ServeLogout, SignInTypeOK
    <2>. QED  BY <1>3, <2>1, <2>2, AnsweredShape DEF ServeLogout, SignInTypeOK
  <1>4. CASE ServeSetup(r)
    <2>1. PICK answer \in Answers : Answered(r, answer)
      BY <1>4 DEF ServeSetup, Answers
    <2>. QED  BY <1>4, <2>1, AnsweredShape DEF ServeSetup, SignInTypeOK
  <1>. QED  BY <1>1, <1>2, <1>3, <1>4 DEF Serve

LEMMA SignInTypeStep ==
  ASSUME SignInTypeOK, [SignInNext]_signInVars
  PROVE  SignInTypeOK'
  <1>1. CASE UNCHANGED signInVars
    BY <1>1 DEF signInVars, SignInTypeOK
  <1>2. ASSUME NEW t \in Tabs, Open(t) PROVE SignInTypeOK'
    <2>1. flight' \subseteq TabRequest
      BY <1>2, OpenShape
    <2>. QED  BY <1>2, <2>1 DEF Open, server, SignInTypeOK, Auths, Reasons
  <1>3. ASSUME NEW t \in Tabs, NEW kind \in Kinds, Send(t, kind) PROVE flight' \subseteq TabRequest
    BY <1>3, NewShape DEF Send, SignInTypeOK
  <1>4. ASSUME NEW t \in Tabs, retryBootstrap(t) PROVE SignInTypeOK'
    <2>1. flight' \subseteq TabRequest
      BY <1>3, <1>4 DEF retryBootstrap, Kinds
    <2>. QED  BY <1>4, <2>1 DEF retryBootstrap, server, SignInTypeOK, Auths
  <1>5. ASSUME NEW t \in Tabs, login(t) \/ setUpFirstOwner(t) \/ SignOut(t) \/ Works(t)
        PROVE  SignInTypeOK'
    <2>1. flight' \subseteq TabRequest
      BY <1>3, <1>5 DEF login, setUpFirstOwner, SignOut, Works, Kinds
    <2>. QED  BY <1>5, <2>1
              DEF login, setUpFirstOwner, SignOut, Works, server, page, SignInTypeOK
  <1>6. ASSUME NEW r \in flight, Serve(r) PROVE SignInTypeOK'
    <2>1. flight' \subseteq TabRequest
      BY <1>6, ServeShape DEF SignInTypeOK
    <2>. QED  BY <1>6, <2>1, ServeShape DEF page, SignInTypeOK
  <1>7. ASSUME NEW r \in flight, Handles(r) PROVE SignInTypeOK'
    <2>1. r.tab \in Tabs /\ r.cookie \in Sessions \cup {None} /\ r.signIn \in Nat
      BY RequestShape
    <2>2. CASE MeAnswered(r)
      BY <2>1, <2>2 DEF MeAnswered, Gone, server, SignInTypeOK, Auths
    <2>3. CASE completeSignIn(r)
      BY <2>1, <2>3 DEF completeSignIn, Gone, server, SignInTypeOK, Auths
    <2>4. CASE completeSignOut(r)
      BY <2>1, <2>4, EndSessionShape DEF completeSignOut, server, SignInTypeOK, Auths, Reasons
    <2>5. CASE completeSetup(r)
      BY <2>1, <2>5 DEF completeSetup, Gone, server, SignInTypeOK, Auths
    <2>6. CASE SignInFailed(r)
      BY <2>6 DEF SignInFailed, Gone, server, page, SignInTypeOK
    <2>7. ASSUME reportSessionEnded(r.tab, r)
          PROVE  /\ auth' \in [Tabs -> Auths] /\ reason' \in [Tabs -> Reasons]
                 /\ shown' \in [Tabs -> Nat \cup {None}] /\ flight' \subseteq TabRequest
      BY <2>1, <2>7, EndSessionShape DEF reportSessionEnded, Gone, SignInTypeOK, Auths, Reasons
    <2>8. CASE ReadAnswered(r)
      BY <2>1, <2>7, <2>8 DEF ReadAnswered, Gone, server, SignInTypeOK
    <2>9. CASE WriteAnswered(r)
      BY <2>1, <2>7, <2>9 DEF WriteAnswered, Gone, server, SignInTypeOK
    <2>10. CASE Orphaned(r)
      BY <2>10 DEF Orphaned, Gone, server, page, SignInTypeOK
    <2>11. CASE Breaks(r)
      BY <2>1, <2>11 DEF Breaks, Failed, Gone, server, SignInTypeOK, Auths
    <2>. QED  BY <1>7, <2>2, <2>3, <2>4, <2>5, <2>6, <2>8, <2>9, <2>10, <2>11 DEF Handles
  <1>8. ASSUME NEW s \in Sessions, Lapses(s) PROVE SignInTypeOK'
    BY <1>8 DEF Lapses, page, SignInTypeOK
  <1>. QED  BY <1>1, <1>2, <1>4, <1>5, <1>6, <1>7, <1>8 DEF SignInNext

------------------------------------------------------------------------------
(* Sessions.                                                               *)

(* A session moves on and never back.                                      *)
MovesOn == \A s \in Sessions : /\ session[s] # "unused" => session'[s] # "unused"
                               /\ session[s] = "over" => session'[s] = "over"

(* Requests are of sessions that were given out, also after a step that    *)
(* only loses, answers or sends some.                                      *)
Sound(r) ==
  /\ Begun(r.cookie)
  /\ r.kind = "login" /\ r.answer \in Sessions => Begun(r.answer)
  /\ r.kind = "logout" /\ r.answer = "ok" => Revoked(r.cookie)

LEMMA SoundStays ==
  ASSUME SignInTypeOK, MovesOn, NEW r \in TabRequest, Sound(r)
  PROVE  /\ r.cookie # None => session'[r.cookie] # "unused"
         /\ r.kind = "login" /\ r.answer \in Sessions => session'[r.answer] # "unused"
         /\ r.kind = "logout" /\ r.answer = "ok" /\ r.cookie # None
              => session'[r.cookie] = "over"
  <1>1. r.cookie \in Sessions \cup {None}
    BY DEF TabRequest
  <1>. QED  BY <1>1, SignInAssumption DEF Sound, Begun, Revoked, MovesOn

(* What has to be shown of a step.                                         *)
LEMMA SessionsFrame ==
  ASSUME SignInTypeOK, SessionsInv, MovesOn,
         \/ cookie' \in {cookie, None}
         \/ cookie' \in Sessions /\ session'[cookie'] # "unused",
         \A t \in Tabs : \/ left'[t] \in {left[t], None}
                         \/ left'[t] \in Sessions /\ session'[left'[t]] = "over",
         \A q \in flight' :
           /\ q \in TabRequest
           /\ \/ Sound(q)
              \/ /\ q.cookie # None => session'[q.cookie] # "unused"
                 /\ q.kind = "login" /\ q.answer \in Sessions => session'[q.answer] # "unused"
                 /\ q.kind = "logout" /\ q.answer = "ok" /\ q.cookie # None
                      => session'[q.cookie] = "over"
  PROVE  SessionsInv'
  <1>1. cookie \in Sessions \cup {None} /\ \A t \in Tabs : left[t] \in Sessions \cup {None}
    BY DEF SignInTypeOK
  <1>2. cookie' # None => session'[cookie'] # "unused"
    BY <1>1 DEF SessionsInv, Begun, MovesOn
  <1>3. \A t \in Tabs : left'[t] # None => session'[left'[t]] = "over"
    BY <1>1 DEF SessionsInv, Revoked, MovesOn
  <1>4. \A q \in flight' :
           /\ q.cookie # None => session'[q.cookie] # "unused"
           /\ q.kind = "login" /\ q.answer \in Sessions => session'[q.answer] # "unused"
           /\ q.kind = "logout" /\ q.answer = "ok" /\ q.cookie # None
                => session'[q.cookie] = "over"
    BY SoundStays
  <1>. QED  BY <1>2, <1>3, <1>4 DEF SessionsInv, Begun, Revoked

LEMMA SessionsStep ==
  ASSUME SignInTypeOK, SessionsInv, [SignInNext]_signInVars
  PROVE  SessionsInv'
  <1>1. \A r \in flight : Sound(r) /\ r \in TabRequest
    BY DEF SessionsInv, Sound, SignInTypeOK
  <1>2. Begun(cookie) /\ \A t \in Tabs : Revoked(left[t])
    BY DEF SessionsInv
  <1>3. session' = session => MovesOn
    BY DEF MovesOn
  <1>4. ASSUME session' = session, cookie' \in {cookie, None},
               \A t \in Tabs : left'[t] \in {left[t], None},
               \A q \in flight' : q \in TabRequest /\ Sound(q)
        PROVE  SessionsInv'
    BY <1>3, <1>4, SessionsFrame
  <1>5. CASE UNCHANGED signInVars
    BY <1>1, <1>4, <1>5 DEF signInVars
  <1>6. ASSUME NEW t \in Tabs, NEW kind \in Kinds, Send(t, kind)
        PROVE  \A q \in flight' : q \in TabRequest /\ Sound(q)
    <2>1. New(t, kind) \in TabRequest /\ Sound(New(t, kind))
      BY <1>2, NewShape, SignInAssumption DEF Sound
    <2>. QED  BY <1>1, <1>6, <2>1 DEF Send
  <1>7. ASSUME NEW t \in Tabs, Open(t) PROVE SessionsInv'
    <2>1. \A q \in flight' : q \in TabRequest /\ Sound(q)
      BY <1>1, <1>2, <1>7, OpenShape, SignInAssumption DEF Sound
    <2>2. \A u \in Tabs : left'[u] \in {left[u], None}
      BY <1>7 DEF Open, SignInTypeOK
    <2>. QED  BY <1>4, <1>7, <2>1, <2>2 DEF Open, server
  <1>8. ASSUME NEW t \in Tabs,
               retryBootstrap(t) \/ login(t) \/ setUpFirstOwner(t) \/ SignOut(t) \/ Works(t)
        PROVE  SessionsInv'
    <2>1. \A q \in flight' : q \in TabRequest /\ Sound(q)
      BY <1>6, <1>8 DEF retryBootstrap, login, setUpFirstOwner, SignOut, Works, Kinds
    <2>2. UNCHANGED <<session, cookie, left>>
      BY <1>8 DEF retryBootstrap, login, setUpFirstOwner, SignOut, Works, server, page
    <2>. QED  BY <1>4, <2>1, <2>2
  <1>9. ASSUME NEW r \in flight, NEW answer \in Answers, Answered(r, answer), MovesOn,
               UNCHANGED <<cookie, left>>,
               r.kind = "login" /\ answer \in Sessions => session'[answer] # "unused",
               r.kind = "logout" /\ answer = "ok" /\ r.cookie # None
                 => session'[r.cookie] = "over"
        PROVE  SessionsInv'
    <2>1. PICK q \in TabRequest : /\ Carries(q, r) /\ q.answer = answer
                               /\ flight' = (flight \ {r}) \cup {q}
      BY <1>9, AnsweredShape
    <2>2. r.cookie # None => session'[r.cookie] # "unused"
      BY <1>1, <1>9, SoundStays
    <2>. QED  BY <1>1, <1>9, <2>1, <2>2, SessionsFrame DEF Carries
  <1>10. ASSUME NEW r \in flight, Serve(r) PROVE SessionsInv'
    <2>1. UNCHANGED <<cookie, left>>
      BY <1>10, ServeShape DEF page
    <2>2. CASE ServeRead(r)
      <3>1. PICK answer \in Answers : Answered(r, answer)
        BY <2>2 DEF ServeRead, Answers
      <3>. QED  BY <1>3, <1>9, <2>1, <2>2, <3>1 DEF ServeRead, server
    <2>3. CASE ServeSetup(r)
      <3>1. PICK answer \in Answers : Answered(r, answer)
        BY <2>3 DEF ServeSetup, Answers
      <3>. QED  BY <1>3, <1>9, <2>1, <2>3, <3>1 DEF ServeSetup
    <2>4. CASE ServeLogin(r)
      <3>1. CASE Answered(r, "refused") /\ UNCHANGED session
        BY <1>3, <1>9, <2>1, <2>4, <3>1, SignInAssumption DEF ServeLogin, Answers
      <3>2. ASSUME NEW s \in Sessions, session[s] = "unused",
                   session' = [session EXCEPT ![s] = "alive"], Answered(r, s)
            PROVE  SessionsInv'
        <4>1. MovesOn /\ session'[s] # "unused"
          BY <3>2 DEF MovesOn, SignInTypeOK
        <4>. QED  BY <1>9, <2>1, <2>4, <3>2, <4>1 DEF ServeLogin, Answers
      <3>. QED  BY <2>4, <3>1, <3>2 DEF ServeLogin
    <2>5. CASE ServeLogout(r)
      <3>1. MovesOn
        BY <2>5 DEF ServeLogout, MovesOn, SignInTypeOK
      <3>2. r.cookie # None => session'[r.cookie] = "over"
        <4>1. r.cookie # None => r.cookie \in Sessions /\ session[r.cookie] # "unused"
          BY <1>1, RequestShape DEF Sound, Begun
        <4>. QED  BY <2>5, <4>1 DEF ServeLogout, SignInTypeOK
      <3>3. "ok" \in Answers
        BY DEF Answers
      <3>. QED  BY <1>9, <2>1, <2>5, <3>1, <3>2, <3>3 DEF ServeLogout
    <2>. QED  BY <1>10, <2>2, <2>3, <2>4, <2>5 DEF Serve
  <1>11. ASSUME NEW r \in flight, Handles(r) PROVE SessionsInv'
    <2>1. session' = session
      BY <1>11 DEF Handles, MeAnswered, completeSignIn, completeSignOut, completeSetup,
           SignInFailed, ReadAnswered, WriteAnswered, Orphaned, Breaks, server
    <2>2. flight' \subseteq flight
      BY <1>11 DEF Handles, MeAnswered, completeSignIn, completeSignOut, completeSetup,
           SignInFailed, ReadAnswered, WriteAnswered, Orphaned, Breaks, Failed,
           reportSessionEnded, endSession, Gone
    <2>3. \A q \in flight' : q \in TabRequest /\ Sound(q)
      BY <1>1, <2>2
    <2>4. CASE completeSignOut(r)
      <3>1. r.cookie # None => r.cookie \in Sessions /\ session'[r.cookie] = "over"
        BY <1>1, <2>1, <2>4, RequestShape DEF completeSignOut, Sound, Revoked
      <3>2. left' = [left EXCEPT ![r.tab] = r.cookie] /\ cookie' = None /\ r.tab \in Tabs
        BY <2>4, RequestShape DEF completeSignOut
      <3>3. \A t \in Tabs : \/ left'[t] \in {left[t], None}
                            \/ left'[t] \in Sessions /\ session'[left'[t]] = "over"
        BY <3>1, <3>2 DEF SignInTypeOK
      <3>. QED  BY <1>3, <2>1, <2>3, <3>2, <3>3, SessionsFrame
    <2>5. CASE ~completeSignOut(r)
      <3>1. left' = left
        BY <1>11, <2>5 DEF Handles, MeAnswered, completeSignIn, completeSetup,
             SignInFailed, ReadAnswered, WriteAnswered, Orphaned, Breaks, Failed, page
      <3>2. \/ cookie' \in {cookie, None}
            \/ r.kind = "login" /\ r.answer \in Sessions /\ cookie' = r.answer
        BY <1>11, <2>5 DEF Handles, MeAnswered, completeSignIn, completeSetup,
             SignInFailed, ReadAnswered, WriteAnswered, Orphaned, Breaks
      <3>3. r.kind = "login" /\ r.answer \in Sessions => session'[r.answer] # "unused"
        BY <1>1, <2>1, SignInAssumption DEF Sound, Begun
      <3>. QED  BY <1>3, <2>1, <2>3, <3>1, <3>2, <3>3, SessionsFrame
    <2>. QED  BY <2>4, <2>5
  <1>12. ASSUME NEW s \in Sessions, Lapses(s) PROVE SessionsInv'
    <2>1. MovesOn
      BY <1>12 DEF Lapses, MovesOn, SignInTypeOK
    <2>. QED  BY <1>1, <1>12, <2>1, SessionsFrame DEF Lapses, page
  <1>. QED  BY <1>5, <1>7, <1>8, <1>10, <1>11, <1>12 DEF SignInNext

------------------------------------------------------------------------------
(* Tabs.                                                                   *)

(* The last three of the invariants, of the values of one tab.             *)
Fine(is, why, shows, n) ==
  /\ is \notin {"anonymous", "authenticated"} => n = 0
  /\ shows # None => is = "authenticated" /\ shows = n
  /\ is = "anonymous" /\ n > 0 => why # "never-signed-in"

AllFine == \A t \in Tabs : Fine(auth[t], reason[t], shown[t], signIns[t])

LEMMA FineTabs == AllFine <=> NotYetSignedIn /\ ShownIsHers /\ NeverGreetedAsNew
  BY DEF AllFine, Fine, NotYetSignedIn, ShownIsHers, NeverGreetedAsNew

(* One tab changes.                                                        *)
LEMMA OneTab ==
  ASSUME SignInTypeOK, AllFine, NEW t \in Tabs,
         \A u \in Tabs : u # t => /\ auth'[u] = auth[u] /\ reason'[u] = reason[u]
                                  /\ shown'[u] = shown[u] /\ signIns'[u] = signIns[u],
         Fine(auth'[t], reason'[t], shown'[t], signIns'[t])
  PROVE  AllFine'
  <1>1. \A u \in Tabs : Fine(auth'[u], reason'[u], shown'[u], signIns'[u])
    BY DEF AllFine
  <1>. QED  BY <1>1 DEF AllFine, Fine

(* Requests are answered or lost, and the tabs that still have some stay   *)
(* as they were.                                                           *)
LEMMA FewerRequests ==
  ASSUME SignInTypeOK, RequestsFit, AskedOnce, flight' \subseteq flight,
         \A q \in flight' : auth'[q.tab] = auth[q.tab] /\ signIns'[q.tab] = signIns[q.tab]
  PROVE  RequestsFit' /\ AskedOnce'
  <1>1. RequestsFit'
    BY DEF RequestsFit, Fits
  <1>2. AskedOnce'
    BY DEF AskedOnce
  <1>. QED  BY <1>1, <1>2

LEMMA AnsweredRequest ==
  ASSUME SignInTypeOK, RequestsFit, AskedOnce, NEW r \in flight, NEW q \in TabRequest, Carries(q, r),
         flight' = (flight \ {r}) \cup {q}, UNCHANGED <<auth, signIns>>
  PROVE  RequestsFit' /\ AskedOnce'
  <1>1. RequestsFit'
    BY DEF RequestsFit, Fits, Carries
  <1>2. AskedOnce'
    <2> SUFFICES ASSUME NEW a \in flight', NEW b \in flight', a.tab = b.tab, a.kind = b.kind,
                        a.kind \in Single, a.heard, b.heard
                 PROVE  a = b
      BY DEF AskedOnce
    <2>1. CASE a # q /\ b # q
      BY <2>1 DEF AskedOnce
    <2>2. CASE a = q /\ b # q
      BY <2>2 DEF AskedOnce, Carries
    <2>3. CASE a # q /\ b = q
      BY <2>3 DEF AskedOnce, Carries
    <2>. QED  BY <2>1, <2>2, <2>3
  <1>. QED  BY <1>1, <1>2

(* A tab sends what its state allows, and one of a kind.                   *)
LEMMA SentRequest ==
  ASSUME SignInTypeOK, RequestsFit, AskedOnce, NEW t \in Tabs, NEW kind \in Kinds, Send(t, kind),
         UNCHANGED signIns,
         \A q \in flight : q.heard => auth'[q.tab] = auth[q.tab],
         kind = "me" => auth'[t] \in {"pending", "refetching"},
         kind = "setup" => auth'[t] = "setup",
         kind = "login" => auth'[t] = "anonymous",
         kind \in {"logout", "read", "write"} => auth'[t] = "authenticated",
         kind \in Single => ~Waiting(t, {kind})
  PROVE  RequestsFit' /\ AskedOnce'
  <1> DEFINE sent == New(t, kind)
  <1>1. /\ sent.tab = t /\ sent.kind = kind /\ sent.signIn = signIns[t] /\ sent.heard
        /\ flight' = flight \cup {sent}
    BY NewShape DEF Send
  <1> HIDE DEF sent
  <1>2. RequestsFit'
    <2>1. \A q \in flight' :
            /\ q.kind = "me" => q.heard /\ auth'[q.tab] \in {"pending", "refetching"}
            /\ q.kind = "setup" /\ q.heard => auth'[q.tab] = "setup"
            /\ q.kind = "login" /\ q.heard => auth'[q.tab] = "anonymous"
            /\ q.kind = "logout" /\ q.heard => auth'[q.tab] \in {"anonymous", "authenticated"}
            /\ q.kind = "write" => q.heard /\ auth'[q.tab] \in {"anonymous", "authenticated"}
            /\ q.kind = "read" => /\ q.heard /\ auth'[q.tab] = "authenticated"
                                  /\ q.signIn = signIns'[q.tab]
      BY <1>1 DEF RequestsFit, Fits
    <2>. QED  BY <2>1 DEF RequestsFit, Fits
  <1>3. kind \in Single => \A q \in flight : ~(q.tab = t /\ q.kind = kind /\ q.heard)
    BY DEF Waiting
  <1>4. AskedOnce'
    BY <1>1, <1>3 DEF AskedOnce
  <1>. QED  BY <1>2, <1>4

(* The one answer the tab was waiting for has come: what else is under way *)
(* for it is nobody's any more, or does not depend on who is signed in.    *)
LEMMA Replied ==
  ASSUME SignInTypeOK, RequestsFit, AskedOnce, NEW r \in flight, Gone(r), NEW a \in Auths,
         auth' = [auth EXCEPT ![r.tab] = a],
         \A t \in Tabs : t # r.tab => signIns'[t] = signIns[t],
         \A q \in flight \ {r} : q.tab = r.tab =>
           \/ ~q.heard
           \/ q.kind \in {"logout", "write"} /\ a \in {"anonymous", "authenticated"}
  PROVE  RequestsFit' /\ AskedOnce'
  <1>1. flight' = flight \ {r}
    BY DEF Gone
  <1>2. \A q \in flight : q.tab \in Tabs
    BY RequestShape
  <1>3. \A q \in flight' :
          /\ q.kind = "me" => q.heard /\ auth'[q.tab] \in {"pending", "refetching"}
          /\ q.kind = "setup" /\ q.heard => auth'[q.tab] = "setup"
          /\ q.kind = "login" /\ q.heard => auth'[q.tab] = "anonymous"
          /\ q.kind = "logout" /\ q.heard => auth'[q.tab] \in {"anonymous", "authenticated"}
          /\ q.kind = "write" => q.heard /\ auth'[q.tab] \in {"anonymous", "authenticated"}
          /\ q.kind = "read" => /\ q.heard /\ auth'[q.tab] = "authenticated"
                                /\ q.signIn = signIns'[q.tab]
    BY <1>1, <1>2 DEF RequestsFit, Fits, SignInTypeOK
  <1>4. RequestsFit'
    BY <1>3 DEF RequestsFit, Fits
  <1>5. AskedOnce'
    BY <1>1 DEF AskedOnce
  <1>. QED  BY <1>4, <1>5

(* A tab whose session ends: the reads go, and nothing else minds.         *)
LEMMA SessionEnds ==
  ASSUME SignInTypeOK, RequestsFit, AskedOnce, AllFine, NEW t \in Tabs, NEW r \in flight,
         auth[t] \in {"anonymous", "authenticated"},
         NEW why \in {"session-ended", "signed-out"},
         endSession(t, why, r), UNCHANGED signIns
  PROVE  RequestsFit' /\ AskedOnce' /\ AllFine'
  <1>1. /\ auth' = [auth EXCEPT ![t] = "anonymous"]
        /\ reason' = [reason EXCEPT ![t] = why]
        /\ shown' = [shown EXCEPT ![t] = None]
        /\ flight' \subseteq flight
        /\ \A q \in flight' : ~(q.tab = t /\ q.kind = "read")
    BY EndSessionShape
  <1>2. \A q \in flight' : q.tab \in Tabs /\ q.kind \in Kinds
    BY <1>1, RequestShape
  <1>3. \A q \in flight' :
          /\ q.kind = "me" => q.heard /\ auth'[q.tab] \in {"pending", "refetching"}
          /\ q.kind = "setup" /\ q.heard => auth'[q.tab] = "setup"
          /\ q.kind = "login" /\ q.heard => auth'[q.tab] = "anonymous"
          /\ q.kind = "logout" /\ q.heard => auth'[q.tab] \in {"anonymous", "authenticated"}
          /\ q.kind = "write" => q.heard /\ auth'[q.tab] \in {"anonymous", "authenticated"}
          /\ q.kind = "read" => /\ q.heard /\ auth'[q.tab] = "authenticated"
                                /\ q.signIn = signIns'[q.tab]
    BY <1>1, <1>2 DEF RequestsFit, Fits, SignInTypeOK
  <1>4. RequestsFit'
    BY <1>3 DEF RequestsFit, Fits
  <1>5. AskedOnce'
    BY <1>1 DEF AskedOnce
  <1>6. AllFine'
    <2>1. Fine(auth'[t], reason'[t], shown'[t], signIns'[t])
      BY <1>1 DEF Fine, SignInTypeOK
    <2>. QED  BY <1>1, <2>1, OneTab DEF SignInTypeOK
  <1>. QED  BY <1>4, <1>5, <1>6

LEMMA TabsStep ==
  ASSUME SignInTypeOK, RequestsFit, AskedOnce, AllFine, [SignInNext]_signInVars
  PROVE  RequestsFit' /\ AskedOnce' /\ AllFine'
  <1>1. ASSUME UNCHANGED <<auth, reason, shown, signIns>> PROVE AllFine'
    BY <1>1 DEF AllFine
  <1>2. ASSUME UNCHANGED <<auth, reason, shown, signIns>>, flight' \subseteq flight
        PROVE  RequestsFit' /\ AskedOnce' /\ AllFine'
    BY <1>1, <1>2, FewerRequests
  <1>3. CASE UNCHANGED signInVars
    BY <1>2, <1>3 DEF signInVars
  <1>4. ASSUME NEW t \in Tabs, Open(t) PROVE RequestsFit' /\ AskedOnce' /\ AllFine'
    <2>1. /\ auth' = [auth EXCEPT ![t] = "pending"]
          /\ reason' = [reason EXCEPT ![t] = "never-signed-in"]
          /\ shown' = [shown EXCEPT ![t] = None]
          /\ signIns' = [signIns EXCEPT ![t] = 0]
      BY <1>4 DEF Open
    <2>2. auth'[t] = "pending" /\ \A u \in Tabs : u # t => auth'[u] = auth[u] /\ signIns'[u] = signIns[u]
      BY <2>1 DEF SignInTypeOK
    <2>3. \A q \in flight' :
            \/ q \in flight /\ q.tab # t /\ q.tab \in Tabs
            \/ q.tab = t /\ ~q.heard /\ q.kind \in {"login", "logout", "setup"}
            \/ q.tab = t /\ q.kind = "me" /\ q.heard
                 /\ \A p \in flight' : p.tab = t /\ p.kind = "me" => p = q
      BY <1>4, OpenShape, RequestShape
    <2>4. RequestsFit'
      <3>1. \A q \in flight' :
              /\ q.kind = "me" => q.heard /\ auth'[q.tab] \in {"pending", "refetching"}
              /\ q.kind = "setup" /\ q.heard => auth'[q.tab] = "setup"
              /\ q.kind = "login" /\ q.heard => auth'[q.tab] = "anonymous"
              /\ q.kind = "logout" /\ q.heard => auth'[q.tab] \in {"anonymous", "authenticated"}
              /\ q.kind = "write" => q.heard /\ auth'[q.tab] \in {"anonymous", "authenticated"}
              /\ q.kind = "read" => /\ q.heard /\ auth'[q.tab] = "authenticated"
                                    /\ q.signIn = signIns'[q.tab]
        BY <2>2, <2>3 DEF RequestsFit, Fits
      <3>. QED  BY <3>1 DEF RequestsFit, Fits
    <2>5. AskedOnce'
      BY <2>3 DEF AskedOnce, Single
    <2>6. AllFine'
      <3>1. Fine(auth'[t], reason'[t], shown'[t], signIns'[t])
        BY <2>1 DEF Fine, SignInTypeOK
      <3>. QED  BY <2>1, <3>1, OneTab DEF SignInTypeOK
    <2>. QED  BY <2>4, <2>5, <2>6
  <1>5. ASSUME NEW t \in Tabs, retryBootstrap(t) PROVE RequestsFit' /\ AskedOnce' /\ AllFine'
    <2>1. /\ auth[t] = "error" /\ ~Waiting(t, {"me"}) /\ Send(t, "me")
          /\ auth' = [auth EXCEPT ![t] = "refetching"]
          /\ UNCHANGED <<reason, shown, signIns>>
      BY <1>5 DEF retryBootstrap, MayAskAgain, SignInTypeOK
    <2>2. AllFine'
      <3>1. Fine(auth'[t], reason'[t], shown'[t], signIns'[t])
        BY <2>1 DEF AllFine, Fine, SignInTypeOK
      <3>. QED  BY <2>1, <3>1, OneTab DEF SignInTypeOK
    <2>3. \A q \in flight : q.heard => q.tab # t /\ q.tab \in Tabs
      BY <2>1, RequestShape DEF RequestsFit, Fits, Kinds
    <2>4. /\ \A q \in flight : q.heard => auth'[q.tab] = auth[q.tab]
          /\ auth'[t] = "refetching" /\ "me" \in Kinds
      BY <2>1, <2>3 DEF SignInTypeOK, Kinds
    <2>. QED  BY <2>1, <2>2, <2>4, SentRequest
  <1>6. ASSUME NEW t \in Tabs, login(t) PROVE RequestsFit' /\ AskedOnce' /\ AllFine'
    BY <1>1, <1>6, SentRequest DEF login, page, Kinds
  <1>7. ASSUME NEW t \in Tabs, setUpFirstOwner(t) PROVE RequestsFit' /\ AskedOnce' /\ AllFine'
    BY <1>1, <1>7, SentRequest DEF setUpFirstOwner, page, Kinds
  <1>8. ASSUME NEW t \in Tabs, SignOut(t) PROVE RequestsFit' /\ AskedOnce' /\ AllFine'
    BY <1>1, <1>8, SentRequest DEF SignOut, page, Kinds, Single
  <1>9. ASSUME NEW t \in Tabs, Works(t) PROVE RequestsFit' /\ AskedOnce' /\ AllFine'
    BY <1>1, <1>9, SentRequest DEF Works, page, Kinds, Single
  <1>10. ASSUME NEW r \in flight, Serve(r) PROVE RequestsFit' /\ AskedOnce' /\ AllFine'
    BY <1>1, <1>10, ServeShape, AnsweredRequest DEF page
  <1>11. ASSUME NEW r \in flight, Handles(r) PROVE RequestsFit' /\ AskedOnce' /\ AllFine'
    <2>1. r.tab \in Tabs /\ r \in TabRequest /\ Fits(r)
      BY RequestShape DEF RequestsFit
    <2>2. ASSUME r.kind \in {"me", "setup"}, r.heard, Gone(r), NEW a \in Auths,
                 auth' = [auth EXCEPT ![r.tab] = a], UNCHANGED <<reason, shown, signIns>>
          PROVE  RequestsFit' /\ AskedOnce' /\ AllFine'
      <3>1. auth[r.tab] \notin {"anonymous", "authenticated"}
        BY <2>1, <2>2 DEF Fits
      <3>2. \A q \in flight \ {r} : q.tab = r.tab => ~q.heard
        BY <2>1, <2>2, RequestShape DEF RequestsFit, Fits, AskedOnce, Single, Kinds
      <3>3. AllFine'
        <4>1. Fine(auth'[r.tab], reason'[r.tab], shown'[r.tab], signIns'[r.tab])
          BY <2>1, <2>2, <3>1 DEF AllFine, Fine, SignInTypeOK
        <4>. QED  BY <2>1, <2>2, <4>1, OneTab DEF SignInTypeOK
      <3>. QED  BY <2>2, <3>2, <3>3, Replied
    <2>3. CASE MeAnswered(r)
      <3>1. PICK a \in {"authenticated", "setup", "anonymous"} :
              auth' = [auth EXCEPT ![r.tab] = a]
        BY <2>3 DEF MeAnswered
      <3>. QED  BY <2>2, <2>3, <3>1 DEF MeAnswered, Auths
    <2>4. CASE completeSetup(r)
      BY <2>2, <2>4 DEF completeSetup, Auths
    <2>5. CASE completeSignIn(r)
      <3>1. /\ r.kind = "login" /\ r.heard /\ Gone(r)
            /\ auth' = [auth EXCEPT ![r.tab] = "authenticated"]
            /\ signIns' = [signIns EXCEPT ![r.tab] = @ + 1]
            /\ UNCHANGED <<reason, shown>>
        BY <2>5 DEF completeSignIn
      <3>2. auth[r.tab] = "anonymous"
        BY <2>1, <3>1 DEF Fits
      <3>3. \A q \in flight \ {r} : q.tab = r.tab => ~q.heard \/ q.kind \in {"logout", "write"}
        BY <2>1, <3>1, <3>2, RequestShape DEF RequestsFit, Fits, AskedOnce, Single, Kinds
      <3>4. \A t \in Tabs : t # r.tab => signIns'[t] = signIns[t]
        BY <3>1 DEF SignInTypeOK
      <3>5. AllFine'
        <4>1. Fine(auth'[r.tab], reason'[r.tab], shown'[r.tab], signIns'[r.tab])
          BY <2>1, <3>1, <3>2 DEF AllFine, Fine, SignInTypeOK
        <4>. QED  BY <2>1, <3>1, <3>4, <4>1, OneTab DEF SignInTypeOK
      <3>. QED  BY <3>1, <3>3, <3>4, <3>5, Replied DEF Auths
    <2>6. CASE completeSignOut(r)
      BY <2>1, <2>6, SessionEnds DEF completeSignOut, Fits
    <2>7. CASE SignInFailed(r)
      BY <1>2, <2>7 DEF SignInFailed, Gone, page
    <2>8. CASE Orphaned(r)
      BY <1>2, <2>8 DEF Orphaned, Gone, page
    <2>9. ASSUME reportSessionEnded(r.tab, r), UNCHANGED signIns
          PROVE  RequestsFit' /\ AskedOnce' /\ AllFine'
      BY <1>2, <2>1, <2>9, SessionEnds DEF reportSessionEnded, Gone
    <2>10. CASE WriteAnswered(r)
      BY <1>2, <2>9, <2>10 DEF WriteAnswered, Gone
    <2>11. CASE ReadAnswered(r)
      <3>1. CASE r.answer = "refused"
        BY <2>9, <2>11, <3>1 DEF ReadAnswered
      <3>2. CASE r.answer # "refused"
        <4>1. /\ flight' \subseteq flight /\ shown' = [shown EXCEPT ![r.tab] = r.signIn]
              /\ UNCHANGED <<auth, reason, signIns>>
          BY <2>11, <3>2 DEF ReadAnswered, Gone
        <4>2. auth[r.tab] = "authenticated" /\ r.signIn = signIns[r.tab]
          BY <2>1, <2>11 DEF ReadAnswered, Fits
        <4>3. Fine(auth'[r.tab], reason'[r.tab], shown'[r.tab], signIns'[r.tab])
          BY <2>1, <4>1, <4>2 DEF Fine, SignInTypeOK
        <4>4. AllFine'
          BY <2>1, <4>1, <4>3, OneTab DEF SignInTypeOK
        <4>. QED  BY <4>1, <4>4, FewerRequests
      <3>. QED  BY <3>1, <3>2
    <2>12. CASE Breaks(r)
      <3>1. CASE r.heard /\ r.kind = "me"
        BY <2>2, <2>12, <3>1 DEF Breaks, Failed, Auths
      <3>2. CASE ~(r.heard /\ r.kind = "me")
        <4>1. UNCHANGED <<auth, reason, shown, signIns>> /\ flight' \subseteq flight
          BY <2>1, <2>12, <3>2 DEF Breaks, Failed, Gone, SignInTypeOK
        <4>. QED  BY <1>2, <4>1
      <3>. QED  BY <3>1, <3>2
    <2>. QED  BY <1>11, <2>3, <2>4, <2>5, <2>6, <2>7, <2>8, <2>10, <2>11, <2>12 DEF Handles
  <1>12. ASSUME NEW s \in Sessions, Lapses(s) PROVE RequestsFit' /\ AskedOnce' /\ AllFine'
    BY <1>2, <1>12 DEF Lapses, page
  <1>. QED  BY <1>3, <1>4, <1>5, <1>6, <1>7, <1>8, <1>9, <1>10, <1>11, <1>12 DEF SignInNext

------------------------------------------------------------------------------
(* The whole.                                                              *)

LEMMA InitSignInInv == SignInInit => SignInInv
  <1> SUFFICES ASSUME SignInInit PROVE SignInInv
    OBVIOUS
  <1>1. SignInTypeOK
    BY DEF SignInInit, SignInTypeOK, Auths, Reasons
  <1>2. SessionsInv
    BY DEF SignInInit, SessionsInv, Begun, Revoked
  <1>3. TabsInv
    BY DEF SignInInit, TabsInv, RequestsFit, AskedOnce, NotYetSignedIn, ShownIsHers, NeverGreetedAsNew
  <1>. QED  BY <1>1, <1>2, <1>3 DEF SignInInv

LEMMA SignInStep == SignInInv /\ [SignInNext]_signInVars => SignInInv'
  <1> SUFFICES ASSUME SignInInv, [SignInNext]_signInVars PROVE SignInInv'
    OBVIOUS
  <1>1. SignInTypeOK /\ SessionsInv /\ RequestsFit /\ AskedOnce /\ AllFine
    BY FineTabs DEF SignInInv, TabsInv
  <1>2. SignInTypeOK'
    BY <1>1, SignInTypeStep
  <1>3. SessionsInv'
    BY <1>1, SessionsStep
  <1>4. RequestsFit' /\ AskedOnce' /\ AllFine'
    BY <1>1, TabsStep
  <1>5. AllFine' <=> NotYetSignedIn' /\ ShownIsHers' /\ NeverGreetedAsNew'
    BY FineTabs, PTL
  <1>. QED  BY <1>2, <1>3, <1>4, <1>5 DEF SignInInv, TabsInv

(* The inductive invariant.                                                *)
THEOREM SignInInvariant == SignInSpec => []SignInInv
  BY InitSignInInv, SignInStep, PTL DEF SignInSpec

(* Every variable keeps its type.                                          *)
THEOREM SignInTypes == SignInSpec => []SignInTypeOK
  <1>1. SignInInv => SignInTypeOK
    BY DEF SignInInv
  <1>. QED  BY <1>1, SignInInvariant, PTL

(* SignOutButton: a tab says "signed out" only of a session the server has *)
(* ended, whatever was lost, doubled or overtaken on the way.              *)
THEOREM SignedOutMeansRevoked == SignInSpec => []SignedOutIsRevoked
  <1>1. SignInInv => SignedOutIsRevoked
    BY DEF SignInInv, SessionsInv, Revoked, SignedOutIsRevoked, Alive
  <1>. QED  BY <1>1, SignInInvariant, PTL

(* endSession: nothing an earlier session read is on the screen, and none  *)
(* of its late answers gets there.                                         *)
THEOREM NothingIsLeftForTheNext == SignInSpec => []ShownIsHers
  <1>1. SignInInv => ShownIsHers
    BY DEF SignInInv, TabsInv
  <1>. QED  BY <1>1, SignInInvariant, PTL

(* AuthProvider: who was signed in and meets the login form is told why.   *)
THEOREM TheReasonIsGiven == SignInSpec => []NeverGreetedAsNew
  <1>1. SignInInv => NeverGreetedAsNew
    BY DEF SignInInv, TabsInv
  <1>. QED  BY <1>1, SignInInvariant, PTL
===================================================================================
