--------------------------- MODULE AccountsProofs ---------------------------
(* Proofs about UserAccounts for any users, roles, requests and sessions. *)
EXTENDS UserAccounts, TLAPS

(* The system administrators of the beginning. *)
Seeded(u) == u \in Users /\ RoleOf[u] = "SystemAdmin"

(* What a request knows at the labels that use it. *)
RequestOK(r) ==
  /\ pc[r] \notin {"new", "done"} => req[r].user \in Everyone
  /\ pc[r] = "login" => req[r].role \in Roles
  /\ pc[r] \in {"rotate", "revoke"} => req[r].session \in Ids
  /\ pc[r] = "mfa" => req[r].enabled \in BOOLEAN
  /\ pc[r] = "role" => req[r].role \in Roles \ {"SystemAdmin"} /\ ~Seeded(req[r].user)
  /\ pc[r] = "status" => req[r].status \in {Active, Disabled} /\ ~Seeded(req[r].user)

LocalInv ==
  /\ DOMAIN req = Requests /\ DOMAIN token = Ids
  /\ \A r \in Requests : RequestOK(r)

(* System administrators are the seeded ones, whatever requests still do. *)
AdminInv ==
  \A u \in Everyone : IF Seeded(u) THEN role[u] = "SystemAdmin" /\ status[u] = Active
                      ELSE role[u] # "SystemAdmin"

Unborn == {r \in Requests : pc[r] \in {"new", "login", "rotate"}}

(* The id a request may still give to a session belongs to nobody. *)
FreshInv ==
  \A r \in Unborn :
    /\ ancestors[r] = {r} /\ r \notin loggedOut
    /\ \A s \in Ids \ {r} : r \notin ancestors[s]
    /\ \A row \in sessions : row.id # r

(* A rotation under way is of a session that has begun. *)
PendingInv == \A q \in Requests : pc[q] = "rotate" => req[q].session \notin Unborn

(* The tokens of one login have one row at most; a rotation that finds no row     *)
(* makes a token, but no row.                                                     *)
FamilyInv ==
  /\ \A s \in Ids : s \in ancestors[s]
  /\ \A x, y \in sessions : ancestors[x.id] \cap ancestors[y.id] # {} => x = y

(* The row of a session that was logged out is revoked, under whatever id. *)
LogoutInv ==
  \A row \in sessions : ancestors[row.id] \cap loggedOut # {} => row.revoked

SessionInv == FreshInv /\ PendingInv /\ FamilyInv /\ LogoutInv

IInv == TypeOK /\ LocalInv /\ AdminInv /\ SessionInv
-----------------------------------------------------------------------------
(* None of the roles an actor may assign or manage is that of a system            *)
(* administrator.                                                                 *)
LEMMA SystemAdminApart ==
  ASSUME NEW actor, NEW target, CanCreateRole(actor, target) \/ CanManageRole(actor, target)
  PROVE  target # "SystemAdmin"
BY DEF CanCreateRole, CanManageRole

LEMMA InitIInv == Init => IInv
<1> SUFFICES ASSUME Init PROVE IInv
  OBVIOUS
<1> DEFINE Row(s) == [id |-> s, user |-> Begun[s], revoked |-> FALSE, expired |-> FALSE]
<1>1. sessions = {Row(s) : s \in Old} /\ \A s \in Old : Begun[s] \in Users
  BY AccountsAssumption DEF Init
<1>2. \A row \in sessions : row.id \in Old /\ row = Row(row.id) /\ Begun[row.id] \in Users
  <2> TAKE row \in sessions
  <2>1. PICK s \in Old : row = Row(s)
    BY <1>1
  <2>2. QED
    BY <2>1, <1>1
<1> HIDE DEF Row
<1>3. sessions \subseteq [id : Ids, user : Everyone, revoked : BOOLEAN, expired : BOOLEAN]
  <2> SUFFICES ASSUME NEW row \in sessions
      PROVE  row \in [id : Ids, user : Everyone, revoked : BOOLEAN, expired : BOOLEAN]
    OBVIOUS
  <2>1. PICK s \in Old : row = Row(s) /\ Begun[s] \in Users
    BY <1>1
  <2>2. s \in Ids /\ Begun[s] \in Everyone
    BY <2>1 DEF Ids, Everyone
  <2>3. QED
    BY <2>1, <2>2 DEF Row
<1>4. \A s \in Ids : token[s] # None => token[s].user \in Everyone /\ token[s].role \in Roles
  <2> SUFFICES ASSUME NEW s \in Ids, token[s] # None
      PROVE  token[s].user \in Everyone /\ token[s].role \in Roles
    OBVIOUS
  <2>1. token[s] = IF s \in Old THEN [user |-> Begun[s], role |-> RoleOf[Begun[s]]] ELSE None
    BY DEF Init
  <2>2. s \in Old /\ Begun[s] \in Users /\ RoleOf[Begun[s]] \in Roles
    BY <2>1, <1>1, AccountsAssumption
  <2>3. QED
    BY <2>1, <2>2 DEF Everyone
<1>5. /\ role = [u \in Everyone |-> IF u \in Users THEN RoleOf[u] ELSE None]
      /\ status = [u \in Everyone |-> Active] /\ password = [u \in Everyone |-> "issued"]
      /\ secret = [u \in Everyone |-> None] /\ mfa = [u \in Everyone |-> FALSE]
      /\ resets = {} /\ pc = [r \in Requests |-> "new"] /\ req = [r \in Requests |-> NoReq]
      /\ ancestors = [s \in Ids |-> {s}] /\ loggedOut = {} /\ confirmed = {} /\ overlapped = {}
      /\ DOMAIN token = Ids
  BY DEF Init
<1>6. role \in [Everyone -> Roles \cup {None}]
  BY <1>5, AccountsAssumption
<1>7. TypeOK
  BY <1>3, <1>4, <1>5, <1>6 DEF TypeOK, Passwords, NoReq, Labels
<1>8. LocalInv
  BY <1>5 DEF LocalInv, RequestOK
<1>9. AdminInv
  BY <1>5, AccountsAssumption DEF AdminInv, Seeded, Everyone, Roles
<1>10. FreshInv
  BY <1>2, <1>5, AccountsAssumption DEF FreshInv, Unborn, Ids
<1>11. \A x, y \in sessions : x.id = y.id => x = y
  BY <1>2
<1>12. FamilyInv /\ LogoutInv /\ PendingInv
  BY <1>2, <1>5, <1>11 DEF FamilyInv, LogoutInv, PendingInv, Ids
<1>13. QED
  BY <1>7, <1>8, <1>9, <1>10, <1>12 DEF IInv, SessionInv

-----------------------------------------------------------------------------
USE DEF Goto, Finish, Starts, db, users, history, Passwords, Active, Disabled, Labels, NoReq

SessionRows == [id : Ids, user : Everyone, revoked : BOOLEAN, expired : BOOLEAN]
ResetRows == [id : Requests, user : Everyone, used : BOOLEAN]

(* Rows stay rows when a column is written. *)
LEMMA SessionRow ==
  /\ \A s \in Ids, u \in Everyone : NewSession(s, u) \in SessionRows
  /\ \A row \in SessionRows, s \in Ids :
       /\ [row EXCEPT !.id = s, !.expired = FALSE] \in SessionRows
       /\ [row EXCEPT !.revoked = TRUE] \in SessionRows
       /\ [row EXCEPT !.expired = TRUE] \in SessionRows
BY DEF SessionRows, NewSession

LEMMA ResetRow ==
  /\ \A r \in Requests, u \in Everyone : [id |-> r, user |-> u, used |-> FALSE] \in ResetRows
  /\ \A row \in ResetRows : [row EXCEPT !.used = TRUE] \in ResetRows
BY DEF ResetRows

LEMMA RowTypes == ASSUME TypeOK PROVE sessions \subseteq SessionRows /\ resets \subseteq ResetRows
BY DEF TypeOK, SessionRows, ResetRows

(* A request that has begun knows what its label needs, and so do all the others. *)
LEMMA GotoKeeps ==
  ASSUME LocalInv, NEW r \in Requests, NEW label \in Labels, NEW knows, Goto(r, label, knows),
         pc \in [Requests -> Labels], token' = token,
         label \notin {"new", "done"} => knows.user \in Everyone,
         label = "login" => knows.role \in Roles,
         label \in {"rotate", "revoke"} => knows.session \in Ids,
         label = "mfa" => knows.enabled \in BOOLEAN,
         label = "role" => knows.role \in Roles \ {"SystemAdmin"} /\ ~Seeded(knows.user),
         label = "status" => knows.status \in {Active, Disabled} /\ ~Seeded(knows.user)
  PROVE  LocalInv'
<1>1. req'[r] = knows /\ pc'[r] = label /\ DOMAIN req' = Requests
  BY DEF LocalInv
<1>2. \A q \in Requests \ {r} : req'[q] = req[q] /\ pc'[q] = pc[q]
  BY DEF LocalInv
<1>3. RequestOK(r)'
  BY <1>1 DEF RequestOK, Seeded
<1>4. \A q \in Requests \ {r} : RequestOK(q)'
  BY <1>2 DEF LocalInv, RequestOK, Seeded
<1>5. QED
  BY <1>1, <1>3, <1>4 DEF LocalInv

LEMMA GotoTypes ==
  ASSUME TypeOK, LocalInv, NEW r \in Requests, NEW label \in Labels, NEW knows, Goto(r, label, knows),
         knows.user \in Everyone \cup {None}
  PROVE  pc' \in [Requests -> Labels] /\ \A q \in Requests : req'[q].user \in Everyone \cup {None}
BY DEF TypeOK, LocalInv

(* A request that begins and has written nothing yet. *)
LEMMA BeginKeeps ==
  ASSUME TypeOK, LocalInv, AdminInv, UNCHANGED <<db, token, ancestors, loggedOut>>,
         confirmed' \subseteq Requests, overlapped' \subseteq Everyone,
         NEW r \in Requests, NEW label \in Labels, NEW knows, Goto(r, label, knows),
         knows.user \in Everyone \cup {None}, LocalInv'
  PROVE  TypeOK' /\ LocalInv' /\ AdminInv'
<1>1. pc' \in [Requests -> Labels] /\ \A q \in Requests : req'[q].user \in Everyone \cup {None}
  BY GotoTypes
<1>2. TypeOK'
  BY <1>1 DEF TypeOK
<1>3. AdminInv'
  BY DEF AdminInv, Seeded
<1>4. QED
  BY <1>2, <1>3

(* A request that ends: its statement may have written anything well typed. *)
LEMMA FinishKeeps ==
  ASSUME TypeOK, LocalInv, NEW r \in Requests, Finish(r), UNCHANGED token
  PROVE  /\ pc' \in [Requests -> Labels] /\ \A q \in Requests : req'[q].user \in Everyone \cup {None}
         /\ LocalInv'
<1>1. "done" \in Labels /\ Goto(r, "done", NoReq) /\ NoReq.user = None /\ pc \in [Requests -> Labels]
  BY DEF TypeOK
<1>2. pc' \in [Requests -> Labels] /\ \A q \in Requests : req'[q].user \in Everyone \cup {None}
  BY <1>1, GotoTypes
<1>3. LocalInv'
  <2> HIDE DEF Goto
  <2>1. QED
    BY <1>1, GotoKeeps
<1>4. QED
  BY <1>2, <1>3

LEMMA TokenFacts ==
  ASSUME TypeOK, NEW s \in Ids, Authenticated(s)
  PROVE  token[s].user \in Everyone /\ token[s].role \in Roles
BY DEF TypeOK, Authenticated

(* Whom an actor may manage is no system administrator. *)
LEMMA ManagedNotSeeded ==
  ASSUME AdminInv, NEW s, NEW u \in Everyone, MayManage(s, u)
  PROVE  ~Seeded(u)
BY SystemAdminApart DEF AdminInv, MayManage

(* Every request that begins keeps types and system administrators. *)
LEMMA BeginTypes ==
  ASSUME TypeOK, LocalInv, AdminInv, NEW r \in Requests, Begin(r)
  PROVE  TypeOK' /\ LocalInv' /\ AdminInv'
<1> DEFINE Kept == TypeOK' /\ LocalInv' /\ AdminInv'
<1> DEFINE Quiet == UNCHANGED <<db, token, ancestors, loggedOut>> /\ confirmed' \subseteq Requests /\ overlapped' \subseteq Everyone
<1>0. pc \in [Requests -> Labels] /\ confirmed \subseteq Requests /\ overlapped \subseteq Everyone
  BY DEF TypeOK
<1>1. ASSUME NEW u \in Everyone, NEW p, NEW code, Login(r, u, p, code) PROVE Kept
  <2>1. Quiet /\ Goto(r, "login", [user |-> u, role |-> role[u]]) /\ role[u] \in Roles
    BY <1>0, <1>1 DEF Login, FindActiveUser, TypeOK
  <2>2. LocalInv'
    <3> HIDE DEF Goto
    <3>1. QED
      BY <2>1, <1>0, GotoKeeps
  <2>3. QED
    BY <2>1, <2>2, BeginKeeps
<1>2. ASSUME NEW s \in Ids, Refresh(r, s) PROVE Kept
  <2>1. Quiet /\ Goto(r, "rotate", [user |-> token[s].user, session |-> s]) /\ token[s].user \in Everyone
    BY <1>0, <1>2, TokenFacts DEF Refresh
  <2>2. LocalInv'
    <3> HIDE DEF Goto
    <3>1. QED
      BY <2>1, <1>0, GotoKeeps
  <2>3. QED
    BY <2>1, <2>2, BeginKeeps
<1>3. ASSUME NEW s \in Ids, Logout(r, s) PROVE Kept
  <2>1. Quiet /\ Goto(r, "revoke", [user |-> token[s].user, session |-> s]) /\ token[s].user \in Everyone
    BY <1>0, <1>3, TokenFacts DEF Logout
  <2>2. LocalInv'
    <3> HIDE DEF Goto
    <3>1. QED
      BY <2>1, <1>0, GotoKeeps
  <2>3. QED
    BY <2>1, <2>2, BeginKeeps
<1>4. ASSUME NEW s \in Ids, MFASetup(r, s) PROVE Kept
  <2>1. Quiet /\ Goto(r, "secret", [user |-> token[s].user]) /\ token[s].user \in Everyone
    BY <1>0, <1>4, TokenFacts DEF MFASetup, NoteOverlap
  <2>2. LocalInv'
    <3> HIDE DEF Goto
    <3>1. QED
      BY <2>1, <1>0, GotoKeeps
  <2>3. QED
    BY <2>1, <2>2, BeginKeeps
<1>5. ASSUME NEW s \in Ids, NEW code \in Requests, NEW on \in BOOLEAN, MFACode(r, s, code, on) PROVE Kept
  <2>1. Quiet /\ Goto(r, "mfa", [user |-> token[s].user, enabled |-> on]) /\ token[s].user \in Everyone
    BY <1>0, <1>5, TokenFacts DEF MFACode, NoteOverlap
  <2>2. LocalInv'
    <3> HIDE DEF Goto
    <3>1. QED
      BY <2>1, <1>0, GotoKeeps
  <2>3. QED
    BY <2>1, <2>2, BeginKeeps
<1>6. ASSUME NEW u \in Everyone, RequestReset(r, u) PROVE Kept
  <2>1. Finish(r) /\ UNCHANGED <<users, sessions, token, history>>
        /\ resets' = resets \cup {[id |-> r, user |-> u, used |-> FALSE]}
    BY <1>6 DEF RequestReset
  <2>2. LocalInv' /\ pc' \in [Requests -> Labels] /\ \A q \in Requests : req'[q].user \in Everyone \cup {None}
    BY <2>1, FinishKeeps
  <2>3. resets' \subseteq [id : Requests, user : Everyone, used : BOOLEAN]
    <3>1. resets' \subseteq ResetRows
      BY <2>1, RowTypes, ResetRow
    <3>2. QED
      BY <3>1 DEF ResetRows
  <2>4. TypeOK' /\ AdminInv'
    BY <2>1, <2>2, <2>3 DEF TypeOK, AdminInv, Seeded
  <2>5. QED
    BY <2>2, <2>4
<1>7. ASSUME NEW row \in resets, ResetPassword(r, row) PROVE Kept
  <2>1. Quiet /\ Goto(r, "password", [user |-> row.user, reset |-> row.id]) /\ row.user \in Everyone
    BY <1>0, <1>7 DEF ResetPassword, TypeOK
  <2>2. LocalInv'
    <3> HIDE DEF Goto
    <3>1. QED
      BY <2>1, <1>0, GotoKeeps
  <2>3. QED
    BY <2>1, <2>2, BeginKeeps
<1>8. ASSUME NEW s \in Ids, NEW new \in Roles, NEW st \in {Active, Disabled}, CreateUser(r, s, new, st) PROVE Kept
  <2>1. Finish(r) /\ UNCHANGED <<secret, mfa, sessions, resets, token, history>> /\ AddUser(new, st) /\ new # "SystemAdmin"
    BY <1>8, SystemAdminApart DEF CreateUser
  <2>2. LocalInv' /\ pc' \in [Requests -> Labels] /\ \A q \in Requests : req'[q].user \in Everyone \cup {None}
    BY <2>1, FinishKeeps
  <2>3. /\ role' \in [Everyone -> Roles \cup {None}] /\ status' \in [Everyone -> {Active, Disabled}]
        /\ password' \in [Everyone -> Passwords]
    BY <2>1 DEF AddUser, TypeOK
  <2>4. TypeOK'
    BY <2>1, <2>2, <2>3 DEF TypeOK
  <2>5. AdminInv'
    <3>1. \A u \in Everyone \ {NewUser} : role'[u] = role[u] /\ status'[u] = status[u]
      BY <2>1 DEF AddUser, TypeOK
    <3>2. role'[NewUser] = new /\ ~Seeded(NewUser)
      BY <2>1, AccountsAssumption DEF AddUser, TypeOK, Seeded, Everyone
    <3>3. QED
      BY <2>1, <3>1, <3>2 DEF AdminInv, Seeded
  <2>6. QED
    BY <2>2, <2>4, <2>5
<1>9. ASSUME NEW s \in Ids, NEW u \in Everyone, NEW new \in Roles, ChangeRole(r, s, u, new) PROVE Kept
  <2>1. Quiet /\ Goto(r, "role", [user |-> u, role |-> new]) /\ new # "SystemAdmin" /\ ~Seeded(u)
    BY <1>0, <1>9, SystemAdminApart, ManagedNotSeeded DEF ChangeRole
  <2>2. LocalInv'
    <3> HIDE DEF Goto
    <3>1. QED
      BY <2>1, <1>0, GotoKeeps
  <2>3. QED
    BY <2>1, <2>2, BeginKeeps
<1>10. ASSUME NEW s \in Ids, NEW u \in Everyone, NEW st \in {Active, Disabled}, ChangeStatus(r, s, u, st) PROVE Kept
  <2>1. Quiet /\ Goto(r, "status", [user |-> u, status |-> st]) /\ ~Seeded(u)
    BY <1>0, <1>10, ManagedNotSeeded DEF ChangeStatus
  <2>2. LocalInv'
    <3> HIDE DEF Goto
    <3>1. QED
      BY <2>1, <1>0, GotoKeeps
  <2>3. QED
    BY <2>1, <2>2, BeginKeeps
<1>11. QED
  BY <1>1, <1>2, <1>3, <1>4, <1>5, <1>6, <1>7, <1>8, <1>9, <1>10 DEF Begin, MFAEnable, MFADisable

(* So does every statement after it. *)
LEMMA ContinueTypes ==
  ASSUME TypeOK, LocalInv, AdminInv, NEW r \in Requests, Continue(r) \/ Fail(r)
  PROVE  TypeOK' /\ LocalInv' /\ AdminInv'
<1> DEFINE Kept == TypeOK' /\ LocalInv' /\ AdminInv'
<1> DEFINE Knowing == /\ pc' \in [Requests -> Labels]
                     /\ \A q \in Requests : req'[q].user \in Everyone \cup {None}
<1>0. RequestOK(r) /\ r \in Ids
  BY DEF LocalInv, Ids
<1>1. ASSUME CreateSession(r) PROVE Kept
  <2>1. req[r].user \in Everyone /\ req[r].role \in Roles
    BY <1>0, <1>1 DEF RequestOK, CreateSession
  <2>2. Knowing /\ DOMAIN token' = Ids /\ \A q \in Requests : RequestOK(q)'
    <3>1. \A q \in Requests \ {r} : pc'[q] = pc[q] /\ req'[q] = req[q]
      BY <1>1 DEF CreateSession, TypeOK, LocalInv
    <3>2. pc'[r] = "done" /\ req'[r].user = None
      BY <1>1 DEF CreateSession, TypeOK, LocalInv
    <3>3. QED
      BY <1>1, <3>1, <3>2 DEF CreateSession, TypeOK, LocalInv, RequestOK, Seeded
  <2>3. LocalInv'
    BY <2>2, <1>1 DEF CreateSession, LocalInv
  <2>4. sessions' \subseteq [id : Ids, user : Everyone, revoked : BOOLEAN, expired : BOOLEAN]
    <3>1. sessions' \subseteq SessionRows
      BY <1>0, <1>1, <2>1, RowTypes, SessionRow DEF CreateSession
    <3>2. QED
      BY <3>1 DEF SessionRows
  <2>5. \A s \in Ids : token'[s] # None => token'[s].user \in Everyone /\ token'[s].role \in Roles
    BY <1>0, <1>1, <2>1 DEF CreateSession, TypeOK, LocalInv
  <2>6. TypeOK'
    BY <1>1, <2>2, <2>4, <2>5 DEF CreateSession, TypeOK
  <2>7. AdminInv'
    BY <1>1 DEF CreateSession, AdminInv, Seeded
  <2>8. QED
    BY <2>3, <2>6, <2>7
<1>2. ASSUME RotateSession(r) PROVE Kept
  <2>1. req[r].session \in Ids
    BY <1>0, <1>2 DEF RequestOK, RotateSession
  <2>2. Knowing /\ DOMAIN token' = Ids /\ \A q \in Requests : RequestOK(q)'
    <3>1. \A q \in Requests \ {r} : pc'[q] = pc[q] /\ req'[q] = req[q]
      BY <1>2 DEF RotateSession, TypeOK, LocalInv
    <3>2. pc'[r] = "done" /\ req'[r].user = None
      BY <1>2 DEF RotateSession, TypeOK, LocalInv
    <3>3. Knowing /\ DOMAIN token' = Ids
      BY <1>2, <3>1, <3>2 DEF RotateSession, TypeOK, LocalInv
    <3>4. role' = role /\ status' = status
      BY <1>2 DEF RotateSession
    <3>5. \A q \in Requests \ {r} : RequestOK(q)'
      BY <3>1, <3>4 DEF LocalInv, RequestOK, Seeded
    <3>6. RequestOK(r)'
      BY <3>2 DEF RequestOK
    <3>7. QED
      BY <3>3, <3>5, <3>6
  <2>3. LocalInv'
    BY <2>2, <1>2 DEF RotateSession, LocalInv
  <2>4. sessions' \subseteq [id : Ids, user : Everyone, revoked : BOOLEAN, expired : BOOLEAN]
    <3>1. sessions' \subseteq SessionRows
      BY <1>0, <1>2, RowTypes, SessionRow DEF RotateSession, Rotated
    <3>2. QED
      BY <3>1 DEF SessionRows
  <2>5. \A s \in Ids : token'[s] # None => token'[s].user \in Everyone /\ token'[s].role \in Roles
    BY <1>0, <1>2, <2>1 DEF RotateSession, TypeOK, LocalInv
  <2>6. ancestors' \in [Ids -> SUBSET Ids]
    BY <1>0, <1>2, <2>1 DEF RotateSession, TypeOK
  <2>7. TypeOK'
    BY <1>2, <2>2, <2>4, <2>5, <2>6 DEF RotateSession, TypeOK
  <2>8. AdminInv'
    BY <1>2 DEF RotateSession, AdminInv, Seeded
  <2>9. QED
    BY <2>3, <2>7, <2>8
<1>3. ASSUME RevokeSession(r) PROVE Kept
  <2>1. Finish(r) /\ UNCHANGED <<users, resets, token, ancestors, confirmed, overlapped>>
    BY <1>3 DEF RevokeSession
  <2>2. LocalInv' /\ Knowing
    BY <2>1, FinishKeeps
  <2>3. /\ sessions' \subseteq [id : Ids, user : Everyone, revoked : BOOLEAN, expired : BOOLEAN]
        /\ loggedOut' \subseteq Ids
    <3>1. sessions' \subseteq SessionRows
      BY <1>0, <1>3, RowTypes, SessionRow DEF RevokeSession
    <3>2. loggedOut' \subseteq Ids
      BY <1>3, RowTypes DEF RevokeSession, TypeOK, SessionRows
    <3>3. QED
      BY <3>1, <3>2 DEF SessionRows
  <2>4. TypeOK' /\ AdminInv'
    BY <2>1, <2>2, <2>3 DEF TypeOK, AdminInv, Seeded
  <2>5. QED
    BY <2>2, <2>4
<1>4. ASSUME UpdateMFASecret(r) \/ SetMFAEnabled(r) PROVE Kept
  <2>1. Finish(r) /\ UNCHANGED <<role, status, password, sessions, resets, token, history>>
    BY <1>4 DEF UpdateMFASecret, SetMFAEnabled
  <2>2. LocalInv' /\ Knowing
    BY <2>1, FinishKeeps
  <2>3. secret' \in [Everyone -> Requests \cup {None}] /\ mfa' \in [Everyone -> BOOLEAN]
    <3>1. req[r].user \in Everyone
      BY <1>4, <1>0 DEF UpdateMFASecret, SetMFAEnabled, RequestOK
    <3>2. CASE UpdateMFASecret(r)
      BY <3>1, <3>2 DEF UpdateMFASecret, TypeOK
    <3>3. CASE SetMFAEnabled(r)
      <4>1. req[r].enabled \in BOOLEAN
        BY <3>3, <1>0 DEF SetMFAEnabled, RequestOK
      <4>2. QED
        BY <3>1, <3>3, <4>1 DEF SetMFAEnabled, TypeOK
    <3>4. QED
      BY <1>4, <3>2, <3>3
  <2>4. TypeOK' /\ AdminInv'
    BY <2>1, <2>2, <2>3 DEF TypeOK, AdminInv, Seeded
  <2>5. QED
    BY <2>2, <2>4
<1>5. ASSUME UpdateUserPassword(r) PROVE Kept
  <2>1. /\ Goto(r, "mark", req[r]) /\ UNCHANGED <<role, status, secret, mfa, sessions, resets, token, history>>
        /\ req[r].user \in Everyone /\ password' \in [Everyone -> Passwords]
        /\ "mark" \in Labels /\ pc \in [Requests -> Labels]
    BY <1>5, <1>0 DEF UpdateUserPassword, RequestOK, TypeOK
  <2>2. Knowing
    BY <2>1, GotoTypes
  <2>3. LocalInv'
    <3> HIDE DEF Goto
    <3>1. QED
      BY <2>1, GotoKeeps
  <2>4. TypeOK' /\ AdminInv'
    BY <2>1, <2>2 DEF TypeOK, AdminInv, Seeded
  <2>5. QED
    BY <2>3, <2>4
<1>6. ASSUME MarkPasswordResetUsed(r) PROVE Kept
  <2>1. Finish(r) /\ UNCHANGED <<users, sessions, token, history>>
    BY <1>6 DEF MarkPasswordResetUsed
  <2>2. LocalInv' /\ Knowing
    BY <2>1, FinishKeeps
  <2>3. resets' \subseteq [id : Requests, user : Everyone, used : BOOLEAN]
    <3>1. resets' \subseteq ResetRows
      BY <1>6, RowTypes, ResetRow DEF MarkPasswordResetUsed
    <3>2. QED
      BY <3>1 DEF ResetRows
  <2>4. TypeOK' /\ AdminInv'
    BY <2>1, <2>2, <2>3 DEF TypeOK, AdminInv, Seeded
  <2>5. QED
    BY <2>2, <2>4
<1>7. ASSUME UpdateUserRole(r) PROVE Kept
  <2>1. /\ Finish(r) /\ UNCHANGED <<status, password, secret, mfa, sessions, resets, token, history>>
        /\ role' = [role EXCEPT ![req[r].user] = req[r].role]
        /\ req[r].user \in Everyone /\ req[r].role \in Roles \ {"SystemAdmin"} /\ ~Seeded(req[r].user)
    BY <1>7, <1>0 DEF UpdateUserRole, RequestOK
  <2>2. LocalInv' /\ Knowing
    BY <2>1, FinishKeeps
  <2>3. role' \in [Everyone -> Roles \cup {None}]
    BY <2>1 DEF TypeOK
  <2>4. TypeOK'
    BY <2>1, <2>2, <2>3 DEF TypeOK
  <2>5. AdminInv'
    BY <2>1 DEF AdminInv, Seeded, TypeOK
  <2>6. QED
    BY <2>2, <2>4, <2>5
<1>8. ASSUME UpdateUserStatus(r) PROVE Kept
  <2>1. /\ Finish(r) /\ UNCHANGED <<role, password, secret, mfa, sessions, resets, token, history>>
        /\ status' = [status EXCEPT ![req[r].user] = req[r].status]
        /\ req[r].user \in Everyone /\ req[r].status \in {Active, Disabled} /\ ~Seeded(req[r].user)
    BY <1>8, <1>0 DEF UpdateUserStatus, RequestOK
  <2>2. LocalInv' /\ Knowing
    BY <2>1, FinishKeeps
  <2>3. status' \in [Everyone -> {Active, Disabled}]
    BY <2>1 DEF TypeOK
  <2>4. TypeOK'
    BY <2>1, <2>2, <2>3 DEF TypeOK
  <2>5. AdminInv'
    BY <2>1 DEF AdminInv, Seeded, TypeOK
  <2>6. QED
    BY <2>2, <2>4, <2>5
<1>9. ASSUME Fail(r) PROVE Kept
  <2>1. Finish(r) /\ UNCHANGED <<db, token, history>>
    BY <1>9 DEF Fail
  <2>2. LocalInv' /\ Knowing
    BY <2>1, FinishKeeps
  <2>3. TypeOK' /\ AdminInv'
    BY <2>1, <2>2 DEF TypeOK, AdminInv, Seeded
  <2>4. QED
    BY <2>2, <2>3
<1>10. QED
  BY <1>1, <1>2, <1>3, <1>4, <1>5, <1>6, <1>7, <1>8, <1>9 DEF Continue

(* And the passing of time. *)
LEMMA ExpiryTypes ==
  ASSUME TypeOK, LocalInv, AdminInv,
         (\E row \in sessions : ExpireSession(row)) \/ (\E row \in resets : ExpireReset(row))
  PROVE  TypeOK' /\ LocalInv' /\ AdminInv'
<1>1. /\ UNCHANGED <<users, token, pc, req, history>>
      /\ sessions' \subseteq SessionRows /\ resets' \subseteq ResetRows
  <2>1. CASE \E row \in sessions : ExpireSession(row)
    <3>1. PICK row \in sessions : ExpireSession(row)
      BY <2>1
    <3>2. row \in SessionRows /\ row.id \in Ids /\ sessions \subseteq SessionRows /\ resets \subseteq ResetRows
      BY RowTypes DEF SessionRows
    <3>3. [row EXCEPT !.expired = TRUE] \in SessionRows
      BY <3>2, SessionRow
    <3>4. sessions' = (sessions \ {row}) \cup {[row EXCEPT !.expired = TRUE]}
          /\ UNCHANGED <<users, resets, token, pc, req, history>>
      BY <3>1 DEF ExpireSession
    <3>5. sessions' \subseteq SessionRows /\ resets' \subseteq ResetRows
      BY <3>2, <3>3, <3>4
    <3>6. QED
      BY <3>4, <3>5
  <2>2. CASE \E row \in resets : ExpireReset(row)
    BY <2>2, RowTypes, ResetRow DEF ExpireReset
  <2>3. QED
    BY <2>1, <2>2
<1>2. TypeOK'
  BY <1>1 DEF TypeOK, SessionRows, ResetRows
<1>3. LocalInv' /\ AdminInv'
  BY <1>1 DEF LocalInv, RequestOK, AdminInv, Seeded
<1>4. QED
  BY <1>2, <1>3

-----------------------------------------------------------------------------
(* Sessions *)

(* Whatever touches no session row and gives no token keeps the families. *)
LEMMA SessionsQuiet ==
  ASSUME SessionInv, UNCHANGED <<sessions, ancestors, loggedOut>>, Unborn' \subseteq Unborn,
         \A q \in Requests : pc'[q] = "rotate" =>
           req'[q].session \notin Unborn \/ (pc[q] = "rotate" /\ req'[q] = req[q])
  PROVE  SessionInv'
<1>1. FreshInv' /\ FamilyInv' /\ LogoutInv'
  BY DEF SessionInv, FreshInv, FamilyInv, LogoutInv
<1>2. PendingInv'
  BY DEF SessionInv, PendingInv
<1>3. QED
  BY <1>1, <1>2 DEF SessionInv

LEMMA QuietStep ==
  ASSUME TypeOK, LocalInv, SessionInv, UNCHANGED <<sessions, ancestors, loggedOut>>,
         NEW r \in Requests, NEW label, NEW knows, Goto(r, label, knows),
         label # "new", label = "login" => pc[r] = "new",
         label = "rotate" => pc[r] = "new" /\ knows.session \notin Unborn
  PROVE  SessionInv'
<1>1. /\ pc'[r] = label /\ req'[r] = knows
      /\ \A q \in Requests \ {r} : pc'[q] = pc[q] /\ req'[q] = req[q]
  BY DEF TypeOK, LocalInv
<1>2. Unborn' \subseteq Unborn
  BY <1>1 DEF Unborn
<1>3. \A q \in Requests : pc'[q] = "rotate" =>
        req'[q].session \notin Unborn \/ (pc[q] = "rotate" /\ req'[q] = req[q])
  BY <1>1
<1>4. QED
  BY <1>2, <1>3, SessionsQuiet

(* A new row, for an id that belongs to nobody. *)
LEMMA CreateKeepsSessions ==
  ASSUME IInv, NEW r \in Requests, CreateSession(r)
  PROVE  SessionInv'
<1>1. /\ sessions' = sessions \cup {NewSession(r, req[r].user)} /\ UNCHANGED <<ancestors, loggedOut>>
      /\ r \in Unborn /\ Unborn' = Unborn \ {r}
  BY DEF CreateSession, Unborn, IInv, TypeOK
<1>2. /\ ancestors[r] = {r} /\ r \notin loggedOut /\ \A s \in Ids \ {r} : r \notin ancestors[s]
      /\ \A row \in sessions : row.id # r /\ row.id \in Ids
  BY <1>1 DEF IInv, SessionInv, FreshInv, TypeOK
<1>3. NewSession(r, req[r].user).id = r
  BY DEF NewSession
<1>4. FreshInv'
  BY <1>1, <1>3 DEF IInv, SessionInv, FreshInv
<1>5. FamilyInv'
  BY <1>1, <1>2, <1>3 DEF IInv, SessionInv, FamilyInv
<1>6. LogoutInv'
  BY <1>1, <1>2, <1>3 DEF IInv, SessionInv, LogoutInv
<1>7. PendingInv'
  BY <1>1 DEF IInv, SessionInv, PendingInv, CreateSession, TypeOK, LocalInv
<1>8. QED
  BY <1>4, <1>5, <1>6, <1>7 DEF SessionInv

(* The row of s, if there is one, goes on under the new id with its family. *)
LEMMA RotateKeepsSessions ==
  ASSUME IInv, NEW r \in Requests, RotateSession(r)
  PROVE  SessionInv'
<1> DEFINE s == req[r].session
           Moved(row) == IF row.id = s THEN [row EXCEPT !.id = r, !.expired = FALSE] ELSE row
<1>1. /\ s \in Ids /\ r \in Ids /\ r \in Unborn /\ Unborn' = Unborn \ {r}
      /\ sessions' = {Moved(row) : row \in sessions} /\ loggedOut' = loggedOut
      /\ ancestors' = [ancestors EXCEPT ![r] = @ \cup ancestors[s]]
  BY DEF RotateSession, Rotated, Unborn, IInv, LocalInv, RequestOK, TypeOK, Ids
<1>2. /\ ancestors[r] = {r} /\ r \notin loggedOut /\ \A t \in Ids \ {r} : r \notin ancestors[t]
      /\ \A row \in sessions : row.id # r /\ row.id \in Ids
  BY <1>1 DEF IInv, SessionInv, FreshInv, TypeOK
<1>3. /\ ancestors'[r] = {r} \cup ancestors[s]
      /\ \A t \in Ids \ {r} : ancestors'[t] = ancestors[t]
  BY <1>1, <1>2 DEF IInv, TypeOK
<1>4. \A row \in sessions : /\ Moved(row).id = IF row.id = s THEN r ELSE row.id
                           /\ Moved(row).revoked = row.revoked
  BY RowTypes DEF IInv, SessionRows
<1>5. FreshInv'
  <2> SUFFICES ASSUME NEW q \in Unborn, q # r
      PROVE  /\ ancestors'[q] = {q} /\ q \notin loggedOut
             /\ \A t \in Ids \ {q} : q \notin ancestors'[t]
             /\ \A row \in sessions' : row.id # q
    BY <1>1 DEF FreshInv
  <2>1. /\ ancestors[q] = {q} /\ q \notin loggedOut /\ q \in Ids
        /\ \A t \in Ids \ {q} : q \notin ancestors[t]
        /\ \A row \in sessions : row.id # q
    BY DEF IInv, SessionInv, FreshInv, Unborn, Ids
  <2>2. \A row \in sessions' : row.id # q
    BY <2>1, <1>1, <1>4
  <2>3. s # q
    BY DEF RotateSession, IInv, SessionInv, PendingInv
  <2>4. QED
    BY <2>1, <2>2, <2>3, <1>1, <1>3
<1>6. FamilyInv'
  <2>1. \A t \in Ids : t \in ancestors'[t]
    BY <1>1, <1>2, <1>3 DEF IInv, SessionInv, FamilyInv
  <2>2. ASSUME NEW x \in sessions, NEW y \in sessions,
               ancestors'[Moved(x).id] \cap ancestors'[Moved(y).id] # {}
        PROVE  x = y
    <3>1. ancestors[x.id] \cap ancestors[y.id] # {} => x = y
      BY DEF IInv, SessionInv, FamilyInv
    <3>2. x.id \in Ids \ {r} /\ y.id \in Ids \ {r} /\ s \in ancestors[s]
      BY <1>1, <1>2 DEF IInv, SessionInv, FamilyInv
    <3>3. CASE x.id = s /\ y.id = s
      BY <3>1, <3>2, <3>3
    <3>4. CASE x.id = s /\ y.id # s
      <4>1. ancestors'[Moved(x).id] = {r} \cup ancestors[s] /\ ancestors'[Moved(y).id] = ancestors[y.id]
        BY <3>2, <3>4, <1>3, <1>4
      <4>2. QED
        BY <4>1, <2>2, <3>1, <3>2, <3>4, <1>2
    <3>5. CASE x.id # s /\ y.id = s
      <4>1. ancestors'[Moved(y).id] = {r} \cup ancestors[s] /\ ancestors'[Moved(x).id] = ancestors[x.id]
        BY <3>2, <3>5, <1>3, <1>4
      <4>2. QED
        BY <4>1, <2>2, <3>1, <3>2, <3>5, <1>2
    <3>6. CASE x.id # s /\ y.id # s
      BY <3>1, <3>2, <3>6, <2>2, <1>3, <1>4
    <3>7. QED
      BY <3>3, <3>4, <3>5, <3>6
  <2>3. \A x, y \in sessions' : ancestors'[x.id] \cap ancestors'[y.id] # {} => x = y
    <3> HIDE DEF Moved
    <3>1. QED
      BY <2>2, <1>1
  <2>4. QED
    BY <2>1, <2>3 DEF FamilyInv
<1>7. LogoutInv'
  <2>1. ASSUME NEW x \in sessions, ancestors'[Moved(x).id] \cap loggedOut # {} PROVE x.revoked
    <3>1. x.id \in Ids \ {r} /\ (ancestors[x.id] \cap loggedOut # {} => x.revoked)
      BY <1>2 DEF IInv, SessionInv, LogoutInv
    <3>2. ancestors'[Moved(x).id] \subseteq {r} \cup ancestors[x.id]
      BY <3>1, <1>3, <1>4
    <3>3. QED
      BY <2>1, <3>1, <3>2, <1>2
  <2>2. \A x \in sessions' : ancestors'[x.id] \cap loggedOut' # {} => x.revoked
    <3> HIDE DEF Moved
    <3>1. QED
      BY <2>1, <1>1, <1>4
  <2>3. QED
    BY <2>2 DEF LogoutInv
<1>8. PendingInv'
  BY <1>1 DEF IInv, SessionInv, PendingInv, RotateSession, TypeOK, LocalInv
<1>9. QED
  BY <1>5, <1>6, <1>7, <1>8 DEF SessionInv

(* The row that a logout finds is revoked, and no other has its tokens. *)
LEMMA RevokeKeepsSessions ==
  ASSUME IInv, NEW r \in Requests, RevokeSession(r)
  PROVE  SessionInv'
<1> DEFINE s == req[r].session
           Out(row) == IF row.id = s THEN [row EXCEPT !.revoked = TRUE] ELSE row
<1>1. /\ Goto(r, "done", NoReq) /\ UNCHANGED ancestors
      /\ sessions' = {Out(row) : row \in sessions}
      /\ loggedOut' = loggedOut \cup {row.id : row \in {x \in sessions : x.id = s}}
  BY DEF RevokeSession
<1>2. \A row \in sessions : /\ Out(row).id = row.id /\ row.id \in Ids /\ (row.id = s => Out(row).revoked)
                           /\ (row.revoked => Out(row).revoked)
  BY RowTypes DEF IInv, SessionRows
<1>3. Unborn' \subseteq Unborn /\ \A q \in Requests : pc'[q] = "rotate" => pc[q] = "rotate" /\ req'[q] = req[q]
  BY <1>1 DEF Unborn, IInv, TypeOK, LocalInv
<1> HIDE DEF Out
<1>4. FreshInv'
  <2> SUFFICES ASSUME NEW q \in Unborn
      PROVE  /\ ancestors[q] = {q} /\ q \notin loggedOut'
             /\ \A t \in Ids \ {q} : q \notin ancestors[t]
             /\ \A row \in sessions' : row.id # q
    BY <1>1, <1>3 DEF FreshInv
  <2>1. /\ ancestors[q] = {q} /\ q \notin loggedOut
        /\ \A t \in Ids \ {q} : q \notin ancestors[t]
        /\ \A row \in sessions : row.id # q
    BY DEF IInv, SessionInv, FreshInv
  <2>2. QED
    BY <2>1, <1>1, <1>2
<1>5. FamilyInv'
  <2>1. \A x, y \in sessions : ancestors[Out(x).id] \cap ancestors[Out(y).id] # {} => x = y
    BY <1>2 DEF IInv, SessionInv, FamilyInv
  <2>2. QED
    BY <2>1, <1>1 DEF IInv, SessionInv, FamilyInv
<1>6. LogoutInv'
  <2>1. ASSUME NEW x \in sessions, ancestors[Out(x).id] \cap loggedOut' # {} PROVE Out(x).revoked
    <3>1. CASE ancestors[x.id] \cap loggedOut # {}
      BY <3>1, <1>2 DEF IInv, SessionInv, LogoutInv
    <3>2. CASE ancestors[x.id] \cap loggedOut = {}
      <4>1. PICK y \in sessions : y.id = s /\ s \in ancestors[x.id]
        BY <2>1, <3>2, <1>1, <1>2
      <4>2. s \in ancestors[y.id]
        BY <4>1, <1>2 DEF IInv, SessionInv, FamilyInv
      <4>3. x = y
        BY <4>1, <4>2 DEF IInv, SessionInv, FamilyInv
      <4>4. QED
        BY <4>1, <4>3, <1>2
    <3>3. QED
      BY <3>1, <3>2
  <2>2. QED
    BY <2>1, <1>1 DEF LogoutInv
<1>7. PendingInv'
  BY <1>3 DEF IInv, SessionInv, PendingInv
<1>8. QED
  BY <1>4, <1>5, <1>6, <1>7 DEF SessionInv

LEMMA ExpiryKeepsSessions ==
  ASSUME IInv, NEW row \in sessions, ExpireSession(row)
  PROVE  SessionInv'
<1> DEFINE late == [row EXCEPT !.expired = TRUE]
<1>1. sessions' = (sessions \ {row}) \cup {late} /\ UNCHANGED <<pc, req, ancestors, loggedOut>>
  BY DEF ExpireSession
<1>2. late.id = row.id /\ late.revoked = row.revoked
  BY RowTypes DEF IInv, SessionRows
<1> HIDE DEF late
<1>3. FreshInv' /\ PendingInv' /\ LogoutInv'
  BY <1>1, <1>2 DEF IInv, SessionInv, FreshInv, PendingInv, LogoutInv, Unborn
<1>4. FamilyInv'
  <2>1. \A y \in sessions \ {row} : ancestors[late.id] \cap ancestors[y.id] = {}
    BY <1>2 DEF IInv, SessionInv, FamilyInv
  <2>2. QED
    BY <2>1, <1>1 DEF IInv, SessionInv, FamilyInv
<1>5. QED
  BY <1>3, <1>4 DEF SessionInv

(* A refresh found the row of its session: that id is somebody's. *)
LEMMA RefreshNotUnborn ==
  ASSUME SessionInv, NEW s, Authenticated(s)
  PROVE  s \notin Unborn
BY DEF Authenticated, SessionValid, SessionInv, FreshInv

(* A request that begins leaves the sessions alone and may rotate one that has     *)
(* begun.                                                                         *)
LEMMA BeginKeepsSessions ==
  ASSUME IInv, NEW r \in Requests, Begin(r)
  PROVE  SessionInv'
<1> DEFINE Same == UNCHANGED <<sessions, ancestors, loggedOut>>
<1>0. TypeOK /\ LocalInv /\ SessionInv
  BY DEF IInv
<1>1. ASSUME NEW u, NEW p, NEW code, Login(r, u, p, code) PROVE SessionInv'
  <2>1. Goto(r, "login", [user |-> u, role |-> role[u]]) /\ pc[r] = "new" /\ Same
    BY <1>1 DEF Login
  <2> HIDE DEF Goto
  <2>2. QED
    BY <1>0, <2>1, QuietStep
<1>2. ASSUME NEW s, Refresh(r, s) PROVE SessionInv'
  <2> DEFINE knows == [user |-> token[s].user, session |-> s]
  <2>1. Goto(r, "rotate", knows) /\ pc[r] = "new" /\ Same /\ knows.session \notin Unborn
    BY <1>2, <1>0, RefreshNotUnborn DEF Refresh
  <2> HIDE DEF Goto, knows
  <2>2. QED
    BY <1>0, <2>1, QuietStep
<1>3. ASSUME NEW label \in {"revoke", "secret", "mfa", "password", "role", "status", "done"}, NEW knows,
             Goto(r, label, knows), Same
      PROVE  SessionInv'
  <2> HIDE DEF Goto
  <2>1. QED
    BY <1>0, <1>3, QuietStep
<1>4. ASSUME NEW s, Logout(r, s) PROVE SessionInv'
  <2>1. Goto(r, "revoke", [user |-> token[s].user, session |-> s]) /\ Same
    BY <1>4 DEF Logout
  <2> HIDE DEF Goto
  <2>2. QED
    BY <2>1, <1>3
<1>5. ASSUME NEW s, MFASetup(r, s) PROVE SessionInv'
  <2>1. Goto(r, "secret", [user |-> token[s].user]) /\ Same
    BY <1>5 DEF MFASetup
  <2> HIDE DEF Goto
  <2>2. QED
    BY <2>1, <1>3
<1>6. ASSUME NEW s, NEW code, NEW on, MFACode(r, s, code, on) PROVE SessionInv'
  <2>1. Goto(r, "mfa", [user |-> token[s].user, enabled |-> on]) /\ Same
    BY <1>6 DEF MFACode
  <2> HIDE DEF Goto
  <2>2. QED
    BY <2>1, <1>3
<1>7. ASSUME NEW u, RequestReset(r, u) PROVE SessionInv'
  <2>1. Goto(r, "done", NoReq) /\ Same
    BY <1>7 DEF RequestReset
  <2> HIDE DEF Goto
  <2>2. QED
    BY <2>1, <1>3
<1>8. ASSUME NEW row, ResetPassword(r, row) PROVE SessionInv'
  <2>1. Goto(r, "password", [user |-> row.user, reset |-> row.id]) /\ Same
    BY <1>8 DEF ResetPassword
  <2> HIDE DEF Goto
  <2>2. QED
    BY <2>1, <1>3
<1>9. ASSUME NEW s, NEW new, NEW st, CreateUser(r, s, new, st) PROVE SessionInv'
  <2>1. Goto(r, "done", NoReq) /\ Same
    BY <1>9 DEF CreateUser
  <2> HIDE DEF Goto
  <2>2. QED
    BY <2>1, <1>3
<1>10. ASSUME NEW s, NEW u, NEW new, ChangeRole(r, s, u, new) PROVE SessionInv'
  <2>1. Goto(r, "role", [user |-> u, role |-> new]) /\ Same
    BY <1>10 DEF ChangeRole
  <2> HIDE DEF Goto
  <2>2. QED
    BY <2>1, <1>3
<1>11. ASSUME NEW s, NEW u, NEW st, ChangeStatus(r, s, u, st) PROVE SessionInv'
  <2>1. Goto(r, "status", [user |-> u, status |-> st]) /\ Same
    BY <1>11 DEF ChangeStatus
  <2> HIDE DEF Goto
  <2>2. QED
    BY <2>1, <1>3
<1>12. QED
  BY <1>1, <1>2, <1>4, <1>5, <1>6, <1>7, <1>8, <1>9, <1>10, <1>11 DEF Begin, MFAEnable, MFADisable

(* Of the statements after it, three write the sessions. *)
LEMMA ContinueKeepsSessions ==
  ASSUME IInv, NEW r \in Requests, Continue(r) \/ Fail(r)
  PROVE  SessionInv'
<1>0. TypeOK /\ LocalInv /\ SessionInv
  BY DEF IInv
<1>1. CASE CreateSession(r) \/ RotateSession(r) \/ RevokeSession(r)
  BY <1>1, CreateKeepsSessions, RotateKeepsSessions, RevokeKeepsSessions
<1>2. ASSUME NEW label \in {"mark", "done"}, NEW knows, Goto(r, label, knows),
             UNCHANGED <<sessions, ancestors, loggedOut>>
      PROVE  SessionInv'
  <2> HIDE DEF Goto
  <2>1. QED
    BY <1>0, <1>2, QuietStep
<1>3. CASE \/ UpdateMFASecret(r) \/ SetMFAEnabled(r) \/ MarkPasswordResetUsed(r)
           \/ UpdateUserRole(r) \/ UpdateUserStatus(r) \/ Fail(r)
  <2>1. Goto(r, "done", NoReq) /\ UNCHANGED <<sessions, ancestors, loggedOut>>
    BY <1>3 DEF UpdateMFASecret, SetMFAEnabled, MarkPasswordResetUsed, UpdateUserRole, UpdateUserStatus, Fail
  <2> HIDE DEF Goto
  <2>2. QED
    BY <2>1, <1>2
<1>4. CASE UpdateUserPassword(r)
  <2>1. Goto(r, "mark", req[r]) /\ UNCHANGED <<sessions, ancestors, loggedOut>>
    BY <1>4 DEF UpdateUserPassword
  <2> HIDE DEF Goto
  <2>2. QED
    BY <2>1, <1>2
<1>5. QED
  BY <1>1, <1>3, <1>4 DEF Continue

LEMMA Inductive == IInv /\ [Next]_vars => IInv'
<1> SUFFICES ASSUME IInv, [Next]_vars PROVE IInv'
  OBVIOUS
<1>0. TypeOK /\ LocalInv /\ AdminInv /\ SessionInv
  BY DEF IInv
<1>1. ASSUME NEW r \in Requests, Begin(r) PROVE IInv'
  BY <1>0, <1>1, BeginTypes, BeginKeepsSessions DEF IInv
<1>2. ASSUME NEW r \in Requests, Continue(r) \/ Fail(r) PROVE IInv'
  BY <1>0, <1>2, ContinueTypes, ContinueKeepsSessions DEF IInv
<1>3. ASSUME NEW row \in sessions, ExpireSession(row) PROVE IInv'
  BY <1>0, <1>3, ExpiryTypes, ExpiryKeepsSessions DEF IInv
<1>4. ASSUME NEW row \in resets, ExpireReset(row) PROVE IInv'
  <2>1. UNCHANGED <<sessions, ancestors, loggedOut, pc, req>>
    BY <1>4 DEF ExpireReset
  <2>2. SessionInv'
    BY <2>1, <1>0, SessionsQuiet DEF Unborn
  <2>3. QED
    BY <1>0, <1>4, <2>2, ExpiryTypes DEF IInv
<1>5. CASE UNCHANGED vars
  BY <1>5, <1>0 DEF vars, IInv, TypeOK, LocalInv, RequestOK, AdminInv, Seeded, SessionInv,
    FreshInv, PendingInv, FamilyInv, LogoutInv, Unborn
<1>6. QED
  BY <1>1, <1>2, <1>3, <1>4, <1>5 DEF Next

LEMMA Invariance == Spec => []IInv
BY InitIInv, Inductive, PTL DEF Spec
-----------------------------------------------------------------------------
(* The columns, the session and reset rows, the tokens and what every request     *)
(* holds between its statements (HandleLogin to handleUpdateUserStatus) are of    *)
(* their types in every state.                                                    *)
THEOREM TypeCorrect == Spec => []TypeOK
<1>1. IInv => TypeOK
  BY DEF IInv
<1>2. QED
  BY <1>1, Invariance, PTL

(* HandleRefresh with RotateSession: however many refreshes with one token        *)
(* overlap, of all the tokens one login has led to one at most is accepted.       *)
THEOREM OneToken == Spec => []OneLiveToken
<1>1. IInv => OneLiveToken
  <2> SUFFICES ASSUME IInv, NEW s \in Ids, NEW t \in Ids, ancestors[s] \cap ancestors[t] # {},
                      Authenticated(s), Authenticated(t)
      PROVE  s = t
    BY DEF OneLiveToken
  <2>1. PICK x \in sessions : x.id = s
    BY DEF Authenticated, SessionValid
  <2>2. PICK y \in sessions : y.id = t
    BY DEF Authenticated, SessionValid
  <2>3. x = y
    BY <2>1, <2>2 DEF IInv, SessionInv, FamilyInv
  <2>4. QED
    BY <2>1, <2>2, <2>3
<1>2. QED
  BY <1>1, Invariance, PTL

(* HandleLogout with RevokeSession: no token is accepted whose session a logout   *)
(* revoked, nor one a refresh already under way rotates it to.                    *)
THEOREM LogoutLasts == Spec => []LoggedOutStaysOut
<1>1. IInv => LoggedOutStaysOut
  <2> SUFFICES ASSUME IInv, NEW s \in Ids, ancestors[s] \cap loggedOut # {}, Authenticated(s)
      PROVE  FALSE
    BY DEF LoggedOutStaysOut
  <2>1. PICK x \in sessions : x.id = s /\ ~x.revoked
    BY DEF Authenticated, SessionValid
  <2>2. QED
    BY <2>1 DEF IInv, SessionInv, LogoutInv
<1>2. QED
  BY <1>1, Invariance, PTL

(* CanCreateRole and CanManageRole in handleCreateUser, handleUpdateUserRole and  *)
(* handleUpdateUserStatus: whatever was read before another request wrote, the    *)
(* system administrators are the seeded ones, and active.                         *)
THEOREM SystemAdminsLast == Spec => []SystemAdminsStay
<1>1. IInv => SystemAdminsStay
  BY DEF IInv, AdminInv, Seeded, SystemAdminsStay, Everyone
<1>2. QED
  BY <1>1, Invariance, PTL

-----------------------------------------------------------------------------
(* The second factor *)

MfaLabels == {"secret", "mfa"}

(* Where no two MFA requests of a user overlap, the one under way is alone, and *)
(* the secret whose code it was given is still the user's.                      *)
MfaInv ==
  /\ \A q, r \in Requests :
       pc[q] \in MfaLabels /\ pc[r] \in MfaLabels /\ req[q].user = req[r].user /\ req[r].user \notin overlapped
         => q = r
  /\ \A r \in Requests :
       pc[r] = "mfa" /\ req[r].enabled /\ req[r].user \notin overlapped => secret[req[r].user] \in confirmed
  /\ EnabledMeansConfirmed

LEMMA InitMfaInv == Init => MfaInv
BY DEF Init, MfaInv, MfaLabels, EnabledMeansConfirmed

LEMMA MfaQuiet ==
  ASSUME MfaInv, secret' = secret, mfa' = mfa, confirmed' = confirmed, overlapped' = overlapped,
         \A q \in Requests : pc'[q] \in MfaLabels => pc'[q] = pc[q] /\ req'[q] = req[q]
  PROVE  MfaInv'
BY DEF MfaInv, MfaLabels, EnabledMeansConfirmed

(* Goto moves one request only. *)
LEMMA GotoMoves ==
  ASSUME IInv, NEW r \in Requests, NEW label, NEW knows, Goto(r, label, knows)
  PROVE  /\ pc'[r] = label /\ req'[r] = knows
         /\ \A q \in Requests \ {r} : pc'[q] = pc[q] /\ req'[q] = req[q]
BY DEF IInv, TypeOK, LocalInv

(* An MFA request that begins is alone, or its user is noted. *)
LEMMA MfaArrives ==
  ASSUME IInv, MfaInv, NEW r \in Requests, Starts(r), NEW label \in MfaLabels, NEW knows,
         Goto(r, label, knows), NoteOverlap(knows.user), secret' = secret, mfa' = mfa, confirmed \subseteq confirmed',
         label = "mfa" /\ knows.enabled => secret[knows.user] \in confirmed'
  PROVE  MfaInv'
<1>1. /\ pc'[r] = label /\ req'[r] = knows
      /\ \A q \in Requests \ {r} : pc'[q] = pc[q] /\ req'[q] = req[q]
  BY GotoMoves
<1>2. overlapped \subseteq overlapped'
  BY DEF NoteOverlap
<1>3. ASSUME NEW q \in Requests \ {r}, pc[q] \in MfaLabels, req[q].user = knows.user
      PROVE  knows.user \in overlapped'
  BY <1>3 DEF NoteOverlap, MfaLabels
<1>4. \A q, s \in Requests :
        pc'[q] \in MfaLabels /\ pc'[s] \in MfaLabels /\ req'[q].user = req'[s].user /\ req'[s].user \notin overlapped'
          => q = s
  BY <1>1, <1>2, <1>3 DEF MfaInv
<1>5. \A q \in Requests :
        pc'[q] = "mfa" /\ req'[q].enabled /\ req'[q].user \notin overlapped' => secret'[req'[q].user] \in confirmed'
  BY <1>1, <1>2 DEF MfaInv
<1>6. EnabledMeansConfirmed'
  BY <1>2 DEF MfaInv, EnabledMeansConfirmed
<1>7. QED
  BY <1>4, <1>5, <1>6 DEF MfaInv

LEMMA SecretKeepsMfa ==
  ASSUME IInv, MfaInv, NEW r \in Requests, UpdateMFASecret(r)
  PROVE  MfaInv'
<1>1. PICK u \in Everyone : u = req[r].user
  BY DEF UpdateMFASecret, IInv, LocalInv, RequestOK
<1>2. /\ pc[r] = "secret" /\ pc'[r] = "done"
      /\ \A q \in Requests \ {r} : pc'[q] = pc[q] /\ req'[q] = req[q]
  BY GotoMoves DEF UpdateMFASecret
<1>3. /\ secret' = [secret EXCEPT ![u] = r] /\ mfa' = [mfa EXCEPT ![u] = FALSE]
      /\ confirmed' = confirmed /\ overlapped' = overlapped
  BY <1>1 DEF UpdateMFASecret
<1>4. \A q \in Requests \ {r} : pc[q] = "mfa" /\ req[q].user \notin overlapped => req[q].user # u
  BY <1>1, <1>2 DEF MfaInv, MfaLabels
<1>5. \A q \in Requests :
        pc'[q] = "mfa" /\ req'[q].enabled /\ req'[q].user \notin overlapped' => secret'[req'[q].user] \in confirmed'
  <2> SUFFICES ASSUME NEW q \in Requests, pc'[q] = "mfa", req'[q].enabled, req'[q].user \notin overlapped'
               PROVE  secret'[req'[q].user] \in confirmed'
    OBVIOUS
  <2>1. q # r /\ pc[q] = "mfa" /\ req'[q] = req[q]
    BY <1>2
  <2>2. req[q].user \in Everyone /\ req[q].user # u
    BY <1>3, <1>4, <2>1 DEF IInv, LocalInv, RequestOK
  <2>3. QED
    BY <1>3, <2>1, <2>2 DEF MfaInv, IInv, TypeOK
<1>6. EnabledMeansConfirmed'
  BY <1>3 DEF MfaInv, EnabledMeansConfirmed, IInv, TypeOK
<1>7. \A q, s \in Requests :
        pc'[q] \in MfaLabels /\ pc'[s] \in MfaLabels /\ req'[q].user = req'[s].user /\ req'[s].user \notin overlapped'
          => q = s
  BY <1>2, <1>3 DEF MfaInv, MfaLabels
<1>8. QED
  BY <1>5, <1>6, <1>7 DEF MfaInv

LEMMA EnableKeepsMfa ==
  ASSUME IInv, MfaInv, NEW r \in Requests, SetMFAEnabled(r)
  PROVE  MfaInv'
<1>1. PICK u \in Everyone : u = req[r].user
  BY DEF SetMFAEnabled, IInv, LocalInv, RequestOK
<1>2. /\ pc[r] = "mfa" /\ pc'[r] = "done"
      /\ \A q \in Requests \ {r} : pc'[q] = pc[q] /\ req'[q] = req[q]
  BY GotoMoves DEF SetMFAEnabled
<1>3. /\ mfa' = [mfa EXCEPT ![u] = req[r].enabled]
      /\ secret' = secret /\ confirmed' = confirmed /\ overlapped' = overlapped
  BY <1>1 DEF SetMFAEnabled
<1>4. u \notin overlapped /\ req[r].enabled => secret[u] \in confirmed
  BY <1>1, <1>2 DEF MfaInv
<1>5. EnabledMeansConfirmed'
  BY <1>3, <1>4 DEF MfaInv, EnabledMeansConfirmed, IInv, TypeOK
<1>6. QED
  BY <1>2, <1>3, <1>5 DEF MfaInv, MfaLabels

(* A request that goes on to something else. *)
LEMMA MfaElsewhere ==
  ASSUME IInv, MfaInv, NEW r \in Requests, NEW label, NEW knows, label \notin MfaLabels, Goto(r, label, knows),
         secret' = secret, mfa' = mfa, confirmed' = confirmed, overlapped' = overlapped
  PROVE  MfaInv'
<1>1. \A q \in Requests : pc'[q] \in MfaLabels => pc'[q] = pc[q] /\ req'[q] = req[q]
  BY GotoMoves
<1>2. QED
  BY <1>1, MfaQuiet

LEMMA BeginKeepsMfa ==
  ASSUME IInv, MfaInv, NEW r \in Requests, Begin(r)
  PROVE  MfaInv'
<1>1. ASSUME NEW s \in Ids, MFASetup(r, s) PROVE MfaInv'
  <2> DEFINE knows == [user |-> token[s].user]
  <2>1. /\ Starts(r) /\ Goto(r, "secret", knows) /\ NoteOverlap(knows.user)
        /\ secret' = secret /\ mfa' = mfa /\ confirmed' = confirmed
    BY <1>1 DEF MFASetup
  <2> HIDE DEF knows
  <2>2. QED
    BY <2>1, MfaArrives DEF MfaLabels
<1>2. ASSUME NEW s \in Ids, NEW code \in Requests, NEW enabled \in BOOLEAN, MFACode(r, s, code, enabled)
      PROVE  MfaInv'
  <2> DEFINE knows == [user |-> token[s].user, enabled |-> enabled]
  <2>1. /\ Starts(r) /\ Goto(r, "mfa", knows) /\ NoteOverlap(knows.user)
        /\ secret' = secret /\ mfa' = mfa /\ confirmed' = confirmed \cup {code}
        /\ code = secret[knows.user]
    BY <1>2 DEF MFACode
  <2> HIDE DEF knows
  <2>2. QED
    BY <2>1, MfaArrives DEF MfaLabels
<1>3. ASSUME NEW u \in Everyone, NEW p \in Passwords, NEW code \in Requests \cup {None}, Login(r, u, p, code) PROVE MfaInv'
  BY <1>3, MfaElsewhere DEF Login, MfaLabels
<1>4. ASSUME NEW s \in Ids, Refresh(r, s) \/ Logout(r, s) PROVE MfaInv'
  BY <1>4, MfaElsewhere DEF Refresh, Logout, MfaLabels
<1>5. ASSUME NEW u \in Everyone, RequestReset(r, u) PROVE MfaInv'
  BY <1>5, MfaElsewhere DEF RequestReset, MfaLabels
<1>6. ASSUME NEW row \in resets, ResetPassword(r, row) PROVE MfaInv'
  BY <1>6, MfaElsewhere DEF ResetPassword, MfaLabels
<1>7. ASSUME NEW s \in Ids, NEW new \in Roles, NEW st \in {Active, Disabled}, CreateUser(r, s, new, st) PROVE MfaInv'
  BY <1>7, MfaElsewhere DEF CreateUser, MfaLabels
<1>8. ASSUME NEW s \in Ids, NEW u \in Everyone, NEW new \in Roles, ChangeRole(r, s, u, new) PROVE MfaInv'
  BY <1>8, MfaElsewhere DEF ChangeRole, MfaLabels
<1>9. ASSUME NEW s \in Ids, NEW u \in Everyone, NEW st \in {Active, Disabled}, ChangeStatus(r, s, u, st) PROVE MfaInv'
  BY <1>9, MfaElsewhere DEF ChangeStatus, MfaLabels
<1>10. QED
  BY <1>1, <1>2, <1>3, <1>4, <1>5, <1>6, <1>7, <1>8, <1>9 DEF Begin, MFAEnable, MFADisable

LEMMA ContinueKeepsMfa ==
  ASSUME IInv, MfaInv, NEW r \in Requests, Continue(r) \/ Fail(r)
  PROVE  MfaInv'
<1>1. CASE UpdateMFASecret(r) \/ SetMFAEnabled(r)
  BY <1>1, SecretKeepsMfa, EnableKeepsMfa
<1>2. CASE CreateSession(r) \/ RotateSession(r) \/ RevokeSession(r)
  BY <1>2, MfaElsewhere DEF CreateSession, RotateSession, RevokeSession, MfaLabels
<1>3. CASE UpdateUserPassword(r) \/ MarkPasswordResetUsed(r)
  BY <1>3, MfaElsewhere DEF UpdateUserPassword, MarkPasswordResetUsed, MfaLabels
<1>4. CASE UpdateUserRole(r) \/ UpdateUserStatus(r) \/ Fail(r)
  BY <1>4, MfaElsewhere DEF UpdateUserRole, UpdateUserStatus, Fail, MfaLabels
<1>5. QED
  BY <1>1, <1>2, <1>3, <1>4 DEF Continue

LEMMA MfaStep ==
  ASSUME IInv, MfaInv, [Next]_vars
  PROVE  MfaInv'
<1>1. ASSUME NEW r \in Requests, Begin(r) \/ Continue(r) \/ Fail(r) PROVE MfaInv'
  BY <1>1, BeginKeepsMfa, ContinueKeepsMfa
<1>2. CASE (\E row \in sessions : ExpireSession(row)) \/ (\E row \in resets : ExpireReset(row)) \/ UNCHANGED vars
  BY <1>2, MfaQuiet DEF ExpireSession, ExpireReset, vars
<1>3. QED
  BY <1>1, <1>2 DEF Next

(* EnabledMeansConfirmed, whatever requests of other users do meanwhile, and     *)
(* whichever fail half way: a second factor that is on is one the user can give. *)
THEOREM SecondFactorUsable == Spec => []EnabledMeansConfirmed
<1>1. MfaInv => EnabledMeansConfirmed
  BY DEF MfaInv
<1>2. Init => MfaInv
  BY InitMfaInv
<1>3. IInv /\ MfaInv /\ [Next]_vars => MfaInv'
  BY MfaStep
<1>4. QED
  BY <1>1, <1>2, <1>3, Invariance, PTL DEF Spec
=============================================================================
