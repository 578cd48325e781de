---------------------------- MODULE UserAccounts ----------------------------
(* Users, their sessions, second factor and password resets: the handlers of    *)
(* auth and of user administration, one label per database statement that       *)
(* another request may come before. A request names the session id, the MFA     *)
(* secret or the reset token it generates; one user's sessions, secrets and     *)
(* passwords are those of the rows that user has. A session id stands for the   *)
(* signed token that carries it.                                                *)
EXTENDS Naturals, FiniteSets, TLC, RolePolicy

CONSTANTS
  Users, RoleOf,  \* users at the beginning, with the roles they are seeded with
  NewUser,        \* the user that may be created
  Requests,
  Begun,          \* session ids of sessions begun before: Begun[s] is the user's
  None

Everyone == Users \cup {NewUser}
Old == DOMAIN Begun
Ids == Requests \cup Old
Passwords == {"issued", "chosen"} \* issued with the account, or chosen in a reset
Active == "active"
Disabled == "disabled"

ASSUME AccountsAssumption ==
  /\ RoleOf \in [Users -> Roles] /\ NewUser \notin Users
  /\ \A s \in Old : Begun[s] \in Users
  /\ Requests \cap Old = {}
  /\ None \notin Ids /\ None \notin Everyone /\ None \notin Roles

VARIABLES
  role, status, password, \* users: their columns, role None before the user exists
  secret, mfa,            \* users: mfa_secret_enc and mfa_enabled
  sessions,               \* rows of sessions: [id, user, revoked, expired]
  token,                  \* session id -> claims [user, role] of the signed token, None before
  resets,                 \* rows of password_resets: [id, user, used]
  pc, req,                \* request -> what it does next, what it knows
  ancestors,              \* history: session id -> ids it has been rotated from, and itself
  loggedOut,              \* history: ids whose session a logout has revoked
  confirmed,              \* history: secrets whose code a user has given
  overlapped              \* history: users with two MFA requests at a time

users == <<role, status, password, secret, mfa>>
db == <<users, sessions, resets>>
history == <<ancestors, loggedOut, confirmed, overlapped>>
vars == <<db, token, pc, req, history>>

NoReq == [user |-> None]
Labels == {"new", "login", "rotate", "revoke", "secret", "mfa", "password", "mark", "role", "status", "done"}

Init ==
  /\ role = [u \in Everyone |-> IF u \in Users THEN RoleOf[u] ELSE None]
  /\ status = [u \in Everyone |-> Active]
  /\ password = [u \in Everyone |-> "issued"]
  /\ secret = [u \in Everyone |-> None]
  /\ mfa = [u \in Everyone |-> FALSE]
  /\ sessions = {[id |-> s, user |-> Begun[s], revoked |-> FALSE, expired |-> FALSE] : s \in Old}
  /\ token = [s \in Ids |-> IF s \in Old THEN [user |-> Begun[s], role |-> RoleOf[Begun[s]]] ELSE None]
  /\ resets = {}
  /\ pc = [r \in Requests |-> "new"]
  /\ req = [r \in Requests |-> NoReq]
  /\ ancestors = [s \in Ids |-> {s}]
  /\ loggedOut = {}
  /\ confirmed = {}
  /\ overlapped = {}

-----------------------------------------------------------------------------
(* What the handlers have in common *)

(* SessionValid, which the authentication of a request asks as well. *)
SessionValid(s) ==
  \E row \in sessions : row.id = s /\ ~row.revoked /\ ~row.expired

(* A token is accepted: signed and its session valid. *)
Authenticated(s) == token[s] # None /\ SessionValid(s)

Goto(r, label, knows) ==
  /\ pc' = [pc EXCEPT ![r] = label]
  /\ req' = [req EXCEPT ![r] = knows]

Finish(r) == Goto(r, "done", NoReq)

Starts(r) == pc[r] = "new"

(* A statement fails or the client leaves: what has been written stays. *)
Fail(r) ==
  /\ pc[r] \notin {"new", "done"}
  /\ Finish(r)
  /\ UNCHANGED <<db, token, history>>

-----------------------------------------------------------------------------
(* Login, refresh, logout *)

(* FindActiveUserByEmail: one read of everything the checks need. *)
FindActiveUser(u) == role[u] # None /\ status[u] = Active

(* HandleLogin up to the session: the password and the code are right. *)
Login(r, u, p, code) ==
  /\ Starts(r)
  /\ FindActiveUser(u) /\ password[u] = p
  /\ mfa[u] => secret[u] # None /\ code = secret[u]
  /\ Goto(r, "login", [user |-> u, role |-> role[u]])
  /\ UNCHANGED <<db, token, history>>

(* CreateSession *)
NewSession(s, u) == [id |-> s, user |-> u, revoked |-> FALSE, expired |-> FALSE]

CreateSession(r) ==
  /\ pc[r] = "login"
  /\ sessions' = sessions \cup {NewSession(r, req[r].user)}
  /\ token' = [token EXCEPT ![r] = req[r]]
  /\ Finish(r)
  /\ UNCHANGED <<users, resets, history>>

(* HandleRefresh *)
Refresh(r, s) ==
  /\ Starts(r)
  /\ Authenticated(s)
  /\ Goto(r, "rotate", [user |-> token[s].user, session |-> s])
  /\ UNCHANGED <<db, token, history>>

(* Mutant: the rotation begins a session of its own. *)
RotatedAnew(s, new) == sessions \cup {NewSession(new, token[s].user)}

(* Mutant: the rotation gives a logged-out session a new life. *)
RotatedRevived(s, new) ==
  {IF row.id = s THEN NewSession(new, row.user) ELSE row : row \in sessions}

(* RotateSession: the row is not looked at again, there may be none. *)
Rotated(s, new) ==
  {IF row.id = s THEN [row EXCEPT !.id = new, !.expired = FALSE] ELSE row : row \in sessions}

(* The new token has the claims of the old one. *)
RotateSession(r) ==
  /\ pc[r] = "rotate"
  /\ LET s == req[r].session
     IN /\ sessions' = Rotated(s, r)
        /\ token' = [token EXCEPT ![r] = token[s]]
        /\ ancestors' = [ancestors EXCEPT ![r] = @ \cup ancestors[s]]
  /\ Finish(r)
  /\ UNCHANGED <<users, resets, loggedOut, confirmed, overlapped>>

(* HandleLogout; without a valid session it answers the same. *)
Logout(r, s) ==
  /\ Starts(r)
  /\ Authenticated(s)
  /\ Goto(r, "revoke", [user |-> token[s].user, session |-> s])
  /\ UNCHANGED <<db, token, history>>

(* RevokeSession, by the id the token had. *)
RevokeSession(r) ==
  /\ pc[r] = "revoke"
  /\ LET s == req[r].session
     IN /\ sessions' = {IF row.id = s THEN [row EXCEPT !.revoked = TRUE] ELSE row : row \in sessions}
        /\ loggedOut' = loggedOut \cup {row.id : row \in {x \in sessions : x.id = s}}
  /\ Finish(r)
  /\ UNCHANGED <<users, resets, token, ancestors, confirmed, overlapped>>

(* Eight hours pass. *)
ExpireSession(row) ==
  /\ row \in sessions /\ ~row.expired
  /\ sessions' = (sessions \ {row}) \cup {[row EXCEPT !.expired = TRUE]}
  /\ UNCHANGED <<users, resets, token, pc, req, history>>

-----------------------------------------------------------------------------
(* Second factor *)

(* An MFA request of u begins: is another one on its way? *)
NoteOverlap(u) ==
  overlapped' = overlapped \cup
    {x \in {u} : \E q \in Requests : pc[q] \in {"secret", "mfa"} /\ req[q].user = x}

(* HandleMFASetup with its UpdateMFASecret: a new secret, not enabled. *)
MFASetup(r, s) ==
  /\ Starts(r)
  /\ Authenticated(s)
  /\ Goto(r, "secret", [user |-> token[s].user])
  /\ NoteOverlap(token[s].user)
  /\ UNCHANGED <<db, token, ancestors, loggedOut, confirmed>>

(* Mutant: a new secret leaves the second factor enabled. *)
UpdateMFASecretOnly(r) ==
  /\ pc[r] = "secret"
  /\ secret' = [secret EXCEPT ![req[r].user] = r]
  /\ Finish(r)
  /\ UNCHANGED <<role, status, password, mfa, sessions, resets, token, history>>

UpdateMFASecret(r) ==
  /\ pc[r] = "secret"
  /\ secret' = [secret EXCEPT ![req[r].user] = r]
  /\ mfa' = [mfa EXCEPT ![req[r].user] = FALSE]
  /\ Finish(r)
  /\ UNCHANGED <<role, status, password, sessions, resets, token, history>>

(* HandleMFAEnable and HandleMFADisable: GetMFASecret, and the code is right. *)
MFACode(r, s, code, enabled) ==
  /\ Starts(r)
  /\ Authenticated(s)
  /\ LET u == token[s].user
     IN /\ secret[u] # None /\ code = secret[u]
        /\ Goto(r, "mfa", [user |-> u, enabled |-> enabled])
        /\ NoteOverlap(u)
  /\ confirmed' = confirmed \cup {code}
  /\ UNCHANGED <<db, token, ancestors, loggedOut>>

MFAEnable(r, s, code) == MFACode(r, s, code, TRUE)
MFADisable(r, s, code) == MFACode(r, s, code, FALSE)

(* SetMFAEnabled: whatever the secret is by now. *)
SetMFAEnabled(r) ==
  /\ pc[r] = "mfa"
  /\ mfa' = [mfa EXCEPT ![req[r].user] = req[r].enabled]
  /\ Finish(r)
  /\ UNCHANGED <<role, status, password, secret, sessions, resets, token, history>>

-----------------------------------------------------------------------------
(* Password resets *)

(* UserIDByEmail: an address that is known, also of a disabled user. *)
Known(u) == role[u] # None

(* HandleRequestReset: CreatePasswordReset and a mail with the token. *)
RequestReset(r, u) ==
  /\ Starts(r)
  /\ Known(u)
  /\ resets' = resets \cup {[id |-> r, user |-> u, used |-> FALSE]}
  /\ Finish(r)
  /\ UNCHANGED <<users, sessions, token, history>>

(* The token's time is over: as used. *)
ExpireReset(row) ==
  /\ row \in resets /\ ~row.used
  /\ resets' = (resets \ {row}) \cup {[row EXCEPT !.used = TRUE]}
  /\ UNCHANGED <<users, sessions, token, pc, req, history>>

(* PasswordResetUserID *)
Usable(row) == row \in resets /\ ~row.used

(* HandleResetPassword *)
ResetPassword(r, row) ==
  /\ Starts(r)
  /\ Usable(row)
  /\ Goto(r, "password", [user |-> row.user, reset |-> row.id])
  /\ UNCHANGED <<db, token, history>>

UpdateUserPassword(r) ==
  /\ pc[r] = "password"
  /\ password' = [password EXCEPT ![req[r].user] = "chosen"]
  /\ Goto(r, "mark", req[r])
  /\ UNCHANGED <<role, status, secret, mfa, sessions, resets, token, history>>

(* MarkPasswordResetUsed *)
MarkPasswordResetUsed(r) ==
  /\ pc[r] = "mark"
  /\ resets' = {IF row.id = req[r].reset THEN [row EXCEPT !.used = TRUE] ELSE row : row \in resets}
  /\ Finish(r)
  /\ UNCHANGED <<users, sessions, token, history>>

-----------------------------------------------------------------------------
(* User administration: the actor's role is the one in its token *)

(* Mutant: the role that has been looked up is left out of the row. *)
AddUserWithoutRole(new, st) ==
  /\ role[NewUser] = None
  /\ role' = [role EXCEPT ![NewUser] = ""]
  /\ status' = [status EXCEPT ![NewUser] = st]
  /\ password' = [password EXCEPT ![NewUser] = "issued"]

(* CreateUserWithEmployee: one transaction. *)
AddUser(new, st) ==
  /\ role[NewUser] = None
  /\ role' = [role EXCEPT ![NewUser] = new]
  /\ status' = [status EXCEPT ![NewUser] = st]
  /\ password' = [password EXCEPT ![NewUser] = "issued"]

(* handleCreateUser *)
CreateUser(r, s, new, st) ==
  /\ Starts(r)
  /\ Authenticated(s) /\ CanCreateRole(token[s].role, new)
  /\ AddUser(new, st)
  /\ Finish(r)
  /\ UNCHANGED <<secret, mfa, sessions, resets, token, history>>

(* GetUser of another user, whom the actor may manage. *)
MayManage(s, u) ==
  /\ Authenticated(s) /\ token[s].user # u
  /\ Known(u) /\ CanManageRole(token[s].role, role[u])

(* handleUpdateUserRole *)
ChangeRole(r, s, u, new) ==
  /\ Starts(r)
  /\ MayManage(s, u) /\ CanCreateRole(token[s].role, new)
  /\ Goto(r, "role", [user |-> u, role |-> new])
  /\ UNCHANGED <<db, token, history>>

UpdateUserRole(r) ==
  /\ pc[r] = "role"
  /\ role' = [role EXCEPT ![req[r].user] = req[r].role]
  /\ Finish(r)
  /\ UNCHANGED <<status, password, secret, mfa, sessions, resets, token, history>>

(* handleUpdateUserStatus *)
ChangeStatus(r, s, u, st) ==
  /\ Starts(r)
  /\ MayManage(s, u)
  /\ Goto(r, "status", [user |-> u, status |-> st])
  /\ UNCHANGED <<db, token, history>>

UpdateUserStatus(r) ==
  /\ pc[r] = "status"
  /\ status' = [status EXCEPT ![req[r].user] = req[r].status]
  /\ Finish(r)
  /\ UNCHANGED <<role, password, secret, mfa, sessions, resets, token, history>>

-----------------------------------------------------------------------------

Begin(r) ==
  \/ \E u \in Everyone, p \in Passwords, code \in Requests \cup {None} : Login(r, u, p, code)
  \/ \E s \in Ids : Refresh(r, s) \/ Logout(r, s) \/ MFASetup(r, s)
  \/ \E s \in Ids, code \in Requests : MFAEnable(r, s, code) \/ MFADisable(r, s, code)
  \/ \E u \in Everyone : RequestReset(r, u)
  \/ \E row \in resets : ResetPassword(r, row)
  \/ \E s \in Ids, new \in Roles, st \in {Active, Disabled} : CreateUser(r, s, new, st)
  \/ \E s \in Ids, u \in Everyone, new \in Roles : ChangeRole(r, s, u, new)
  \/ \E s \in Ids, u \in Everyone, st \in {Active, Disabled} : ChangeStatus(r, s, u, st)

Continue(r) ==
  \/ CreateSession(r) \/ RotateSession(r) \/ RevokeSession(r)
  \/ UpdateMFASecret(r) \/ SetMFAEnabled(r)
  \/ UpdateUserPassword(r) \/ MarkPasswordResetUsed(r)
  \/ UpdateUserRole(r) \/ UpdateUserStatus(r)

Next ==
  \/ \E r \in Requests : Begin(r) \/ Continue(r) \/ Fail(r)
  \/ \E row \in sessions : ExpireSession(row)
  \/ \E row \in resets : ExpireReset(row)

Spec == Init /\ [][Next]_vars

-----------------------------------------------------------------------------
(* Properties *)

(* Columns, session rows, tokens and what requests know keep their types. *)
TypeOK ==
  /\ role \in [Everyone -> Roles \cup {None}]
  /\ status \in [Everyone -> {Active, Disabled}]
  /\ password \in [Everyone -> Passwords]
  /\ secret \in [Everyone -> Requests \cup {None}]
  /\ mfa \in [Everyone -> BOOLEAN]
  /\ sessions \subseteq [id : Ids, user : Everyone, revoked : BOOLEAN, expired : BOOLEAN]
  /\ \A s \in Ids : token[s] # None => token[s].user \in Everyone /\ token[s].role \in Roles
  /\ resets \subseteq [id : Requests, user : Everyone, used : BOOLEAN]
  /\ pc \in [Requests -> Labels]
  /\ \A r \in Requests : req[r].user \in Everyone \cup {None}
  /\ ancestors \in [Ids -> SUBSET Ids]
  /\ loggedOut \subseteq Ids /\ confirmed \subseteq Requests /\ overlapped \subseteq Everyone

(* Of all the tokens one login has led to, at most one is accepted at any time,  *)
(* also when two refreshes with one token both find it valid.                    *)
OneLiveToken ==
  \A s, t \in Ids : s # t /\ ancestors[s] \cap ancestors[t] # {}
                      => ~(Authenticated(s) /\ Authenticated(t))

(* What a logout has revoked stays out: no token rotated from it is accepted,    *)
(* even if the refresh found the session valid before the logout.                *)
LoggedOutStaysOut ==
  \A s \in Ids : ancestors[s] \cap loggedOut # {} => ~Authenticated(s)

(* The system administrators the tenant is seeded with stay, active, and no one  *)
(* becomes one, although role checks are made on what was read earlier and with  *)
(* the role of a token.                                                          *)
SystemAdminsStay ==
  \A u \in Everyone :
    (role[u] = "SystemAdmin") <=> (u \in Users /\ RoleOf[u] = "SystemAdmin" /\ status[u] = Active)

(* An enabled second factor is one whose code its user has given, so that the    *)
(* user can log in again: where no two MFA requests of a user overlap.           *)
EnabledMeansConfirmed ==
  \A u \in Everyone \ overlapped : mfa[u] => secret[u] \in confirmed

=============================================================================
