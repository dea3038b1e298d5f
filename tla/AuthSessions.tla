----------------------------- MODULE AuthSessions -----------------------------
(***************************************************************************)
(* Accounts and sessions of the exchangely backend: the users and sessions *)
(* tables, local and Google logins, refresh-token rotation, logout,        *)
(* password changes and the admin's user management.                       *)
(*                                                                         *)
(* A Request is an HTTP handler that makes more than one database call;    *)
(* the calls of different requests interleave.  Handlers whose writes are  *)
(* one call are one step.  An access token is a signed snapshot of the row *)
(* it was issued from, and nothing but its expiry revokes it; a refresh    *)
(* token is good for as long as its session has a row.  Whoever has either *)
(* may use it, in several requests at once.  The rate limits that may turn *)
(* a login away are in LoginLimiter.                                       *)
(***************************************************************************)
CONSTANTS
    User,           \* accounts that may come to exist
    Local,          \* the account of BACKEND_ADMIN_EMAIL, the only local one
    Role,           \* roles an admin can give
    Request,        \* handler goroutines
    Token,          \* refresh tokens
    Password,
    NoUser, NoToken, NoPassword

ASSUME LocalAssumption == Local \in User
ASSUME RoleAssumption ==
    /\ {"user", "admin"} \subseteq Role
    /\ Role \subseteq {"user", "premium", "admin"}
ASSUME NoneAssumption ==
    /\ NoUser \notin User
    /\ NoToken \notin Token
    /\ NoPassword \notin Password

VARIABLES
    row,        \* users, role "none" where there is no row
    session,    \* sessions by refresh token: whose, NoUser if there is no row
                \* or if expires_at has passed (a lookup deletes it and refuses)
    access,     \* the access tokens that have not expired
    req         \* per request, where its handler is and what it has read

vars == <<row, session, access, req>>

Claims == [sub : User, role : Role]

Row == [role : Role \cup {"none"}, disabled : BOOLEAN,
        password : Password \cup {NoPassword}, mustChange : BOOLEAN]

NoRow == [role |-> "none", disabled |-> FALSE, password |-> NoPassword,
          mustChange |-> FALSE]

\* Where a handler is: a login is about to write the Google profile or to issue
\* tokens, a refresh to delete the session it found or to read its account,
\* others to store a password or to delete the sessions of an account.
RequestPc == {"idle", "upsert", "issue", "rotate", "lookup", "store", "wipe"}

Handler == [pc : RequestPc, user : User, token : Token \cup {NoToken},
            seen : Row, new : Password \cup {NoPassword}]

NoHandler == [pc |-> "idle", user |-> Local, token |-> NoToken,
              seen |-> NoRow, new |-> NoPassword]

-----------------------------------------------------------------------------
(* Repositories *)

\* FindByID, FindByEmail and FindByGoogleID.
FindUser(u) == row[u]

Exists(u) == FindUser(u).role # "none"

\* ListWithFilters("", "admin", "active").
Admins == {u \in User : row[u].role = "admin" /\ ~row[u].disabled}

\* UserRepository.Create: e-mail and Google id are unique.
CreateUser(u, new) == ~Exists(u) /\ row' = [row EXCEPT ![u] = new]

\* UserRepository.Update writes every column but `disabled`, as it was read.
WriteBack(u, seen) ==
    row' = [row EXCEPT ![u].role = seen.role, ![u].password = seen.password,
                       ![u].mustChange = seen.mustChange]

UpdatePasswordHash(u, p, must) ==
    row' = [row EXCEPT ![u].password = p, ![u].mustChange = must]

SetRole(u, new) == Exists(u) /\ row' = [row EXCEPT ![u].role = new]

SetDisabled(u, d) == Exists(u) /\ row' = [row EXCEPT ![u].disabled = d]

SetMustChangePassword(u) ==
    Exists(u) /\ row' = [row EXCEPT ![u].mustChange = TRUE]

FindByTokenHash(k) == session[k]

\* SessionRepository.Delete: no error when another request was faster.
DeleteSession(k) == session' = [session EXCEPT ![k] = NoUser]

DeleteAllForUser(u) ==
    session' = [k \in Token |-> IF session[k] = u THEN NoUser ELSE session[k]]

\* SessionRepository.Create.
InsertSession(k, u) == session' = [session EXCEPT ![k] = u]

-----------------------------------------------------------------------------
(* Tokens, and handlers: how they begin, go on and return *)

\* createSession, with a token no row and no handler has.
CreateSession(u) ==
    \E k \in Token :
        /\ FindByTokenHash(k) = NoUser
        /\ \A r \in Request : req[r].token # k
        /\ InsertSession(k, u)

IssueAccessToken(u, d) == access' = access \cup {[sub |-> u, role |-> d.role]}

\* A signature that verifies and an expiry that has not passed; the row of the
\* account is not looked at.
ValidateAccessToken(a) == a \in access

\* AuthMiddleware: admin routes look at the claims as well.  (The claims of an
\* API token are read from the row at the start of the request: what it may do
\* is what an access token issued then may do.)
Wrap(a, adminOnly) ==
    /\ ValidateAccessToken(a)
    /\ adminOnly => a.role = "admin"

IsAdmin(a) == Wrap(a, TRUE)

At(r, pc) == req[r].pc = pc

Begin(r, handler) == At(r, "idle") /\ req' = [req EXCEPT ![r] = handler]

\* A handler returns; what it had read is gone.
Done(r) == req' = [req EXCEPT ![r] = NoHandler]

\* The handler r has read what it needs of row d and goes on to issue tokens.
IssueFor(r, d) ==
    req' = [req EXCEPT ![r] = [@ EXCEPT !.pc = "issue",
                                        !.seen = [NoRow EXCEPT !.role = d.role]]]

-----------------------------------------------------------------------------
(* Logins *)

\* LocalLogin: FindByEmail, the disabled check, the bcrypt comparison.
LocalLogin(r, u, p) ==
    LET found == FindUser(u)
    IN  /\ found.password # NoPassword /\ p = found.password
        /\ ~found.disabled
        /\ Begin(r, [NoHandler EXCEPT !.pc = "issue", !.user = u,
                                      !.seen = [NoRow EXCEPT !.role = found.role]])
        /\ UNCHANGED <<row, session, access>>

\* POST /auth/local/login.  (A login that is refused changes the rate limits
\* alone.)
PostLocalLogin(r) ==
    \E u \in User, p \in Password : LocalLogin(r, u, p)

\* exchangeCode and fetchGoogleUserInfo: the accounts Google may vouch for.
GoogleUserInfo == User \ {Local}

\* GoogleCallback up to FindByGoogleID, with a state that matches.
GoogleCallback(r) ==
    \E u \in GoogleUserInfo :
        /\ Begin(r, [NoHandler EXCEPT !.pc = "upsert", !.user = u,
                                      !.seen = FindUser(u)])
        /\ UNCHANGED <<row, session, access>>

\* The profile is created or written over the row as it was read.
SaveProfile(u, seen) ==
    IF seen.role = "none" THEN CreateUser(u, [NoRow EXCEPT !.role = "user"])
                          ELSE WriteBack(u, seen)

\* upsertGoogleUser and the disabled check of GoogleCallback.  A row created
\* meanwhile makes Create fail (HandlerFails).
UpsertGoogleUser(r) ==
    LET u == req[r].user  seen == req[r].seen
    IN  /\ At(r, "upsert")
        /\ SaveProfile(u, seen)
        /\ IF seen.role = "none" THEN IssueFor(r, [NoRow EXCEPT !.role = "user"])
           ELSE IF seen.disabled THEN Done(r)
           ELSE IssueFor(r, seen)
        /\ UNCHANGED <<session, access>>

\* IssueAccessToken, createSession and the answer.
IssueTokens(r) ==
    /\ At(r, "issue")
    /\ CreateSession(req[r].user)
    /\ IssueAccessToken(req[r].user, req[r].seen)
    /\ Done(r)
    /\ row' = row

-----------------------------------------------------------------------------
(* Rotation and logout *)

\* RefreshToken: the session is found.
RefreshToken(r, k) ==
    LET found == FindByTokenHash(k)
    IN  /\ found # NoUser
        /\ Begin(r, [NoHandler EXCEPT !.pc = "rotate", !.user = found, !.token = k])
        /\ UNCHANGED <<row, session, access>>

\* POST /auth/refresh, with whatever token the cookie has.
PostRefresh(r) == \E k \in Token : RefreshToken(r, k)

\* RefreshToken: the old session goes, whoever deleted it first.
Rotate(r) ==
    /\ At(r, "rotate")
    /\ DeleteSession(req[r].token)
    /\ req' = [req EXCEPT ![r].pc = "lookup", ![r].token = NoToken]
    /\ UNCHANGED <<row, access>>

\* Mutant of Lookup: the disabled check is missing from the refresh.
LookupUnchecked(r) ==
    /\ At(r, "lookup")
    /\ IssueFor(r, row[req[r].user])
    /\ UNCHANGED <<row, session, access>>

\* RefreshToken: FindByID and the disabled check.
Lookup(r) ==
    LET found == FindUser(req[r].user)
    IN  /\ At(r, "lookup")
        /\ IF found.role # "none" /\ ~found.disabled THEN IssueFor(r, found)
                                                     ELSE Done(r)
        /\ UNCHANGED <<row, session, access>>

\* A session that is not there is logged out already.
Logout(k) ==
    /\ FindByTokenHash(k) # NoUser
    /\ DeleteSession(k)
    /\ UNCHANGED <<row, access, req>>

\* POST /auth/logout.
PostLogout == \E k \in Token : Logout(k)

-----------------------------------------------------------------------------
(* Passwords *)

\* ChangePassword: FindByID and the comparison with the current password.
ChangePassword(r, u, current, new) ==
    /\ FindUser(u).password # NoPassword /\ FindUser(u).password = current
    /\ Begin(r, [NoHandler EXCEPT !.pc = "store", !.user = u, !.new = new])
    /\ UNCHANGED <<row, session, access>>

\* POST /auth/local/change-password, for the account of the claims.
PostChangePassword(r, a) ==
    /\ Wrap(a, FALSE)
    /\ \E current, new \in Password : ChangePassword(r, a.sub, current, new)

\* UpdatePasswordHash(..., false).
StorePassword(r) ==
    /\ At(r, "store")
    /\ UpdatePasswordHash(req[r].user, req[r].new, FALSE)
    /\ req' = [req EXCEPT ![r].pc = "wipe", ![r].new = NoPassword]
    /\ UNCHANGED <<session, access>>

\* DeleteAllForUser, the last write of ChangePassword and of UpdateDisabled.
WipeSessions(r) ==
    /\ At(r, "wipe")
    /\ DeleteAllForUser(req[r].user)
    /\ Done(r)
    /\ UNCHANGED <<row, access>>

-----------------------------------------------------------------------------
(* Administration: acting is the admin of the claims *)

\* Mutant of UpdateRole: an admin can change its own role.
UpdateRoleOfAnyone(acting, u, new) ==
    /\ new \in Role
    /\ SetRole(u, new)
    /\ UNCHANGED <<session, access, req>>

\* Not one's own; FindByID and the update are apart, but rows are never deleted.
UpdateRole(acting, u, new) ==
    /\ new \in Role
    /\ acting # u
    /\ SetRole(u, new)
    /\ UNCHANGED <<session, access, req>>

\* PATCH /system/users/{id}/role.
PatchRole(a, u) == Wrap(a, TRUE) /\ \E new \in Role : UpdateRole(a.sub, u, new)

\* The row, then, if it is disabled, the sessions (WipeSessions).
UpdateDisabled(r, acting, u, disabled) ==
    /\ acting # u
    /\ SetDisabled(u, disabled)
    /\ IF disabled THEN Begin(r, [NoHandler EXCEPT !.pc = "wipe", !.user = u])
                   ELSE req' = req
    /\ UNCHANGED <<session, access>>

\* PATCH /system/users/{id}/status.
PatchStatus(r, a, u) ==
    Wrap(a, TRUE) /\ \E d \in BOOLEAN : UpdateDisabled(r, a.sub, u, d)

ForcePasswordReset(u) ==
    /\ FindUser(u).password # NoPassword
    /\ SetMustChangePassword(u)
    /\ UNCHANGED <<session, access, req>>

\* POST /system/users/{id}/force-password-reset.
PostForcePasswordReset(a, u) == Wrap(a, TRUE) /\ ForcePasswordReset(u)

\* BootstrapAdmin, at every start of the program.
BootstrapAdmin ==
    /\ Admins = {}
    /\ \E p \in Password :
          CreateUser(Local, [role |-> "admin", disabled |-> FALSE,
                             password |-> p, mustChange |-> TRUE])
    /\ UNCHANGED <<session, access, req>>

-----------------------------------------------------------------------------
(* Faults and time *)

\* A database call of the handler fails, or the process dies: what it has
\* written stays written.  UpdateDisabled only logs a failed DeleteAllForUser.
HandlerFails(r) ==
    /\ ~At(r, "idle")
    /\ Done(r)
    /\ UNCHANGED <<row, session, access>>

AccessTokenExpires(a) ==
    /\ a \in access
    /\ access' = access \ {a}
    /\ UNCHANGED <<row, session, req>>

SessionExpires(k) ==
    /\ session[k] # NoUser
    /\ DeleteSession(k)
    /\ UNCHANGED <<row, access, req>>

-----------------------------------------------------------------------------
Init ==
    /\ row     = [u \in User |-> NoRow]
    /\ session = [k \in Token |-> NoUser]
    /\ access  = {}
    /\ req     = [r \in Request |-> NoHandler]

\* What a handler does by itself once it has begun.
HandlerStep(r) ==
    \/ UpsertGoogleUser(r) \/ IssueTokens(r) \/ Rotate(r) \/ Lookup(r)
    \/ StorePassword(r) \/ WipeSessions(r)

\* The first step of a handler that makes several calls.
HandlerStart(r) ==
    \/ PostLocalLogin(r) \/ GoogleCallback(r) \/ PostRefresh(r)
    \/ \E a \in access : \/ PostChangePassword(r, a)
                         \/ \E u \in User : PatchStatus(r, a, u)

AdminStep(a, u) == PatchRole(a, u) \/ PostForcePasswordReset(a, u)

Next ==
    \/ BootstrapAdmin \/ PostLogout
    \/ \E r \in Request : HandlerStart(r) \/ HandlerStep(r) \/ HandlerFails(r)
    \/ \E a \in access, u \in User : AdminStep(a, u)
    \/ \E k \in Token : SessionExpires(k)
    \/ \E a \in access : AccessTokenExpires(a)

Spec == Init /\ [][Next]_vars

(* Fairness: a handler that has begun goes on, and time passes. *)
Fairness ==
    /\ \A r \in Request : WF_vars(HandlerStep(r))
    /\ \A a \in Claims : WF_vars(AccessTokenExpires(a))
    /\ \A k \in Token : WF_vars(SessionExpires(k))

FairSpec == Spec /\ Fairness

-----------------------------------------------------------------------------
(* Properties *)

\* The type invariant of the tables, the tokens and the handlers.
TypeOK ==
    /\ row     \in [User -> Row]
    /\ session \in [Token -> User \cup {NoUser}]
    /\ access  \subseteq Claims
    /\ req     \in [Request -> Handler]

\* Handler r is about to write back the row it read at the start of a login.
WritesBack(r) == At(r, "upsert") /\ req[r].seen.role # "none"

\* Administration by itself does not lock everybody out: the last enabled admin
\* disappears only at the hands of somebody who is no enabled admin any more
\* (but whose access token has not expired), or of a Google login that writes
\* back the row as it read it.  That no admin can demote or disable itself is
\* what this rests on.
LastAdminKept ==
    [][(Admins # {} /\ Admins' = {}) =>
          \/ \E a \in access : IsAdmin(a) /\ a.sub \notin Admins
          \/ \E r \in Request : WritesBack(r) /\ ~WritesBack(r)']_vars

HasAccess(u)   == \E a \in access : a.sub = u
ActsAsAdmin(u) == \E a \in access : a.sub = u /\ IsAdmin(a)
HasSession(u)  == \E k \in Token : session[k] = u

\* Rights that are taken away lapse: an account that stays disabled ends up with
\* no access token and no session that could be refreshed, whatever logins and
\* refreshes raced with the disabling, and one that stays demoted ends up with
\* no access token that says admin.
RevokedRightsLapse ==
    \A u \in User :
        /\ <>[](row[u].disabled) => <>[](~HasAccess(u) /\ ~HasSession(u))
        /\ <>[](row[u].role # "admin") => <>[](~ActsAsAdmin(u))

=============================================================================
