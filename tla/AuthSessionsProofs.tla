------------------------- MODULE AuthSessionsProofs -------------------------
(* For any number of accounts, requests and tokens: tokens are issued only    *)
(* for accounts that exist, and administration alone does not lock everybody  *)
(* out.                                                                       *)
EXTENDS AuthSessions, TLAPS

\* A password belongs to an account that exists, and accounts stay.
PasswordsHaveUsers == \A u \in User : row[u].password # NoPassword => Exists(u)

\* What a handler is about to write or to issue is for an account that exists.
HandlerOK(h) ==
    /\ h.pc = "issue" => h.seen.role \in Role
    /\ h.pc = "store" => Exists(h.user)

AuthInv ==
    /\ TypeOK
    /\ PasswordsHaveUsers
    /\ \A r \in Request : HandlerOK(req[r])

-----------------------------------------------------------------------------
(* Rows and handlers *)

LEMMA NoRowTyped == NoRow \in Row /\ NoRow.role = "none"
  BY DEF NoRow, Row

LEMMA RowFields ==
    ASSUME NEW d \in Row
    PROVE  /\ \A x \in Role \cup {"none"} :
                /\ [d EXCEPT !.role = x] \in Row
                /\ [d EXCEPT !.role = x].role = x
                /\ [d EXCEPT !.role = x].password = d.password
           /\ \A p \in Password \cup {NoPassword} :
                /\ [d EXCEPT !.password = p] \in Row
                /\ [d EXCEPT !.password = p].role = d.role
                /\ [d EXCEPT !.password = p].password = p
  BY DEF Row

LEMMA RowRoleKeepsDisabled ==
    ASSUME NEW d \in Row, NEW x
    PROVE  [d EXCEPT !.role = x].disabled = d.disabled
  BY DEF Row

LEMMA RowPasswordKeepsDisabled ==
    ASSUME NEW d \in Row, NEW x
    PROVE  [d EXCEPT !.password = x].disabled = d.disabled
  BY DEF Row

LEMMA RowFlags ==
    ASSUME NEW d \in Row, NEW b \in BOOLEAN
    PROVE  /\ [d EXCEPT !.disabled = b] \in Row
           /\ [d EXCEPT !.disabled = b].role = d.role
           /\ [d EXCEPT !.disabled = b].password = d.password
           /\ [d EXCEPT !.mustChange = b] \in Row
           /\ [d EXCEPT !.mustChange = b].role = d.role
           /\ [d EXCEPT !.mustChange = b].password = d.password
  BY DEF Row

LEMMA RowMustChangeKeepsDisabled ==
    ASSUME NEW d \in Row, NEW b \in BOOLEAN
    PROVE  [d EXCEPT !.mustChange = b].disabled = d.disabled
  BY DEF Row

LEMMA RowWrites ==
    ASSUME NEW d \in Row, NEW x, NEW p, NEW b
    PROVE  /\ [d EXCEPT !.role = x, !.password = p, !.mustChange = b]
                = [[[d EXCEPT !.role = x] EXCEPT !.password = p] EXCEPT !.mustChange = b]
           /\ [d EXCEPT !.password = p, !.mustChange = b]
                = [[d EXCEPT !.password = p] EXCEPT !.mustChange = b]
  BY DEF Row

LEMMA NewRow ==
    ASSUME TypeOK, NEW u \in User, NEW d \in Row, row' = [row EXCEPT ![u] = d]
    PROVE  /\ row' \in [User -> Row]
           /\ row'[u] = d
           /\ \A v \in User \ {u} : row'[v] = row[v]
  BY DEF TypeOK

LEMMA NoHandlerTyped == NoHandler \in Handler /\ NoHandler.pc = "idle" /\ NoHandler.user = Local
  BY LocalAssumption, NoRowTyped DEF NoHandler, Handler, RequestPc

LEMMA HandlerFields ==
    ASSUME NEW h \in Handler
    PROVE  /\ \A x \in RequestPc :
                /\ [h EXCEPT !.pc = x] \in Handler
                /\ [h EXCEPT !.pc = x].pc = x
                /\ [h EXCEPT !.pc = x].user = h.user
                /\ [h EXCEPT !.pc = x].seen = h.seen
           /\ \A u \in User :
                /\ [h EXCEPT !.user = u] \in Handler
                /\ [h EXCEPT !.user = u].pc = h.pc
                /\ [h EXCEPT !.user = u].user = u
                /\ [h EXCEPT !.user = u].seen = h.seen
           /\ \A k \in Token \cup {NoToken} :
                /\ [h EXCEPT !.token = k] \in Handler
                /\ [h EXCEPT !.token = k].pc = h.pc
                /\ [h EXCEPT !.token = k].user = h.user
                /\ [h EXCEPT !.token = k].seen = h.seen
           /\ \A d \in Row :
                /\ [h EXCEPT !.seen = d] \in Handler
                /\ [h EXCEPT !.seen = d].pc = h.pc
                /\ [h EXCEPT !.seen = d].user = h.user
                /\ [h EXCEPT !.seen = d].seen = d
           /\ \A p \in Password \cup {NoPassword} :
                /\ [h EXCEPT !.new = p] \in Handler
                /\ [h EXCEPT !.new = p].pc = h.pc
                /\ [h EXCEPT !.new = p].user = h.user
                /\ [h EXCEPT !.new = p].seen = h.seen
  BY DEF Handler

LEMMA HandlerWrites ==
    ASSUME NEW h \in Handler, NEW x, NEW u, NEW k, NEW d, NEW p
    PROVE  /\ [h EXCEPT !.pc = x, !.user = u] = [[h EXCEPT !.user = u] EXCEPT !.pc = x]
           /\ [h EXCEPT !.pc = x, !.user = u, !.seen = d]
                = [[[h EXCEPT !.user = u] EXCEPT !.seen = d] EXCEPT !.pc = x]
           /\ [h EXCEPT !.pc = x, !.user = u, !.token = k]
                = [[[h EXCEPT !.user = u] EXCEPT !.token = k] EXCEPT !.pc = x]
           /\ [h EXCEPT !.pc = x, !.user = u, !.new = p]
                = [[[h EXCEPT !.user = u] EXCEPT !.new = p] EXCEPT !.pc = x]
           /\ [h EXCEPT !.pc = x, !.seen = d] = [[h EXCEPT !.seen = d] EXCEPT !.pc = x]
           /\ [h EXCEPT !.pc = x, !.token = k] = [[h EXCEPT !.token = k] EXCEPT !.pc = x]
           /\ [h EXCEPT !.pc = x, !.new = p] = [[h EXCEPT !.new = p] EXCEPT !.pc = x]
  BY DEF Handler

-----------------------------------------------------------------------------
(* What the repository's operations do to the accounts *)

\* A change of the user table that removes no account.
AccountsKept ==
    /\ row' \in [User -> Row]
    /\ PasswordsHaveUsers'
    /\ \A u \in User : Exists(u) => Exists(u)'

LEMMA RowsSame ==
    ASSUME AuthInv, UNCHANGED row
    PROVE  AccountsKept /\ Admins' = Admins
  BY DEF AuthInv, TypeOK, AccountsKept, PasswordsHaveUsers, Exists, FindUser, Admins

\* One row is written, of an account that exists from then on.
LEMMA RowWritten ==
    ASSUME AuthInv, NEW u \in User, NEW d \in Row, d.role # "none",
           row' = [row EXCEPT ![u] = d]
    PROVE  AccountsKept /\ Admins \ {u} \subseteq Admins'
<1>1. row' \in [User -> Row] /\ row'[u] = d /\ \A v \in User \ {u} : row'[v] = row[v]
  BY NewRow DEF AuthInv
<1>2. AccountsKept
  BY <1>1 DEF AuthInv, AccountsKept, PasswordsHaveUsers, Exists, FindUser
<1>3. Admins \ {u} \subseteq Admins'
  BY <1>1 DEF Admins
<1> QED
  BY <1>2, <1>3

LEMMA UserCreated ==
    ASSUME AuthInv, NEW u \in User, NEW d \in Row, d.role # "none", CreateUser(u, d)
    PROVE  AccountsKept /\ Admins \subseteq Admins'
<1>1. row' = [row EXCEPT ![u] = d] /\ u \notin Admins
  BY DEF CreateUser, Exists, FindUser, Admins
<1> QED
  BY <1>1, RowWritten

LEMMA WrittenBack ==
    ASSUME AuthInv, NEW u \in User, NEW seen \in Row, seen.role # "none", WriteBack(u, seen)
    PROVE  AccountsKept
<1> DEFINE d1 == [row[u] EXCEPT !.role = seen.role]
           d2 == [d1 EXCEPT !.password = seen.password]
           d == [d2 EXCEPT !.mustChange = seen.mustChange]
<1>1. row[u] \in Row /\ row \in [User -> Row]
  BY DEF AuthInv, TypeOK
<1>2. seen.role \in Role \cup {"none"} /\ seen.password \in Password \cup {NoPassword}
  BY DEF Row
<1>3. seen.mustChange \in BOOLEAN
  BY DEF Row
<1>4. row' = [row EXCEPT ![u] = [row[u] EXCEPT !.role = seen.role, !.password = seen.password,
                                               !.mustChange = seen.mustChange]]
  BY Zenon DEF WriteBack
<1>5. [row[u] EXCEPT !.role = seen.role, !.password = seen.password,
                     !.mustChange = seen.mustChange] = d
  BY <1>1, RowWrites, Zenon
<1>6. d1 \in Row /\ d1.role = seen.role
  BY <1>1, <1>2, RowFields
<1> HIDE DEF d1
<1>7. d2 \in Row /\ d2.role = seen.role
  BY <1>2, <1>6, RowFields
<1> HIDE DEF d2
<1>8. d \in Row /\ d.role = seen.role
  BY <1>3, <1>7, RowFlags, Zenon
<1> HIDE DEF d
<1> QED
  BY <1>4, <1>5, <1>8, RowWritten

\* Roles and the disabled flag stay as they are.
LEMMA SameRights ==
    ASSUME AuthInv, NEW u \in User, NEW d \in Row, d.role = row[u].role, Exists(u),
           d.disabled = row[u].disabled, row' = [row EXCEPT ![u] = d]
    PROVE  AccountsKept /\ Admins \subseteq Admins'
<1>1. row' \in [User -> Row] /\ row'[u] = d /\ \A v \in User \ {u} : row'[v] = row[v]
  BY NewRow DEF AuthInv
<1>2. d.role # "none"
  BY DEF Exists, FindUser
<1>3. u \in Admins => u \in Admins'
  BY <1>1, Zenon DEF Admins
<1> QED
  BY <1>2, <1>3, RowWritten

LEMMA PasswordStored ==
    ASSUME AuthInv, NEW u \in User, NEW p \in Password \cup {NoPassword}, Exists(u),
           UpdatePasswordHash(u, p, FALSE)
    PROVE  AccountsKept /\ Admins \subseteq Admins'
<1> DEFINE d1 == [row[u] EXCEPT !.password = p]
           d == [d1 EXCEPT !.mustChange = FALSE]
<1>1. row[u] \in Row /\ row \in [User -> Row]
  BY DEF AuthInv, TypeOK
<1>2. row' = [row EXCEPT ![u] = [row[u] EXCEPT !.password = p, !.mustChange = FALSE]]
  BY Zenon DEF UpdatePasswordHash
<1>3. [row[u] EXCEPT !.password = p, !.mustChange = FALSE] = d
  BY <1>1, RowWrites, Zenon
<1>4. d1 \in Row /\ d1.role = row[u].role
  BY <1>1, RowFields
<1>5. d1.disabled = row[u].disabled
  BY <1>1, RowPasswordKeepsDisabled, Zenon
<1> HIDE DEF d1
<1>6. FALSE \in BOOLEAN
  OBVIOUS
<1>7. d \in Row /\ d.role = row[u].role
  BY <1>4, <1>6, RowFlags, Zenon
<1>8. d.disabled = row[u].disabled
  BY <1>4, <1>5, <1>6, RowMustChangeKeepsDisabled, Zenon
<1>9. row' = [row EXCEPT ![u] = d]
  BY <1>2, <1>3, Zenon
<1> HIDE DEF d
<1> QED
  BY <1>7, <1>8, <1>9, SameRights, Zenon

LEMMA ChangeForced ==
    ASSUME AuthInv, NEW u \in User, SetMustChangePassword(u)
    PROVE  AccountsKept /\ Admins \subseteq Admins'
<1> DEFINE d == [row[u] EXCEPT !.mustChange = TRUE]
<1>1. row[u] \in Row
  BY DEF AuthInv, TypeOK
<1>2. row' = [row EXCEPT ![u] = d] /\ Exists(u)
  BY Zenon DEF SetMustChangePassword
<1>3. TRUE \in BOOLEAN
  OBVIOUS
<1>4. d \in Row /\ d.role = row[u].role
  BY <1>1, <1>3, RowFlags, Zenon
<1>5. d.disabled = row[u].disabled
  BY <1>1, <1>3, RowMustChangeKeepsDisabled, Zenon
<1> HIDE DEF d
<1> QED
  BY <1>2, <1>4, <1>5, SameRights, Zenon

LEMMA RoleSet ==
    ASSUME AuthInv, NEW u \in User, NEW new \in Role, SetRole(u, new)
    PROVE  AccountsKept /\ Admins \ {u} \subseteq Admins'
<1> DEFINE d == [row[u] EXCEPT !.role = new]
<1>1. row[u] \in Row
  BY DEF AuthInv, TypeOK
<1>2. row' = [row EXCEPT ![u] = d]
  BY Zenon DEF SetRole
<1>3. d \in Row /\ d.role = new /\ new # "none"
  BY <1>1, RowFields, RoleAssumption
<1> HIDE DEF d
<1> QED
  BY <1>2, <1>3, RowWritten

LEMMA DisabledSet ==
    ASSUME AuthInv, NEW u \in User, NEW b \in BOOLEAN, SetDisabled(u, b)
    PROVE  AccountsKept /\ Admins \ {u} \subseteq Admins'
<1> DEFINE d == [row[u] EXCEPT !.disabled = b]
<1>1. row[u] \in Row
  BY DEF AuthInv, TypeOK
<1>2. row' = [row EXCEPT ![u] = d] /\ Exists(u)
  BY Zenon DEF SetDisabled
<1>3. d \in Row /\ d.role = row[u].role
  BY <1>1, RowFlags, Zenon
<1>4. row[u].role # "none"
  BY <1>2 DEF Exists, FindUser
<1> HIDE DEF d
<1> QED
  BY <1>2, <1>3, <1>4, RowWritten

-----------------------------------------------------------------------------
(* What happens to the handlers *)

\* A step of the handlers that keeps their part of the invariant.
HandlersKept == req' \in [Request -> Handler] /\ \A r \in Request : HandlerOK(req[r])'

LEMMA HandlersSame ==
    ASSUME AuthInv, AccountsKept, UNCHANGED req
    PROVE  HandlersKept
<1>1. \A r \in Request : req[r].user \in User
  BY DEF AuthInv, TypeOK, Handler
<1> QED
  BY <1>1 DEF AuthInv, TypeOK, AccountsKept, HandlersKept, HandlerOK

LEMMA NewHandler ==
    ASSUME AuthInv, AccountsKept, NEW r \in Request, NEW h \in Handler,
           h.pc = "issue" => h.seen.role \in Role,
           h.pc = "store" => Exists(h.user)',
           req' = [req EXCEPT ![r] = h]
    PROVE  HandlersKept /\ req'[r] = h
<1>1. \A q \in Request : req[q].user \in User
  BY DEF AuthInv, TypeOK, Handler
<1>2. req' \in [Request -> Handler] /\ req'[r] = h /\ \A q \in Request \ {r} : req'[q] = req[q]
  BY DEF AuthInv, TypeOK
<1>3. ASSUME NEW q \in Request PROVE HandlerOK(req[q])'
  <2>1. CASE q = r
    BY <1>2, <2>1 DEF HandlerOK, Exists, FindUser
  <2>2. CASE q # r
    BY <1>1, <1>2, <2>2 DEF AuthInv, AccountsKept, HandlerOK, Exists, FindUser
  <2> QED
    BY <2>1, <2>2
<1> QED
  BY <1>2, <1>3 DEF HandlersKept

LEMMA HandlerReturns ==
    ASSUME AuthInv, AccountsKept, NEW r \in Request, Done(r)
    PROVE  HandlersKept /\ req'[r].pc = "idle"
  BY NoHandlerTyped, NewHandler DEF Done

LEMMA HandlerIssues ==
    ASSUME AuthInv, AccountsKept, NEW r \in Request, NEW d, d.role \in Role, IssueFor(r, d)
    PROVE  HandlersKept /\ req'[r].pc = "issue"
<1> DEFINE seen == [NoRow EXCEPT !.role = d.role]
           h1 == [req[r] EXCEPT !.seen = seen]
           h == [h1 EXCEPT !.pc = "issue"]
<1>1. seen \in Row /\ seen.role = d.role
  BY NoRowTyped, RowFields
<1>2. req[r] \in Handler
  BY DEF AuthInv, TypeOK
<1>3. req' = [req EXCEPT ![r] = [req[r] EXCEPT !.pc = "issue", !.seen = seen]]
  BY Zenon DEF IssueFor
<1> HIDE DEF seen
<1>4. [req[r] EXCEPT !.pc = "issue", !.seen = seen] = h
  BY <1>2, HandlerWrites, Zenon
<1>5. h1 \in Handler /\ h1.seen = seen
  BY <1>1, <1>2, HandlerFields, Zenon
<1> HIDE DEF h1
<1>6. "issue" \in RequestPc
  BY DEF RequestPc
<1>7. h \in Handler /\ h.seen = seen /\ h.pc = "issue"
  BY <1>5, <1>6, HandlerFields, Zenon
<1> HIDE DEF h
<1> QED
  BY <1>1, <1>3, <1>4, <1>7, NewHandler

\* A handler begins, with what it has read.
LEMMA HandlerBegins ==
    ASSUME AuthInv, NEW r \in Request, HandlerStart(r),
           ~(\E a \in access, u \in User : PatchStatus(r, a, u))
    PROVE  HandlersKept /\ UNCHANGED <<row, session, access>>
<1> USE DEF AuthInv
<1>1. row \in [User -> Row] /\ session \in [Token -> User \cup {NoUser}] /\ access \subseteq Claims
  BY DEF TypeOK
<1>2. UNCHANGED row => AccountsKept
  BY RowsSame
<1>3. {"issue", "upsert", "rotate", "store"} \subseteq RequestPc
  BY DEF RequestPc
<1>4. ASSUME NEW u \in User, NEW p \in Password, LocalLogin(r, u, p)
      PROVE  HandlersKept /\ UNCHANGED <<row, session, access>>
  <2> DEFINE seen == [NoRow EXCEPT !.role = row[u].role]
             h1 == [NoHandler EXCEPT !.user = u]
             h2 == [h1 EXCEPT !.seen = seen]
             h == [h2 EXCEPT !.pc = "issue"]
  <2>1. row[u].role \in Role
    <3>1. row[u] \in Row /\ Exists(u)
      BY <1>1, <1>4 DEF LocalLogin, PasswordsHaveUsers, FindUser
    <3> QED
      BY <3>1 DEF Row, Exists, FindUser
  <2>2. /\ UNCHANGED <<row, session, access>>
        /\ req' = [req EXCEPT ![r] = [NoHandler EXCEPT !.pc = "issue", !.user = u, !.seen = seen]]
    BY <1>4, Zenon DEF LocalLogin, Begin, FindUser
  <2>3. seen \in Row /\ seen.role = row[u].role
    BY <2>1, NoRowTyped, RowFields
  <2> HIDE DEF seen
  <2>4. [NoHandler EXCEPT !.pc = "issue", !.user = u, !.seen = seen] = h
    BY NoHandlerTyped, HandlerWrites, Zenon
  <2>5. h1 \in Handler
    BY NoHandlerTyped, HandlerFields, Zenon
  <2> HIDE DEF h1
  <2>6. h2 \in Handler /\ h2.seen = seen
    BY <2>3, <2>5, HandlerFields, Zenon
  <2> HIDE DEF h2
  <2>7. h \in Handler /\ h.seen = seen /\ h.pc = "issue"
    BY <1>3, <2>6, HandlerFields
  <2> HIDE DEF h
  <2> QED
    BY <1>2, <2>1, <2>2, <2>3, <2>4, <2>7, NewHandler
<1>5. ASSUME GoogleCallback(r)
      PROVE  HandlersKept /\ UNCHANGED <<row, session, access>>
  <2>1. PICK u \in User :
           /\ UNCHANGED <<row, session, access>>
           /\ req' = [req EXCEPT ![r] = [NoHandler EXCEPT !.pc = "upsert", !.user = u,
                                                          !.seen = row[u]]]
    BY <1>5, Zenon DEF GoogleCallback, GoogleUserInfo, Begin, FindUser
  <2> DEFINE h1 == [NoHandler EXCEPT !.user = u]
             h2 == [h1 EXCEPT !.seen = row[u]]
             h == [h2 EXCEPT !.pc = "upsert"]
  <2>2. [NoHandler EXCEPT !.pc = "upsert", !.user = u, !.seen = row[u]] = h
    BY NoHandlerTyped, HandlerWrites, Zenon
  <2>3. h1 \in Handler
    BY NoHandlerTyped, HandlerFields, Zenon
  <2> HIDE DEF h1
  <2>4. row[u] \in Row
    BY <1>1
  <2>5. h2 \in Handler
    BY <2>3, <2>4, HandlerFields, Zenon
  <2> HIDE DEF h2
  <2>6. h \in Handler /\ h.pc = "upsert"
    BY <1>3, <2>5, HandlerFields
  <2> HIDE DEF h
  <2> QED
    BY <1>2, <2>1, <2>2, <2>6, NewHandler
<1>6. ASSUME NEW k \in Token, RefreshToken(r, k)
      PROVE  HandlersKept /\ UNCHANGED <<row, session, access>>
  <2> DEFINE u == session[k]
             h1 == [NoHandler EXCEPT !.user = u]
             h2 == [h1 EXCEPT !.token = k]
             h == [h2 EXCEPT !.pc = "rotate"]
  <2>1. u \in User
    BY <1>1, <1>6 DEF RefreshToken, FindByTokenHash
  <2>2. /\ UNCHANGED <<row, session, access>>
        /\ req' = [req EXCEPT ![r] = [NoHandler EXCEPT !.pc = "rotate", !.user = u, !.token = k]]
    BY <1>6, Zenon DEF RefreshToken, Begin, FindByTokenHash
  <2> HIDE DEF u
  <2>3. [NoHandler EXCEPT !.pc = "rotate", !.user = u, !.token = k] = h
    BY NoHandlerTyped, HandlerWrites, Zenon
  <2>4. h1 \in Handler
    BY <2>1, NoHandlerTyped, HandlerFields, Zenon
  <2> HIDE DEF h1
  <2>5. h2 \in Handler
    BY <2>4, HandlerFields
  <2> HIDE DEF h2
  <2>6. h \in Handler /\ h.pc = "rotate"
    BY <1>3, <2>5, HandlerFields
  <2> HIDE DEF h
  <2> QED
    BY <1>2, <2>2, <2>3, <2>6, NewHandler
<1>7. ASSUME NEW a \in access, PostChangePassword(r, a)
      PROVE  HandlersKept /\ UNCHANGED <<row, session, access>>
  <2> DEFINE u == a.sub
  <2>1. u \in User
    BY <1>1 DEF Claims
  <2>2. PICK current \in Password, new \in Password : ChangePassword(r, u, current, new)
    BY <1>7, Zenon DEF PostChangePassword
  <2> DEFINE h1 == [NoHandler EXCEPT !.user = u]
             h2 == [h1 EXCEPT !.new = new]
             h == [h2 EXCEPT !.pc = "store"]
  <2>3. /\ UNCHANGED <<row, session, access>>
        /\ req' = [req EXCEPT ![r] = [NoHandler EXCEPT !.pc = "store", !.user = u, !.new = new]]
    BY <2>2, Zenon DEF ChangePassword, Begin
  <2>4. Exists(u)' = Exists(u) /\ Exists(u)
    BY <2>1, <2>2, <2>3 DEF ChangePassword, PasswordsHaveUsers, Exists, FindUser
  <2> HIDE DEF u
  <2>5. [NoHandler EXCEPT !.pc = "store", !.user = u, !.new = new] = h
    BY NoHandlerTyped, HandlerWrites, Zenon
  <2>6. h1 \in Handler /\ h1.user = u
    BY <2>1, NoHandlerTyped, HandlerFields, Zenon
  <2> HIDE DEF h1
  <2>7. h2 \in Handler /\ h2.user = u
    BY <2>6, HandlerFields
  <2> HIDE DEF h2
  <2>8. h \in Handler /\ h.pc = "store" /\ h.user = u
    BY <1>3, <2>7, HandlerFields
  <2> HIDE DEF h
  <2>9. h.pc = "store" => Exists(h.user)'
    BY <2>4, <2>8 DEF Exists, FindUser
  <2> QED
    BY <1>2, <2>3, <2>5, <2>8, <2>9, NewHandler
<1> QED
  BY <1>4, <1>5, <1>6, <1>7 DEF HandlerStart, PostLocalLogin, PostRefresh

-----------------------------------------------------------------------------
(* The steps *)

\* Sessions and access tokens keep their types.
TokensOK == session' \in [Token -> User \cup {NoUser}] /\ access' \subseteq Claims

\* What LastAdminKept says of a step.
KeepsLastAdmin ==
    (Admins # {} /\ Admins' = {}) =>
        \/ \E a \in access : IsAdmin(a) /\ a.sub \notin Admins
        \/ \E r \in Request : WritesBack(r) /\ ~WritesBack(r)'

LEMMA StepKeeps ==
    ASSUME AccountsKept, HandlersKept, TokensOK
    PROVE  AuthInv'
  BY DEF AuthInv, TypeOK, AccountsKept, HandlersKept, TokensOK

LEMMA SessionDeleted ==
    ASSUME AuthInv, NEW k, DeleteSession(k)
    PROVE  session' \in [Token -> User \cup {NoUser}]
  BY DEF AuthInv, TypeOK, DeleteSession

LEMMA GoogleStep ==
    ASSUME AuthInv, NEW r \in Request, UpsertGoogleUser(r)
    PROVE  AuthInv' /\ KeepsLastAdmin
<1> DEFINE u == req[r].user
           seen == req[r].seen
<1>1. u \in User /\ seen \in Row
  BY DEF AuthInv, TypeOK, Handler
<1>2. TokensOK /\ req[r].pc = "upsert"
  BY DEF UpsertGoogleUser, AuthInv, TypeOK, TokensOK, At
<1>3. CASE seen.role = "none"
  <2> DEFINE d == [NoRow EXCEPT !.role = "user"]
  <2>1. d \in Row /\ d.role = "user" /\ "user" \in Role
    BY NoRowTyped, RowFields, RoleAssumption
  <2>2. CreateUser(u, d) /\ IssueFor(r, d)
    BY <1>3 DEF UpsertGoogleUser, SaveProfile
  <2> HIDE DEF d
  <2>3. AccountsKept /\ Admins \subseteq Admins'
    BY <1>1, <2>1, <2>2, UserCreated
  <2>4. HandlersKept
    BY <2>1, <2>2, <2>3, HandlerIssues
  <2> QED
    BY <1>2, <2>3, <2>4, StepKeeps DEF KeepsLastAdmin
<1>4. CASE seen.role # "none"
  <2>1. WriteBack(u, seen) /\ (Done(r) \/ IssueFor(r, seen))
    BY <1>4, Zenon DEF UpsertGoogleUser, SaveProfile
  <2>2. AccountsKept /\ seen.role \in Role
    BY <1>1, <1>4, <2>1, WrittenBack DEF Row
  <2>3. HandlersKept /\ req'[r].pc # "upsert"
    BY <2>1, <2>2, HandlerReturns, HandlerIssues
  <2>4. WritesBack(r) /\ ~WritesBack(r)'
    BY <1>2, <1>4, <2>3 DEF WritesBack, At
  <2> QED
    BY <1>2, <2>2, <2>3, <2>4, StepKeeps DEF KeepsLastAdmin
<1> QED
  BY <1>3, <1>4

LEMMA IssueStep ==
    ASSUME AuthInv, NEW r \in Request, IssueTokens(r)
    PROVE  AuthInv' /\ KeepsLastAdmin
<1> DEFINE u == req[r].user
           role == req[r].seen.role
<1>1. u \in User /\ role \in Role
  BY DEF AuthInv, TypeOK, Handler, HandlerOK, IssueTokens, At
<1>2. AccountsKept /\ Admins' = Admins
  BY RowsSame DEF IssueTokens
<1>3. HandlersKept
  BY <1>2, HandlerReturns DEF IssueTokens
<1>4. session' \in [Token -> User \cup {NoUser}]
  BY <1>1 DEF AuthInv, TypeOK, IssueTokens, CreateSession, InsertSession
<1>5. access' \subseteq Claims
  BY <1>1 DEF AuthInv, TypeOK, IssueTokens, IssueAccessToken, Claims
<1> QED
  BY <1>2, <1>3, <1>4, <1>5, StepKeeps DEF TokensOK, KeepsLastAdmin

LEMMA RefreshStep ==
    ASSUME AuthInv, NEW r \in Request, Rotate(r) \/ Lookup(r)
    PROVE  AuthInv' /\ KeepsLastAdmin
<1>1. UNCHANGED <<row, access>>
  BY DEF Rotate, Lookup
<1>2. AccountsKept /\ Admins' = Admins
  BY <1>1, RowsSame
<1>3. session' \in [Token -> User \cup {NoUser}]
  BY SessionDeleted DEF Rotate, Lookup, AuthInv, TypeOK
<1>4. TokensOK
  BY <1>1, <1>3 DEF TokensOK, AuthInv, TypeOK
<1>5. CASE Rotate(r)
  <2> DEFINE h1 == [req[r] EXCEPT !.token = NoToken]
             h == [h1 EXCEPT !.pc = "lookup"]
  <2>1. req[r] \in Handler
    BY DEF AuthInv, TypeOK
  <2>2. req' = [req EXCEPT ![r] = [req[r] EXCEPT !.pc = "lookup", !.token = NoToken]]
    BY <1>5, Zenon DEF Rotate
  <2>3. [req[r] EXCEPT !.pc = "lookup", !.token = NoToken] = h
    BY <2>1, HandlerWrites, Zenon
  <2>4. h1 \in Handler
    BY <2>1, HandlerFields
  <2> HIDE DEF h1
  <2>5. h \in Handler /\ h.pc = "lookup"
    BY <2>4, HandlerFields DEF RequestPc
  <2> HIDE DEF h
  <2>6. HandlersKept
    BY <1>2, <2>2, <2>3, <2>5, NewHandler
  <2> QED
    BY <1>2, <1>4, <2>6, StepKeeps DEF KeepsLastAdmin
<1>6. CASE Lookup(r)
  <2> DEFINE found == row[req[r].user]
  <2>1. found \in Row
    BY DEF AuthInv, TypeOK, Handler
  <2>2. (found.role # "none" /\ IssueFor(r, found)) \/ Done(r)
    BY <1>6, Zenon DEF Lookup, FindUser
  <2>3. found.role # "none" => found.role \in Role
    BY <2>1 DEF Row
  <2> HIDE DEF found
  <2>4. HandlersKept
    BY <1>2, <2>2, <2>3, HandlerIssues, HandlerReturns
  <2> QED
    BY <1>2, <1>4, <2>4, StepKeeps DEF KeepsLastAdmin
<1> QED
  BY <1>5, <1>6

LEMMA PasswordStep ==
    ASSUME AuthInv, NEW r \in Request, StorePassword(r) \/ WipeSessions(r)
    PROVE  AuthInv' /\ KeepsLastAdmin
<1>1. CASE StorePassword(r)
  <2> DEFINE u == req[r].user
             h1 == [req[r] EXCEPT !.new = NoPassword]
             h == [h1 EXCEPT !.pc = "wipe"]
  <2>1. req[r] \in Handler
    BY DEF AuthInv, TypeOK
  <2>2. u \in User /\ Exists(u) /\ req[r].new \in Password \cup {NoPassword}
    BY <1>1, <2>1 DEF AuthInv, HandlerOK, StorePassword, At, Handler
  <2>3. UpdatePasswordHash(u, req[r].new, FALSE) /\ UNCHANGED <<session, access>>
    BY <1>1 DEF StorePassword
  <2>4. AccountsKept /\ Admins \subseteq Admins'
    BY <2>2, <2>3, PasswordStored
  <2>5. req' = [req EXCEPT ![r] = [req[r] EXCEPT !.pc = "wipe", !.new = NoPassword]]
    BY <1>1, Zenon DEF StorePassword
  <2>6. [req[r] EXCEPT !.pc = "wipe", !.new = NoPassword] = h
    BY <2>1, HandlerWrites, Zenon
  <2>7. h1 \in Handler
    BY <2>1, HandlerFields
  <2> HIDE DEF h1
  <2>8. h \in Handler /\ h.pc = "wipe"
    BY <2>7, HandlerFields DEF RequestPc
  <2> HIDE DEF h
  <2>9. HandlersKept
    BY <2>4, <2>5, <2>6, <2>8, NewHandler
  <2>10. TokensOK
    BY <2>3 DEF TokensOK, AuthInv, TypeOK
  <2> QED
    BY <2>4, <2>9, <2>10, StepKeeps DEF KeepsLastAdmin
<1>2. CASE WipeSessions(r)
  <2>1. AccountsKept /\ Admins' = Admins
    BY <1>2, RowsSame DEF WipeSessions
  <2>2. HandlersKept
    BY <1>2, <2>1, HandlerReturns DEF WipeSessions
  <2>3. TokensOK
    BY <1>2 DEF WipeSessions, DeleteAllForUser, TokensOK, AuthInv, TypeOK
  <2> QED
    BY <2>1, <2>2, <2>3, StepKeeps DEF KeepsLastAdmin
<1> QED
  BY <1>1, <1>2

\* An admin does not touch its own account: if it is an enabled admin, it is
\* one after the step.
LEMMA AdminStepOK ==
    ASSUME AuthInv, NEW a \in access, NEW u \in User,
           \/ AdminStep(a, u)
           \/ \E r \in Request : PatchStatus(r, a, u)
    PROVE  AuthInv' /\ KeepsLastAdmin
<1>1. CASE PatchRole(a, u)
  <2>1. PICK new \in Role : UpdateRole(a.sub, u, new)
    BY <1>1 DEF PatchRole
  <2>2. AccountsKept /\ Admins \ {u} \subseteq Admins'
    BY <2>1, RoleSet DEF UpdateRole
  <2>3. IsAdmin(a) /\ a.sub # u /\ UNCHANGED <<session, access, req>>
    BY <1>1, <2>1 DEF PatchRole, UpdateRole, IsAdmin
  <2>4. HandlersKept
    BY <2>2, <2>3, HandlersSame
  <2>5. TokensOK
    BY <2>3 DEF TokensOK, AuthInv, TypeOK
  <2> QED
    BY <2>2, <2>3, <2>4, <2>5, StepKeeps DEF KeepsLastAdmin
<1>2. CASE PostForcePasswordReset(a, u)
  <2>1. SetMustChangePassword(u) /\ UNCHANGED <<session, access, req>>
    BY <1>2 DEF PostForcePasswordReset, ForcePasswordReset
  <2>2. AccountsKept /\ Admins \subseteq Admins'
    BY <2>1, ChangeForced
  <2>3. HandlersKept /\ TokensOK
    BY <2>1, <2>2, HandlersSame DEF TokensOK, AuthInv, TypeOK
  <2> QED
    BY <2>2, <2>3, StepKeeps DEF KeepsLastAdmin
<1>3. ASSUME NEW r \in Request, PatchStatus(r, a, u) PROVE AuthInv' /\ KeepsLastAdmin
  <2>1. PICK b \in BOOLEAN : UpdateDisabled(r, a.sub, u, b)
    BY <1>3, Zenon DEF PatchStatus
  <2>2. SetDisabled(u, b)
    BY <2>1, Zenon DEF UpdateDisabled
  <2>3. AccountsKept /\ Admins \ {u} \subseteq Admins'
    BY <2>2, DisabledSet, Zenon
  <2>4. a.sub # u /\ UNCHANGED <<session, access>>
    BY <2>1, Zenon DEF UpdateDisabled
  <2>5. IsAdmin(a)
    BY <1>3, Zenon DEF PatchStatus, IsAdmin
  <2>6. TokensOK
    BY <2>4 DEF TokensOK, AuthInv, TypeOK
  <2>7. \/ UNCHANGED req
        \/ req' = [req EXCEPT ![r] = [NoHandler EXCEPT !.pc = "wipe", !.user = u]]
    BY <2>1, Zenon DEF UpdateDisabled, Begin
  <2>8. HandlersKept
    <3> DEFINE h1 == [NoHandler EXCEPT !.user = u]
               h == [h1 EXCEPT !.pc = "wipe"]
    <3>1. [NoHandler EXCEPT !.pc = "wipe", !.user = u] = h
      BY NoHandlerTyped, HandlerWrites, Zenon
    <3>2. h1 \in Handler
      BY NoHandlerTyped, HandlerFields, Zenon
    <3> HIDE DEF h1
    <3>3. h \in Handler /\ h.pc = "wipe"
      BY <3>2, HandlerFields DEF RequestPc
    <3> HIDE DEF h
    <3>4. CASE UNCHANGED req
      BY <2>3, <3>4, HandlersSame
    <3>5. CASE req' = [req EXCEPT ![r] = h]
      BY <2>3, <3>3, <3>5, NewHandler
    <3> QED
      BY <2>7, <3>1, <3>4, <3>5, Zenon
  <2> QED
    BY <2>3, <2>4, <2>5, <2>6, <2>8, StepKeeps DEF KeepsLastAdmin
<1> QED
  BY <1>1, <1>2, <1>3 DEF AdminStep

LEMMA OtherStep ==
    ASSUME AuthInv,
           \/ BootstrapAdmin \/ PostLogout
           \/ \E r \in Request : HandlerFails(r)
           \/ \E k \in Token : SessionExpires(k)
           \/ \E a \in access : AccessTokenExpires(a)
    PROVE  AuthInv' /\ KeepsLastAdmin
<1>1. CASE BootstrapAdmin
  <2>1. Admins = {} /\ UNCHANGED <<session, access, req>>
    BY <1>1, Zenon DEF BootstrapAdmin
  <2>2. PICK p \in Password :
           CreateUser(Local, [role |-> "admin", disabled |-> FALSE, password |-> p,
                              mustChange |-> TRUE])
    BY <1>1, Zenon DEF BootstrapAdmin
  <2> DEFINE d == [role |-> "admin", disabled |-> FALSE, password |-> p, mustChange |-> TRUE]
  <2>3. d \in Row /\ d.role = "admin"
    BY RoleAssumption DEF Row
  <2> HIDE DEF d
  <2>4. AccountsKept
    BY <2>2, <2>3, LocalAssumption, UserCreated DEF d
  <2>5. HandlersKept /\ TokensOK
    BY <2>1, <2>4, HandlersSame DEF TokensOK, AuthInv, TypeOK
  <2> QED
    BY <2>1, <2>4, <2>5, StepKeeps DEF KeepsLastAdmin
<1>2. CASE PostLogout \/ \E k \in Token : SessionExpires(k)
  <2>1. PICK k : DeleteSession(k) /\ UNCHANGED <<row, access, req>>
    BY <1>2 DEF PostLogout, Logout, SessionExpires
  <2>2. AccountsKept /\ Admins' = Admins
    BY <2>1, RowsSame
  <2>3. HandlersKept /\ TokensOK
    BY <2>1, <2>2, HandlersSame, SessionDeleted DEF TokensOK, AuthInv, TypeOK
  <2> QED
    BY <2>2, <2>3, StepKeeps DEF KeepsLastAdmin
<1>3. ASSUME NEW r \in Request, HandlerFails(r) PROVE AuthInv' /\ KeepsLastAdmin
  <2>1. AccountsKept /\ Admins' = Admins
    BY <1>3, RowsSame DEF HandlerFails
  <2>2. HandlersKept /\ TokensOK
    BY <1>3, <2>1, HandlerReturns DEF HandlerFails, TokensOK, AuthInv, TypeOK
  <2> QED
    BY <2>1, <2>2, StepKeeps DEF KeepsLastAdmin
<1>4. ASSUME NEW a \in access, AccessTokenExpires(a) PROVE AuthInv' /\ KeepsLastAdmin
  <2>1. AccountsKept /\ Admins' = Admins
    BY <1>4, RowsSame DEF AccessTokenExpires
  <2>2. HandlersKept /\ TokensOK
    BY <1>4, <2>1, HandlersSame DEF AccessTokenExpires, TokensOK, AuthInv, TypeOK
  <2> QED
    BY <2>1, <2>2, StepKeeps DEF KeepsLastAdmin
<1> QED
  BY <1>1, <1>2, <1>3, <1>4

LEMMA AuthStep ==
    ASSUME AuthInv, [Next]_vars
    PROVE  AuthInv' /\ [KeepsLastAdmin]_vars
<1>1. ASSUME NEW r \in Request, HandlerStart(r) PROVE AuthInv' /\ KeepsLastAdmin
  <2>1. CASE \E a \in access, u \in User : PatchStatus(r, a, u)
    BY <2>1, AdminStepOK
  <2>2. CASE ~(\E a \in access, u \in User : PatchStatus(r, a, u))
    <3>1. HandlersKept /\ UNCHANGED <<row, session, access>>
      BY <1>1, <2>2, HandlerBegins
    <3>2. AccountsKept /\ Admins' = Admins /\ TokensOK
      BY <3>1, RowsSame DEF TokensOK, AuthInv, TypeOK
    <3> QED
      BY <3>1, <3>2, StepKeeps DEF KeepsLastAdmin
  <2> QED
    BY <2>1, <2>2
<1>2. ASSUME NEW r \in Request, HandlerStep(r) PROVE AuthInv' /\ KeepsLastAdmin
  BY <1>2, GoogleStep, IssueStep, RefreshStep, PasswordStep DEF HandlerStep
<1>3. CASE UNCHANGED vars
  BY <1>3, RowsSame, HandlersSame, StepKeeps DEF vars, TokensOK, AuthInv, TypeOK
<1> QED
  BY <1>1, <1>2, <1>3, AdminStepOK, OtherStep DEF Next

LEMMA AuthInvariant == Spec => []AuthInv
<1>1. Init => AuthInv
  <2> SUFFICES ASSUME Init PROVE AuthInv
    OBVIOUS
  <2>1. TypeOK
    BY NoRowTyped, NoHandlerTyped DEF Init, TypeOK
  <2>2. PasswordsHaveUsers
    BY DEF Init, PasswordsHaveUsers, NoRow
  <2>3. \A r \in Request : HandlerOK(req[r])
    BY NoHandlerTyped DEF Init, HandlerOK
  <2> QED
    BY <2>1, <2>2, <2>3 DEF AuthInv
<1>2. AuthInv /\ [Next]_vars => AuthInv'
  BY AuthStep
<1> QED
  BY <1>1, <1>2, PTL DEF Spec

\* Users, sessions, access tokens and handlers keep their types: in particular no
\* access token carries the role of an account that is not there, although the
\* row is read some steps before the token is issued.
THEOREM AuthTyped == Spec => []TypeOK
<1>1. AuthInv => TypeOK
  BY DEF AuthInv
<1> QED
  BY <1>1, AuthInvariant, PTL

\* The last enabled admin disappears only at the hands of somebody who is no
\* enabled admin any more but whose access token has not expired, or of a Google
\* login that writes back the row as it read it: the handlers refuse an admin's
\* change of its own role or status.
THEOREM AdminsAreNotLockedOut == Spec => LastAdminKept
<1>1. AuthInv /\ [Next]_vars =>
        [(Admins # {} /\ Admins' = {}) =>
            \/ \E a \in access : IsAdmin(a) /\ a.sub \notin Admins
            \/ \E r \in Request : WritesBack(r) /\ ~WritesBack(r)']_vars
  BY AuthStep DEF KeepsLastAdmin
<1> QED
  BY <1>1, AuthInvariant, PTL DEF Spec, LastAdminKept
=============================================================================
